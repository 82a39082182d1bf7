---------------------------- MODULE OperationPromise ----------------------------
(***************************************************************************)
(* What runOperation promises about the business callback of one operation *)
(* (src/managed-trace.ts, TRACE.md "受管调用"), whatever the number of calls *)
(* that share its operation_key, of attempts, and of answers of Trace Core *)
(* that are lost: the callback runs one execution at a time, a new one     *)
(* starts only after a failed one that may be retried, and none starts     *)
(* after a success.                                                        *)
(***************************************************************************)
VARIABLE phase   \* of the callback: "ready", "running", "succeeded", "failed"

Phases == {"ready", "running", "succeeded", "failed"}

TypeOK == phase \in Phases

Init == phase = "ready"

Start == phase = "ready" /\ phase' = "running"

Succeed == phase = "running" /\ phase' = "succeeded"

(* A failure the error marks as retryable makes the callback ready again.  *)
Fail == phase = "running" /\ phase' \in {"failed", "ready"}

Next == Start \/ Succeed \/ Fail

Spec == Init /\ [][Next]_phase
=================================================================================
