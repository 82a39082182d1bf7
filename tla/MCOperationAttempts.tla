--------------------------- MODULE MCOperationAttempts ---------------------------
(***************************************************************************)
(* Three calls of runOperation with one operation_key in one interaction:  *)
(* two with the default of two attempts and one that asks for three.       *)
(***************************************************************************)
EXTENDS OperationAttempts, TLC

CONSTANTS c1, c2, c3

MCCalls == {c1, c2, c3}
MCMaxAttempts == c1 :> 2 @@ c2 :> 2 @@ c3 :> 3

\* Two calls that share one maxAttempts.
MCTwoCalls == {c1, c2}
MCSameMaxAttempts == [c \in MCTwoCalls |-> 2]
==================================================================================
