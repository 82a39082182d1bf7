-------------------------- MODULE MCManagedInteraction --------------------------
(***************************************************************************)
(* Three calls of withInteraction on one ManagedTrace.                     *)
(***************************************************************************)
EXTENDS ManagedInteraction, TLC

CONSTANTS w1, w2, w3

MCWorkers == {w1, w2, w3}
MCStrategy == w1 :> "ensure_current" @@ w2 :> "ensure_current" @@ w3 :> "resume_by_id"
MCTerminal == w1 :> "cancel" @@ w2 :> "handoff" @@ w3 :> "cancel"
==================================================================================
