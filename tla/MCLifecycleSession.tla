-------------------------- MODULE MCLifecycleSession --------------------------
(***************************************************************************)
(* Three calls of one process on one knowledge network.                    *)
(***************************************************************************)
EXTENDS LifecycleSession, TLC

CONSTANTS c1, c2, c3

MCCalls == {c1, c2, c3}
MCTwoCalls == {c1, c2}
MCRequires == {c1}
================================================================================
