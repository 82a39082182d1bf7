---------------------------- MODULE MCTokenRefresh ----------------------------
(***************************************************************************)
(* Three requests of a process on one context, and of the process after it.*)
(***************************************************************************)
EXTENDS TokenRefresh

CONSTANTS r1, r2, r3

MCRequests == {r1, r2, r3}
MCTwoRequests == {r1, r2}
================================================================================
