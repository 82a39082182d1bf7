---------------------------- MODULE MCTransportRetry ----------------------------
(***************************************************************************)
(* Three calls: a read, a write and a tool call; two tool calls and one    *)
(* that names another platform; a call that the version check exempts      *)
(* beside two writes that it holds back.                                   *)
(***************************************************************************)
EXTENDS TransportRetry, TLC

CONSTANTS c1, c2, c3

MCKinds ==
  {c1 :> "get" @@ c2 :> "post" @@ c3 :> "mcp",
   c1 :> "mcp" @@ c2 :> "mcp" @@ c3 :> "foreign",
   c1 :> "version" @@ c2 :> "stream" @@ c3 :> "post"}
=============================================================================
