------------------------------- MODULE PythonTurn -------------------------------
(***************************************************************************)
(* Managed turns of the Python client: bkn_osdk/lifecycle.py and the       *)
(* scopes of config.py.  A call joins the turn of its scope or of its      *)
(* caller, or opens one of its own and finishes it; a traced scope holds a *)
(* turn for each network and finishes them when its block ends.            *)
(*                                                                         *)
(* A turn goes by the call that started it.  The calls of a block run one  *)
(* after another, or in threads that were given a copy of its context      *)
(* variables, as asyncio.to_thread does, and then share its registry.      *)
(*                                                                         *)
(* An answer that refuses is a BknError, whatever it says; a request that  *)
(* gets none is an error of httpx.  The repetition of a refused tool call  *)
(* (mcp.py) changes nothing on the platform and is left out.               *)
(***************************************************************************)
EXTENDS FiniteSets

CONSTANTS
  Calls,   \* the calls of a block
  Kns,     \* the networks they read
  Caller,  \* the turn a caller already owns
  None     \* no turn

VARIABLES client, server
vars == <<client, server>>

TurnsAssumption == Caller \notin Calls /\ None \notin Calls \cup {Caller}

Stages == {"idle", "bare", "join", "start", "send", "finish", "returned", "raised"}
Kinds == {"capability", "read", "query"}

\* "traced" and "owned": in a traced scope; with the ids of a turn in the context.
\* Of a call: its network, whether it is a capability, which always needs a turn, a read,
\* which asks for one only where it is refused, or a query through a tool of the scope's
\* turn; the turn it goes with; and whether it got an answer.  The history "untold" has the
\* turns whose start was not answered, "displaced" those the registry lost, and "unheard"
\* those whose finish failed.
Init ==
  \E traced, owned, shared \in BOOLEAN :
    /\ client = [command |-> "turns", traced |-> traced, owned |-> owned, shared |-> shared,
                 scope |-> IF traced THEN "open" ELSE "none", ending |-> "none",
                 registry |-> [k \in Kns |-> None],
                 calls |-> [c \in Calls |-> [at |-> "idle", kn |-> None, kind |-> "read",
                                             turn |-> None, answered |-> FALSE]]]
    /\ server = [turns |-> [x \in Calls \cup {Caller} |-> IF x = Caller THEN "active" ELSE "none"],
                 untold |-> {}, displaced |-> {}, unheard |-> {}]

At(c) == client.calls[c].at
Kn(c) == client.calls[c].kn
Turn(c) == client.calls[c].turn
Answered(c) == client.calls[c].answered
\* A call as it goes on.
With(c, at, turn, answered) ==
  [at |-> at, kn |-> Kn(c), kind |-> client.calls[c].kind, turn |-> turn, answered |-> answered]
Go(c, at) == client' = [client EXCEPT !.calls[c] = With(c, at, Turn(c), Answered(c))]
Over(c) == At(c) \in {"returned", "raised"}

----------------------------------------------------------------------------
\* A call: with_context_retry, ensure_interaction, current_interaction.

\* _has_turn
HasTurn == client.traced \/ client.owned

Begin(c, kn, kind) ==
  /\ At(c) = "idle" /\ client.scope \in {"open", "none"}
  /\ client.shared \/ \A d \in Calls : At(d) = "idle" \/ Over(d)
  /\ kind = "query" => client.traced
  /\ client' = [client EXCEPT !.calls[c] =
       [at |-> IF kind = "read" /\ ~HasTurn THEN "bare" ELSE "join", kn |-> kn, kind |-> kind,
        turn |-> None, answered |-> FALSE]]
  /\ UNCHANGED server

\* A read without a turn is answered, refused for want of one, or fails.
SendBare(c) ==
  /\ At(c) = "bare"
  /\ \/ client' = [client EXCEPT !.calls[c] = With(c, "returned", Turn(c), TRUE)]
     \/ \E at \in {"join", "raised"} : Go(c, at)
  /\ UNCHANGED server

\* The registry of the scope, the turn of the caller, or a turn of its own.
Join(c) ==
  /\ At(c) = "join"
  /\ LET known == IF client.traced THEN client.registry[Kn(c)] ELSE None
         turn == IF known = None /\ client.owned THEN Caller ELSE known
     IN  client' = [client EXCEPT
           !.calls[c] = With(c, IF turn = None THEN "start" ELSE "send", turn, Answered(c)),
           !.registry[Kn(c)] = IF client.traced /\ known = None THEN turn ELSE @]
  /\ UNCHANGED server

\* The catalog has no tool for it, or cannot be reached; or the platform refuses.
NotStarted(c) ==
  /\ At(c) = "start"
  /\ Go(c, "raised")
  /\ UNCHANGED server

\* bkn_start_interaction.  A scope holds what it opened last.
Started(c) ==
  /\ At(c) = "start"
  /\ client' = [client EXCEPT !.calls[c] = With(c, "send", c, Answered(c)),
                              !.registry[Kn(c)] = IF client.traced THEN c ELSE @]
  /\ server' = [server EXCEPT
       !.turns[c] = "active",
       !.displaced = IF client.traced THEN @ \cup ({client.registry[Kn(c)]} \ {None}) ELSE @]

\* The turn is opened, and its answer lost or without the ids.
StartedUntold(c) ==
  /\ At(c) = "start"
  /\ Go(c, "raised")
  /\ server' = [server EXCEPT !.turns[c] = "active", !.untold = @ \cup {c}]

\* Who finishes: the call, if it opened the turn outside a scope.
FinishesOwn(c) == Turn(c) = c /\ ~client.traced

Sent(c) ==
  /\ At(c) = "send"
  /\ \E answered \in BOOLEAN :
       LET end == IF answered THEN "returned" ELSE "raised"
       IN  client' = [client EXCEPT
             !.calls[c] = With(c, IF FinishesOwn(c) THEN "finish" ELSE end, Turn(c), answered)]
  /\ UNCHANGED server

\* "completed" needs an answer, and a turn of the client has none.
Outcome(succeeded) == IF succeeded THEN "cancelled" ELSE "failed"

Close(turn, succeeded) == [server EXCEPT !.turns[turn] = Outcome(succeeded)]
CloseUnheard(turn) == [server EXCEPT !.unheard = @ \cup {turn}]

\* finish: a refusal is swallowed; what httpx raises is not, and takes the place of the
\* result or of the error.
Finish(c) ==
  /\ At(c) = "finish"
  /\ LET ok == Answered(c)
         end == IF ok THEN "returned" ELSE "raised"
     IN  \/ server' = Close(c, ok) /\ Go(c, end)
         \/ server' = CloseUnheard(c) /\ Go(c, end)
         \/ server' \in {Close(c, ok), CloseUnheard(c)} /\ Go(c, "raised")

Call(c) ==
  \/ \E kn \in Kns, kind \in Kinds : Begin(c, kn, kind)
  \/ SendBare(c) \/ Join(c) \/ NotStarted(c) \/ Started(c) \/ StartedUntold(c) \/ Sent(c) \/ Finish(c)

----------------------------------------------------------------------------
\* The scope: session, _finish_interactions.

\* The block ends, with or without an error, of a call or its own.
EndBlock ==
  /\ client.scope = "open" /\ \A c \in Calls : At(c) = "idle" \/ Over(c)
  /\ \E ending \in {"cancelled", "failed"} :
       client' = [client EXCEPT !.scope = "closing", !.ending = ending]
  /\ UNCHANGED server

\* Mutant of Held: of the turns in the registry, those of the caller are finished too.
HeldWithCallers == {k \in Kns : client.registry[k] # None}

\* The networks whose turn is the scope's to finish.
Held == {k \in Kns : client.registry[k] \notin {None, Caller}}

\* One after the other; what httpx raises leaves the rest unfinished.
FinishOne(k) ==
  /\ client.scope = "closing" /\ k \in Held
  /\ LET turn == client.registry[k]
         rest == [client EXCEPT !.registry[k] = None]
         closed == Close(turn, client.ending = "cancelled")
     IN  \/ server' \in {closed, CloseUnheard(turn)} /\ client' = rest
         \/ /\ server' \in {[closed EXCEPT !.unheard = @ \cup {client.registry[j] : j \in Held \ {k}}],
                            [server EXCEPT !.unheard = @ \cup {client.registry[j] : j \in Held}]}
            /\ client' = [client EXCEPT !.scope = "broken"]

EndScope ==
  /\ client.scope = "closing" /\ Held = {}
  /\ client' = [client EXCEPT !.scope = "closed"]
  /\ UNCHANGED server

Next == (\E c \in Calls : Call(c)) \/ EndBlock \/ (\E k \in Kns : FinishOne(k)) \/ EndScope

----------------------------------------------------------------------------
\* Properties.

\* The state of the block and of its turns has the shapes of lifecycle.py.
TypeOK ==
  /\ client \in
       [command : {"turns"}, traced : BOOLEAN, owned : BOOLEAN, shared : BOOLEAN,
        scope : {"none", "open", "closing", "closed", "broken"},
        ending : {"none", "cancelled", "failed"}, registry : [Kns -> Calls \cup {Caller, None}],
        calls : [Calls -> [at : Stages, kn : Kns \cup {None}, kind : Kinds,
                           turn : Calls \cup {Caller, None}, answered : BOOLEAN]]]
  /\ server \in
       [turns : [Calls \cup {Caller} -> {"none", "active", "cancelled", "failed"}],
        untold : SUBSET Calls, displaced : SUBSET Calls, unheard : SUBSET Calls]

Ended ==
  /\ client.scope \in {"none", "closed", "broken"}
  /\ \A c \in Calls : At(c) = "idle" \/ Over(c)

\* Only the turns nobody could finish stay open: their start was not told or their finish
\* failed; in a block of threads, also those another start took out of the registry.
NothingLeftOpen ==
  Ended => \A c \in Calls :
    server.turns[c] = "active" =>
      c \in server.untold \cup server.unheard \cup (IF client.shared THEN server.displaced ELSE {})

\* A turn is closed as failed exactly if the call, or the block, it was opened for failed.
OutcomesTold ==
  \A c \in Calls : server.turns[c] \in {"cancelled", "failed"} =>
    (server.turns[c] = "cancelled") =
      (IF client.traced THEN client.ending = "cancelled" ELSE Answered(c))

\* A turn is finished by whoever opened it, when what it was opened for is over: the turn
\* of a caller never is, none of the client's is left open, and the evidence does not call
\* a failed call well done (ensure_interaction, finish, _finish_interactions).
TurnsAreFinished ==
  server.turns[Caller] = "active" /\ NothingLeftOpen /\ OutcomesTold

\* The comment of finish: "turning a bookkeeping error into the caller's exception would
\* hide the result they came for", of a call that was answered.
ResultKept == \A c \in Calls : Answered(c) => At(c) # "raised"

\* The head of lifecycle.py: "One interaction per scope", of each network.
OneTurnPerNetwork == server.displaced = {}
=============================================================================
