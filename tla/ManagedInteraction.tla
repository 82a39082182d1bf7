--------------------------- MODULE ManagedInteraction ---------------------------
(***************************************************************************)
(* ManagedTrace.withInteraction (src/managed-trace.ts): calls on one       *)
(* ManagedTrace that resolve a conversation, hold it, start an interaction *)
(* in it, run the caller's callback and end the interaction in one way.    *)
(*                                                                         *)
(* Trace Core is external.  It is modelled from how withInteraction uses   *)
(* it: a conversation holds one active interaction, a terminal request     *)
(* ends an active one, the same request with the same                      *)
(* terminal_idempotency_key is answered again, another one is refused, and *)
(* a lease that runs out abandons the interaction.  A request that fails   *)
(* for the caller may never arrive, may have arrived, or may still arrive. *)
(***************************************************************************)
EXTENDS Naturals, FiniteSets

CONSTANTS
  Workers,   \* the withInteraction calls
  Strategy,  \* strategy.mode of each; all but one_shot name one external key
  Terminal   \* the terminal action each callback may take: scope.cancel or scope.handoff

Modes == {"resume_by_id", "ensure_current", "one_shot", "create_new_generation"}

TerminalActions == {"cancel", "handoff"}

ASSUME WorkersAssumption == IsFiniteSet(Workers)
ASSUME StrategyAssumption == Strategy \in [Workers -> Modes]
ASSUME TerminalAssumption == Terminal \in [Workers -> TerminalActions]

VARIABLES
  generation,     \* Core: the current generation of the external key
  interaction,    \* Core: execution_status of each worker's interaction
  terminatedBy,   \* Core: the <<action, key>> that ended it
  late,           \* terminal requests that failed for the caller and may still arrive
  pc,             \* where each worker stands
  conversation,   \* the conversation each worker resolved
  pending,        \* pendingConversations holds a request for the external key
  active,         \* activeConversationIds
  terminalAction, \* the promise of cancel or handoff in each scope
  sent,           \* every <<action, key>> each worker sent to end its interaction
  unsure,         \* a request of the worker failed for it
  result          \* what each call ended with

coreVars == <<generation, interaction, terminatedBy, late>>
vars == <<generation, interaction, terminatedBy, late, pc, conversation, pending, active,
          terminalAction, sent, unsure, result>>

None == <<"none", 0>>
Generation(n) == <<"key", n>>
OneShot(w) == <<"one_shot", w>>

Terminated == {"completed", "failed", "canceled", "handed_off", "abandoned"}
Becomes == [complete |-> "completed", fail |-> "failed", cancel |-> "canceled",
            handoff |-> "handed_off"]
Errors == {"resolve", "in_progress", "start", "callback", "terminal", "complete", "conflict"}

Init ==
  /\ generation = 0
  /\ interaction = [w \in Workers |-> "none"]
  /\ terminatedBy = [w \in Workers |-> None]
  /\ late = {}
  /\ pc = [w \in Workers |-> "resolve"]
  /\ conversation = [w \in Workers |-> None]
  /\ pending = FALSE
  /\ active = {}
  /\ terminalAction = [w \in Workers |-> "none"]
  /\ sent = [w \in Workers |-> {}]
  /\ unsure = [w \in Workers |-> FALSE]
  /\ result = [w \in Workers |-> "none"]

--------------------------------------------------------------------------------
\* Trace Core

\* A terminal request arrives: it ends an active interaction.
Arrives(w, action, key) ==
  IF interaction[w] = "active"
  THEN /\ interaction' = [interaction EXCEPT ![w] = Becomes[action]]
       /\ terminatedBy' = [terminatedBy EXCEPT ![w] = <<action, key>>]
  ELSE UNCHANGED <<interaction, terminatedBy>>

\* It is answered with the interaction if it ended it, now or before.
Accepts(w, action, key) ==
  interaction[w] = "active" \/ terminatedBy[w] = <<action, key>>

\* A request that had failed for its caller arrives after all.
ArrivesLate ==
  /\ \E r \in late : Arrives(r.worker, r.action, r.key) /\ late' = late \ {r}
  /\ UNCHANGED <<generation, pc, conversation, pending, active, terminalAction, sent,
                 unsure, result>>

\* The lease of an interaction runs out.
Abandon(w) ==
  /\ interaction[w] = "active"
  /\ interaction' = [interaction EXCEPT ![w] = "abandoned"]
  /\ UNCHANGED <<generation, terminatedBy, late, pc, conversation, pending, active,
                 terminalAction, sent, unsure, result>>

--------------------------------------------------------------------------------
Move(w, step) == pc' = [pc EXCEPT ![w] = step]

End(w, r) ==
  /\ Move(w, "done")
  /\ result' = [result EXCEPT ![w] = r]

\* Leaving after the conversation was taken: `finally` lets go of it.
Leave(w, r) == End(w, r) /\ active' = active \ {conversation[w]}

\* A terminal request as the caller sees it: answered, refused, or failed in
\* one of the ways above.
Answered(w, action, key) ==
  /\ Accepts(w, action, key)
  /\ Arrives(w, action, key)
  /\ UNCHANGED <<late, unsure>>

Failed(w, action, key) ==
  \/ ~Accepts(w, action, key) /\ UNCHANGED <<interaction, terminatedBy, late, unsure>>
  \/ /\ unsure' = [unsure EXCEPT ![w] = TRUE]
     /\ \/ UNCHANGED <<interaction, terminatedBy, late>>
        \/ Arrives(w, action, key) /\ late' = late
        \/ /\ interaction[w] = "active"
           /\ late' = late \cup {[worker |-> w, action |-> action, key |-> key]}
           /\ UNCHANGED <<interaction, terminatedBy>>

Sends(w, action, key) == sent' = [sent EXCEPT ![w] = @ \cup {<<action, key>>}]

--------------------------------------------------------------------------------
\* resolveConversation

\* ensureCurrent: the first caller asks Core, the others await its request.
EnsureCurrent(w) ==
  /\ pc[w] = "resolve"
  /\ Strategy[w] = "ensure_current"
  /\ pending' = TRUE
  /\ Move(w, "ensuring")
  /\ UNCHANGED <<coreVars, conversation, active, terminalAction, sent, unsure, result>>

\* The request settles for every caller that awaits it, and is forgotten.
Ensuring == {w \in Workers : pc[w] = "ensuring"}

EnsureResolves ==
  /\ pending
  /\ pending' = FALSE
  /\ pc' = [w \in Workers |-> IF w \in Ensuring THEN "check" ELSE pc[w]]
  /\ conversation' =
       [w \in Workers |-> IF w \in Ensuring THEN Generation(generation) ELSE conversation[w]]
  /\ UNCHANGED <<coreVars, active, terminalAction, sent, unsure, result>>

EnsureRejects ==
  /\ pending
  /\ pending' = FALSE
  /\ pc' = [w \in Workers |-> IF w \in Ensuring THEN "done" ELSE pc[w]]
  /\ result' = [w \in Workers |-> IF w \in Ensuring THEN "resolve" ELSE result[w]]
  /\ UNCHANGED <<coreVars, conversation, active, terminalAction, sent, unsure>>

\* The other strategies ask Core directly; a new generation may be made by a
\* request that fails.
ResolveDirectly(w) ==
  /\ pc[w] = "resolve"
  /\ Strategy[w] # "ensure_current"
  /\ generation' \in
       IF Strategy[w] = "create_new_generation" THEN {generation + 1} ELSE {generation}
  /\ conversation' = [conversation EXCEPT ![w] =
       CASE Strategy[w] = "resume_by_id" -> Generation(0)
         [] Strategy[w] = "one_shot" -> OneShot(w)
         [] OTHER -> Generation(generation')]
  /\ Move(w, "check")
  /\ UNCHANGED <<interaction, terminatedBy, late, pending, active, terminalAction, sent,
                 unsure, result>>

ResolveFails(w) ==
  /\ pc[w] = "resolve"
  /\ Strategy[w] # "ensure_current"
  /\ generation' \in
       IF Strategy[w] = "create_new_generation" THEN {generation, generation + 1}
       ELSE {generation}
  /\ End(w, "resolve")
  /\ UNCHANGED <<interaction, terminatedBy, late, conversation, pending, active,
                 terminalAction, sent, unsure>>

--------------------------------------------------------------------------------
\* withInteraction

\* Mutant of RefuseSecond: the guard stands inside the `try`.
RefuseSecondInside(w) ==
  /\ pc[w] = "check"
  /\ conversation[w] \in active
  /\ Leave(w, "in_progress")
  /\ UNCHANGED <<coreVars, conversation, pending, terminalAction, sent, unsure>>

\* The guard, which ends the call before anything is taken.
RefuseSecond(w) ==
  /\ pc[w] = "check"
  /\ conversation[w] \in active
  /\ End(w, "in_progress")
  /\ UNCHANGED <<coreVars, conversation, pending, active, terminalAction, sent, unsure>>

Take(w) ==
  /\ pc[w] = "check"
  /\ conversation[w] \notin active
  /\ active' = active \cup {conversation[w]}
  /\ Move(w, "start")
  /\ UNCHANGED <<coreVars, conversation, pending, terminalAction, sent, unsure, result>>

\* Core starts an interaction in a conversation that has no active one.
Free(w) ==
  \A v \in Workers : interaction[v] = "active" => conversation[v] # conversation[w]

StartAnswered(w) ==
  /\ pc[w] = "start"
  /\ Free(w)
  /\ interaction' = [interaction EXCEPT ![w] = "active"]
  /\ Move(w, "callback")
  /\ UNCHANGED <<generation, terminatedBy, late, conversation, pending, active,
                 terminalAction, sent, unsure, result>>

\* Refused, or lost after Core started it.
StartFails(w) ==
  /\ pc[w] = "start"
  /\ \/ interaction' = interaction /\ unsure' = unsure
     \/ /\ Free(w)
        /\ interaction' = [interaction EXCEPT ![w] = "active"]
        /\ unsure' = [unsure EXCEPT ![w] = TRUE]
  /\ Leave(w, "start")
  /\ UNCHANGED <<generation, terminatedBy, late, conversation, pending, terminalAction,
                 sent>>

\* scope.cancel and scope.handoff: the first starts the terminal action of the
\* scope, later ones await it.
AskTerminal(w) ==
  /\ pc[w] = "callback"
  /\ terminalAction[w] = "none"
  /\ terminalAction' = [terminalAction EXCEPT ![w] = Terminal[w]]
  /\ Sends(w, Terminal[w], 1)
  /\ UNCHANGED <<coreVars, pc, conversation, pending, active, unsure, result>>

\* Its promise settles, awaited or not.
TerminalResolves(w) ==
  /\ terminalAction[w] \in TerminalActions
  /\ Answered(w, terminalAction[w], 1)
  /\ terminalAction' = [terminalAction EXCEPT ![w] = Becomes[terminalAction[w]]]
  /\ UNCHANGED <<generation, pc, conversation, pending, active, sent, result>>

TerminalRejects(w) ==
  /\ terminalAction[w] \in TerminalActions
  /\ Failed(w, terminalAction[w], 1)
  /\ terminalAction' = [terminalAction EXCEPT ![w] = "rejected"]
  /\ UNCHANGED <<generation, pc, conversation, pending, active, sent, result>>

\* The callback returns a completion; a terminal action it started goes first.
CallbackReturns(w) ==
  /\ pc[w] = "callback"
  /\ Move(w, IF terminalAction[w] = "none" THEN "complete" ELSE "await")
  /\ UNCHANGED <<coreVars, conversation, pending, active, terminalAction, sent, unsure,
                 result>>

\* It throws, or returns no completion.
\*
\* Mutant of CallbackThrows: the error is passed on and the lease left to run out.
CallbackThrowsOn(w) ==
  /\ pc[w] = "callback"
  /\ Leave(w, "callback")
  /\ UNCHANGED <<coreVars, conversation, pending, terminalAction, sent, unsure>>

CallbackThrows(w) ==
  /\ pc[w] = "callback"
  /\ IF terminalAction[w] = "none"
     THEN Move(w, "fail") /\ UNCHANGED <<active, result>>
     ELSE Leave(w, "callback")
  /\ UNCHANGED <<coreVars, conversation, pending, terminalAction, sent, unsure>>

\* `return await terminalAction`, which throws when it was rejected.
ReturnTerminal(w) ==
  /\ pc[w] = "await"
  /\ terminalAction[w] \in Terminated \cup {"rejected"}
  /\ Leave(w, IF terminalAction[w] = "rejected" THEN "terminal" ELSE terminalAction[w])
  /\ UNCHANGED <<coreVars, conversation, pending, terminalAction, sent, unsure>>

\* failInteraction, whose own failure is swallowed.
Fail(w) ==
  /\ pc[w] = "fail"
  /\ Sends(w, "fail", 1)
  /\ Answered(w, "fail", 1) \/ Failed(w, "fail", 1)
  /\ Leave(w, "callback")
  /\ UNCHANGED <<generation, conversation, pending, terminalAction>>

\* completeInteraction, the first time.
CompleteAnswered(w) ==
  /\ pc[w] = "complete"
  /\ Sends(w, "complete", 1)
  /\ Answered(w, "complete", 1)
  /\ Leave(w, "completed")
  /\ UNCHANGED <<generation, conversation, pending, terminalAction>>

CompleteFails(w) ==
  /\ pc[w] = "complete"
  /\ Sends(w, "complete", 1)
  /\ Failed(w, "complete", 1)
  /\ Move(w, "recover")
  /\ UNCHANGED <<generation, conversation, pending, active, terminalAction, result>>

\* Mutant of TakenAsCompleted: an interaction that has ended is returned.
TakenAsEnded(w) == interaction[w] \in Terminated

\* The state of the interaction that answers for the lost completion.
TakenAsCompleted(w) == interaction[w] = "completed"

\* getInteraction after the failure: what Core says decides.
Recover(w) ==
  /\ pc[w] = "recover"
  /\ \/ TakenAsCompleted(w) /\ Leave(w, interaction[w])
     \/ interaction[w] \in Terminated \ {"completed"} /\ Leave(w, "conflict")
     \/ interaction[w] = "active" /\ Move(w, "again") /\ UNCHANGED <<active, result>>
     \/ Leave(w, "complete")
  /\ UNCHANGED <<coreVars, conversation, pending, terminalAction, sent, unsure>>

\* Mutant of RetryKey: the second completion makes a key of its own.
RetryKeyFresh == 2

\* The terminal_idempotency_key of the second completion: the input is reused.
RetryKey == 1

\* Mutant of CompleteAgain: a failure is looked into as the first one was.
CompleteAgainAndAgain(w) ==
  /\ pc[w] = "again"
  /\ Sends(w, "complete", RetryKey)
  /\ \/ Answered(w, "complete", RetryKey) /\ Leave(w, "completed")
     \/ Failed(w, "complete", RetryKey) /\ Move(w, "recover") /\ UNCHANGED <<active, result>>
  /\ UNCHANGED <<generation, conversation, pending, terminalAction>>

CompleteAgain(w) ==
  /\ pc[w] = "again"
  /\ Sends(w, "complete", RetryKey)
  /\ \/ Answered(w, "complete", RetryKey) /\ Leave(w, "completed")
     \/ Failed(w, "complete", RetryKey) /\ Leave(w, "complete")
  /\ UNCHANGED <<generation, conversation, pending, terminalAction>>

Step(w) ==
  \/ EnsureCurrent(w) \/ ResolveDirectly(w) \/ ResolveFails(w)
  \/ RefuseSecond(w) \/ Take(w) \/ StartAnswered(w) \/ StartFails(w)
  \/ TerminalResolves(w) \/ TerminalRejects(w)
  \/ CallbackReturns(w) \/ CallbackThrows(w) \/ ReturnTerminal(w) \/ Fail(w)
  \/ CompleteAnswered(w) \/ CompleteFails(w) \/ Recover(w) \/ CompleteAgain(w)

Next ==
  \/ \E w \in Workers : Step(w) \/ AskTerminal(w) \/ Abandon(w)
  \/ EnsureResolves \/ EnsureRejects \/ ArrivesLate

Spec == Init /\ [][Next]_vars

\* Requests settle and callbacks end; nothing has to be cancelled, to arrive
\* late or to run out of its lease.
FairSpec ==
  /\ Spec
  /\ \A w \in Workers : WF_vars(Step(w))
  /\ WF_vars(EnsureResolves \/ EnsureRejects)

--------------------------------------------------------------------------------
TypeOK ==
  /\ generation \in 0 .. Cardinality(Workers)
  /\ interaction \in [Workers -> Terminated \cup {"none", "active"}]
  /\ \A w \in Workers : terminatedBy[w] \in ((DOMAIN Becomes) \X {1, 2}) \cup {None}
  /\ late \subseteq [worker : Workers, action : DOMAIN Becomes, key : {1, 2}]
  /\ pc \in [Workers -> {"resolve", "ensuring", "check", "start", "callback", "await",
                         "fail", "complete", "recover", "again", "done"}]
  /\ pending \in BOOLEAN
  /\ active \subseteq {conversation[w] : w \in Workers}
  /\ terminalAction \in
       [Workers -> TerminalActions \cup {"none", "canceled", "handed_off", "rejected"}]
  /\ unsure \in [Workers -> BOOLEAN]
  /\ result \in [Workers -> Terminated \cup Errors \cup {"none"}]

\* The calls between taking a conversation and letting go of it.
Inside == {w \in Workers : pc[w] \notin {"resolve", "ensuring", "check", "done"}}

\* Two calls on one ManagedTrace never work in the same conversation at a time,
\* whichever strategies led them to it and however the earlier ones ended.
OneCallPerConversation ==
  \A v, w \in Inside : conversation[v] = conversation[w] => v = w

\* A call that returns an interaction reports what Core holds, after every
\* recovery of a lost answer, and that is the end its callback asked for: an
\* interaction that was abandoned meanwhile is not passed off as its own.
ReportedIsRecorded ==
  \A w \in Workers : result[w] \in Terminated =>
    /\ interaction[w] = result[w]
    /\ \E request \in sent[w] : Becomes[request[1]] = result[w]

\* Every terminal request of one interaction asks for the same end under the
\* same key, so that a request that arrives late or twice changes nothing.
OneTerminalIntent == \A w \in Workers : Cardinality(sent[w]) <= 1

\* A call that is over has ended its interaction, however the callback ended,
\* unless one of its requests failed or its terminal action is still on its way.
NothingLeftOpen ==
  \A w \in Workers : pc[w] = "done" /\ interaction[w] = "active" =>
    unsure[w] \/ terminalAction[w] \in TerminalActions

\* Every call ends.
CallsEnd == <>(\A w \in Workers : pc[w] = "done")

================================================================================
