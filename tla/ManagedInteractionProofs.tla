------------------------ MODULE ManagedInteractionProofs ------------------------
(***************************************************************************)
(* Proofs about ManagedInteraction for every finite set of calls, each     *)
(* with any strategy and any terminal action.                              *)
(***************************************************************************)
EXTENDS ManagedInteraction, FiniteSetTheorems, TLAPS

Actions == {"complete", "fail", "cancel", "handoff"}
Labels == {"resolve", "ensuring", "check", "start", "callback", "await", "fail", "complete",
           "recover", "again", "done"}
Requests == Actions \X {1, 2}
Conversations ==
  {None} \cup {Generation(n) : n \in Nat} \cup {OneShot(w) : w \in Workers}

\* The variables that TypeOK describes worker by worker are functions.
Shapes ==
  /\ terminatedBy \in [Workers -> Requests \cup {None}]
  /\ sent \in [Workers -> SUBSET Requests]
  /\ conversation \in [Workers -> Conversations]

\* A generation was made by a call that has resolved.
Resolved == {w \in Workers : pc[w] # "resolve"}
GenerationsCounted == generation \in Nat /\ generation <= Cardinality(Resolved)

\* The conversations that are taken are those of the calls inside.
HeldIsActive == active = {conversation[w] : w \in Inside}

Early == {"resolve", "ensuring", "check", "start"}

\* A call that has started nothing has asked for nothing.
NothingYet(w) ==
  pc[w] \in Early =>
    /\ interaction[w] = "none" /\ terminatedBy[w] = None
    /\ terminalAction[w] = "none" /\ sent[w] = {} /\ result[w] = "none"

\* What Core recorded as the end of an interaction is how it ended.
EndIsRecorded(w) ==
  terminatedBy[w] # None => interaction[w] = Becomes[terminatedBy[w][1]]

\* A terminal action is the one request of its call.
ActionAlone(w) ==
  terminalAction[w] # "none" =>
    /\ pc[w] \in {"callback", "await", "done"}
    /\ sent[w] = {<<Terminal[w], 1>>}
    /\ terminalAction[w] \in {Terminal[w], Becomes[Terminal[w]], "rejected"}
    /\ terminalAction[w] = Becomes[Terminal[w]] => interaction[w] = terminalAction[w]
    /\ terminalAction[w] = "rejected" => unsure[w] \/ interaction[w] # "active"

\* Without one, the requests follow how the callback ended.
RequestsFollow(w) ==
  terminalAction[w] = "none" =>
    /\ pc[w] # "await"
    /\ pc[w] \in {"callback", "fail", "complete"} => sent[w] = {}
    /\ pc[w] \in {"recover", "again"} =>
         sent[w] = {<<"complete", 1>>} /\ (unsure[w] \/ interaction[w] # "active")
    /\ pc[w] = "done" => sent[w] \in {{}, {<<"complete", 1>>}, {<<"fail", 1>>}}

Reported(w) ==
  result[w] \in Terminated =>
    /\ interaction[w] = result[w]
    /\ \E request \in sent[w] : Becomes[request[1]] = result[w]

LeftOpen(w) ==
  pc[w] = "done" /\ interaction[w] = "active" =>
    unsure[w] \/ terminalAction[w] \in TerminalActions

Good(w) ==
  /\ NothingYet(w)
  /\ EndIsRecorded(w)
  /\ ActionAlone(w)
  /\ RequestsFollow(w)
  /\ Reported(w)
  /\ LeftOpen(w)

IInv ==
  /\ TypeOK
  /\ Shapes
  /\ GenerationsCounted
  /\ HeldIsActive
  /\ OneCallPerConversation
  /\ \A w \in Workers : Good(w)

\* The requests, and what they make of an interaction.
LEMMA BecomesFacts ==
  /\ DOMAIN Becomes = Actions
  /\ Becomes["complete"] = "completed" /\ Becomes["fail"] = "failed"
  /\ Becomes["cancel"] = "canceled" /\ Becomes["handoff"] = "handed_off"
  /\ \A a \in Actions : Becomes[a] \in Terminated
  BY DEF Becomes, Actions, Terminated

\* What the rest of a step may change: the worker's own state, and Core's.
Touches(w) ==
  \A v \in Workers \ {w} :
    /\ pc'[v] = pc[v] /\ interaction'[v] = interaction[v]
    /\ terminatedBy'[v] = terminatedBy[v] /\ terminalAction'[v] = terminalAction[v]
    /\ sent'[v] = sent[v] /\ result'[v] = result[v] /\ unsure'[v] = unsure[v]

\* A worker that a step does not touch stays good.
LEMMA TouchesKeeps ==
  ASSUME IInv, NEW w \in Workers, Touches(w), Good(w)'
  PROVE  \A v \in Workers : Good(v)'
<1> SUFFICES ASSUME NEW v \in Workers, v # w PROVE Good(v)'
  OBVIOUS
<1>1. Good(v) BY DEF IInv
<1>2. QED
  BY <1>1
  DEF Touches, Good, NothingYet, EndIsRecorded, ActionAlone, RequestsFollow, Reported, LeftOpen

\* What a request that is answered does in Core.
LEMMA AnsweredMeans ==
  ASSUME IInv, NEW w \in Workers, NEW a \in Actions, NEW k \in {1, 2}, Answered(w, a, k)
  PROVE  /\ interaction' \in [Workers -> Terminated \cup {"none", "active"}]
         /\ terminatedBy' \in [Workers -> Requests \cup {None}]
         /\ \A v \in Workers \ {w} :
              interaction'[v] = interaction[v] /\ terminatedBy'[v] = terminatedBy[v]
         /\ interaction'[w] = Becomes[a]
         /\ interaction[w] \in {"active", Becomes[a]}
         /\ EndIsRecorded(w)'
         /\ UNCHANGED <<late, unsure>>
<1> USE BecomesFacts DEF IInv, Requests
<1>1. EndIsRecorded(w) BY DEF Good
<1>2. None \notin Requests BY DEF None, Actions
<1>3. CASE interaction[w] = "active"
  <2>1. /\ interaction' = [interaction EXCEPT ![w] = Becomes[a]]
        /\ terminatedBy' = [terminatedBy EXCEPT ![w] = <<a, k>>]
        /\ UNCHANGED <<late, unsure>>
    BY <1>3 DEF Answered, Arrives
  <2>2. QED BY <1>3, <2>1 DEF TypeOK, Shapes, EndIsRecorded
<1>4. CASE interaction[w] # "active"
  <2>1. terminatedBy[w] = <<a, k>> /\ UNCHANGED <<interaction, terminatedBy, late, unsure>>
    BY <1>4 DEF Answered, Accepts, Arrives
  <2>2. terminatedBy[w] # None /\ terminatedBy[w][1] = a BY <1>2, <2>1
  <2>3. QED BY <1>1, <2>1, <2>2 DEF TypeOK, Shapes, EndIsRecorded
<1>5. QED BY <1>3, <1>4

\* What a request that fails for its caller may do in Core.
LEMMA FailedMeans ==
  ASSUME IInv, NEW w \in Workers, NEW a \in Actions, NEW k \in {1, 2}, Failed(w, a, k)
  PROVE  /\ interaction' \in [Workers -> Terminated \cup {"none", "active"}]
         /\ terminatedBy' \in [Workers -> Requests \cup {None}]
         /\ late' \subseteq [worker : Workers, action : DOMAIN Becomes, key : {1, 2}]
         /\ unsure' \in [Workers -> BOOLEAN]
         /\ \A v \in Workers \ {w} :
              /\ interaction'[v] = interaction[v] /\ terminatedBy'[v] = terminatedBy[v]
              /\ unsure'[v] = unsure[v]
         /\ interaction'[w] = interaction[w] \/ interaction[w] = "active"
         /\ unsure'[w] \/ interaction'[w] # "active"
         /\ EndIsRecorded(w)'
<1> USE BecomesFacts DEF IInv, Requests
<1>1. EndIsRecorded(w) BY DEF Good
<1>2. CASE UNCHANGED <<interaction, terminatedBy>>
  <2>1. late' \subseteq [worker : Workers, action : DOMAIN Becomes, key : {1, 2}]
    BY <1>2 DEF Failed, Arrives, TypeOK
  <2>2. \/ UNCHANGED unsure /\ interaction[w] # "active"
        \/ unsure' = [unsure EXCEPT ![w] = TRUE]
    BY DEF Failed, Accepts
  <2>3. QED BY <1>1, <1>2, <2>1, <2>2 DEF TypeOK, Shapes, EndIsRecorded
<1>3. CASE ~UNCHANGED <<interaction, terminatedBy>>
  <2>1. /\ interaction[w] = "active"
        /\ interaction' = [interaction EXCEPT ![w] = Becomes[a]]
        /\ terminatedBy' = [terminatedBy EXCEPT ![w] = <<a, k>>]
        /\ late' = late /\ unsure' = [unsure EXCEPT ![w] = TRUE]
    BY <1>3 DEF Failed, Arrives
  <2>2. QED BY <2>1 DEF TypeOK, Shapes, EndIsRecorded
<1>4. QED BY <1>2, <1>3

InsideLabels == {"start", "callback", "await", "fail", "complete", "recover", "again"}

\* Types of what a step of a call may change besides its own place.
StepTypes ==
  /\ interaction \in [Workers -> Terminated \cup {"none", "active"}]
  /\ late \subseteq [worker : Workers, action : DOMAIN Becomes, key : {1, 2}]
  /\ pc \in [Workers -> Labels]
  /\ pending \in BOOLEAN
  /\ terminalAction \in
       [Workers -> TerminalActions \cup {"none", "canceled", "handed_off", "rejected"}]
  /\ unsure \in [Workers -> BOOLEAN]
  /\ result \in [Workers -> Terminated \cup Errors \cup {"none"}]

\* The parts of the invariant make the whole.
LEMMA Assemble ==
  ASSUME StepTypes', Shapes', GenerationsCounted', HeldIsActive', OneCallPerConversation',
         \A w \in Workers : Good(w)'
  PROVE  IInv'
<1>1. Resolved' \subseteq Workers BY DEF Resolved
<1>2. /\ Cardinality(Resolved') \in Nat /\ Cardinality(Workers) \in Nat
      /\ Cardinality(Resolved') <= Cardinality(Workers)
  BY <1>1, WorkersAssumption, FS_Subset, FS_CardinalityType
<1>3. generation' \in 0 .. Cardinality(Workers) BY <1>2 DEF GenerationsCounted
<1>4. \A w \in Workers : terminatedBy'[w] \in ((DOMAIN Becomes) \X {1, 2}) \cup {None}
  BY BecomesFacts DEF Shapes, Requests
<1>5. active' \subseteq {conversation'[w] : w \in Workers} BY DEF HeldIsActive, Inside
<1>6. TypeOK' BY <1>3, <1>4, <1>5 DEF TypeOK, StepTypes, Labels
<1>7. QED BY <1>6 DEF IInv

\* A call that goes on inside keeps its conversation to itself.
LEMMA InsideKeeps ==
  ASSUME IInv, NEW w \in Inside, NEW label \in InsideLabels,
         pc' = [pc EXCEPT ![w] = label], UNCHANGED <<generation, conversation, active>>
  PROVE  /\ pc' \in [Workers -> Labels] /\ pc'[w] = label
         /\ \A v \in Workers \ {w} : pc'[v] = pc[v]
         /\ GenerationsCounted' /\ HeldIsActive' /\ OneCallPerConversation'
<1> USE DEF IInv
<1>1. w \in Workers /\ pc[w] \in InsideLabels
  BY DEF Inside, TypeOK, InsideLabels
<1>2. /\ pc' \in [Workers -> Labels] /\ pc'[w] = label
      /\ \A v \in Workers \ {w} : pc'[v] = pc[v]
  BY <1>1 DEF TypeOK, Labels, InsideLabels
<1>3. Inside' = Inside /\ Resolved' = Resolved
  BY <1>1, <1>2 DEF Inside, Resolved, InsideLabels
<1>4. GenerationsCounted' /\ HeldIsActive' /\ OneCallPerConversation'
  BY <1>3 DEF GenerationsCounted, HeldIsActive, OneCallPerConversation
<1>5. QED BY <1>2, <1>4

\* A call that leaves lets go of its conversation and of no other (finally).
LEMMA LeaveKeeps ==
  ASSUME IInv, NEW w \in Inside, NEW r, Leave(w, r), UNCHANGED <<generation, conversation>>
  PROVE  /\ pc' \in [Workers -> Labels] /\ pc'[w] = "done"
         /\ \A v \in Workers \ {w} : pc'[v] = pc[v] /\ result'[v] = result[v]
         /\ result'[w] = r
         /\ r \in Terminated \cup Errors =>
              result' \in [Workers -> Terminated \cup Errors \cup {"none"}]
         /\ GenerationsCounted' /\ HeldIsActive' /\ OneCallPerConversation'
<1> USE DEF IInv
<1>1. /\ w \in Workers /\ pc[w] \in InsideLabels
      /\ pc' = [pc EXCEPT ![w] = "done"] /\ result' = [result EXCEPT ![w] = r]
      /\ active' = active \ {conversation[w]}
  BY DEF Inside, TypeOK, InsideLabels, Leave, End, Move
<1>2. /\ pc' \in [Workers -> Labels] /\ pc'[w] = "done"
      /\ \A v \in Workers \ {w} : pc'[v] = pc[v] /\ result'[v] = result[v]
      /\ result'[w] = r
      /\ r \in Terminated \cup Errors =>
           result' \in [Workers -> Terminated \cup Errors \cup {"none"}]
  BY <1>1 DEF TypeOK, Labels
<1>3. Inside' = Inside \ {w} /\ Resolved' = Resolved
  BY <1>1, <1>2 DEF Inside, Resolved, InsideLabels
<1>4. GenerationsCounted' /\ OneCallPerConversation'
  BY <1>3 DEF GenerationsCounted, OneCallPerConversation
<1>5. HeldIsActive'
  BY <1>1, <1>3 DEF HeldIsActive, OneCallPerConversation
<1>6. QED BY <1>2, <1>4, <1>5

\* A call that ends before it took a conversation holds none.
LEMMA OutsideKeeps ==
  ASSUME IInv, NEW w \in Workers, pc[w] \in {"resolve", "ensuring", "check"},
         NEW label \in {"ensuring", "check", "done"}, pc' = [pc EXCEPT ![w] = label],
         \A v \in Workers \ {w} : conversation'[v] = conversation[v], active' = active,
         generation' = generation \/ (pc[w] = "resolve" /\ generation' = generation + 1)
  PROVE  /\ pc' \in [Workers -> Labels] /\ pc'[w] = label
         /\ \A v \in Workers \ {w} : pc'[v] = pc[v]
         /\ GenerationsCounted' /\ HeldIsActive' /\ OneCallPerConversation'
<1> USE DEF IInv
<1>1. /\ pc' \in [Workers -> Labels] /\ pc'[w] = label
      /\ \A v \in Workers \ {w} : pc'[v] = pc[v]
  BY DEF TypeOK, Labels
<1>2. Inside' = Inside /\ w \notin Inside BY <1>1 DEF Inside
<1>3. HeldIsActive' /\ OneCallPerConversation'
  BY <1>2 DEF HeldIsActive, OneCallPerConversation, Inside
<1>4. GenerationsCounted'
  <2>1. Resolved \subseteq Workers /\ IsFiniteSet(Resolved) /\ Cardinality(Resolved) \in Nat
    BY WorkersAssumption, FS_Subset, FS_CardinalityType DEF Resolved
  <2>2. CASE pc[w] = "resolve"
    <3>1. Resolved' = Resolved \cup {w} /\ w \notin Resolved
      BY <1>1, <2>2 DEF Resolved
    <3>2. Cardinality(Resolved') = Cardinality(Resolved) + 1
      BY <2>1, <3>1, FS_AddElement
    <3>3. QED BY <2>1, <3>2 DEF GenerationsCounted
  <2>3. CASE pc[w] # "resolve"
    <3>1. Resolved' = Resolved BY <1>1, <2>3 DEF Resolved
    <3>2. QED BY <2>3, <3>1 DEF GenerationsCounted
  <2>4. QED BY <2>2, <2>3
<1>5. QED BY <1>1, <1>3, <1>4

\* How a call finds its conversation, up to the guard (resolveConversation).
LEMMA ResolvingKeeps ==
  ASSUME IInv, NEW w \in Workers,
         EnsureCurrent(w) \/ ResolveDirectly(w) \/ ResolveFails(w) \/ RefuseSecond(w)
  PROVE  IInv'
<1> USE DEF IInv
<1>1. /\ pc[w] \in {"resolve", "check"}
      /\ UNCHANGED <<interaction, terminatedBy, late, active, terminalAction, sent, unsure>>
      /\ pending' = pending \/ pending' = TRUE
      /\ generation' = generation \/ (pc[w] = "resolve" /\ generation' = generation + 1)
      /\ \A v \in Workers \ {w} : conversation'[v] = conversation[v]
  BY DEF EnsureCurrent, ResolveDirectly, ResolveFails, RefuseSecond, coreVars, Shapes
<1>2. conversation' \in [Workers -> Conversations]
  <2>1. CASE ResolveDirectly(w)
    <3>1. generation' \in Nat /\ 0 \in Nat BY <1>1 DEF GenerationsCounted
    <3>2. Generation(0) \in Conversations /\ Generation(generation') \in Conversations
          /\ OneShot(w) \in Conversations
      BY <3>1 DEF Conversations
    <3>3. QED BY <2>1, <3>2 DEF ResolveDirectly, Shapes
  <2>2. CASE ~ResolveDirectly(w)
    BY <2>2 DEF EnsureCurrent, ResolveFails, RefuseSecond, Shapes
  <2>3. QED BY <2>1, <2>2
<1>3. PICK label \in {"ensuring", "check", "done"} :
        /\ pc' = [pc EXCEPT ![w] = label]
        /\ label # "done" => result' = result
        /\ label = "done" => result' \in {[result EXCEPT ![w] = "resolve"],
                                          [result EXCEPT ![w] = "in_progress"]}
  BY DEF EnsureCurrent, ResolveDirectly, ResolveFails, RefuseSecond, End, Move
<1>4. /\ pc' \in [Workers -> Labels] /\ pc'[w] = label
      /\ \A v \in Workers \ {w} : pc'[v] = pc[v]
      /\ GenerationsCounted' /\ HeldIsActive' /\ OneCallPerConversation'
  BY <1>1, <1>3, OutsideKeeps
<1>5. /\ result' \in [Workers -> Terminated \cup Errors \cup {"none"}]
      /\ \A v \in Workers \ {w} : result'[v] = result[v]
      /\ result'[w] \notin Terminated
  <2>1. NothingYet(w) /\ pc[w] \in Early BY <1>1 DEF Good, Early
  <2>2. QED BY <1>3, <2>1 DEF TypeOK, Errors, Terminated, NothingYet
<1>6. StepTypes' /\ Shapes'
  BY <1>1, <1>2, <1>4, <1>5 DEF TypeOK, StepTypes, Shapes
<1>7. Good(w)'
  <2>1. NothingYet(w) /\ EndIsRecorded(w) /\ pc[w] \in Early BY <1>1 DEF Good, Early
  <2>2. /\ interaction'[w] = "none" /\ terminatedBy'[w] = None
        /\ terminalAction'[w] = "none" /\ sent'[w] = {}
    BY <1>1, <2>1 DEF NothingYet
  <2>3. label # "done" => result'[w] = "none"
    BY <1>3, <2>1 DEF NothingYet
  <2>4. QED
    BY <1>3, <1>4, <1>5, <2>2, <2>3
    DEF Good, NothingYet, EndIsRecorded, ActionAlone, RequestsFollow, Reported, LeftOpen, Early
<1>8. Touches(w) BY <1>1, <1>4, <1>5 DEF Touches
<1>9. QED BY <1>4, <1>6, <1>7, <1>8, TouchesKeeps, Assemble

\* The shared request of ensureCurrent settles.
LEMMA EnsuredKeeps == ASSUME IInv, EnsureResolves \/ EnsureRejects PROVE IInv'
<1> USE DEF IInv
<1>1. /\ UNCHANGED <<generation, interaction, terminatedBy, late, active, terminalAction, sent,
                     unsure>>
      /\ pending' = FALSE
  BY DEF EnsureResolves, EnsureRejects, coreVars
<1>2. PICK label \in {"check", "done"} :
        /\ pc' = [v \in Workers |-> IF v \in Ensuring THEN label ELSE pc[v]]
        /\ label = "check" => result' = result
        /\ label = "done" =>
             result' = [v \in Workers |-> IF v \in Ensuring THEN "resolve" ELSE result[v]]
  BY DEF EnsureResolves, EnsureRejects
<1>3. /\ conversation' \in [Workers -> Conversations]
      /\ \A v \in Workers : v \notin Ensuring => conversation'[v] = conversation[v]
  <2>1. Generation(generation) \in Conversations BY DEF GenerationsCounted, Conversations
  <2>2. QED BY <2>1 DEF EnsureResolves, EnsureRejects, Shapes
<1>4. pc' \in [Workers -> Labels] BY <1>2 DEF TypeOK, Labels
<1>5. Inside' = Inside /\ Resolved' = Resolved
  BY <1>2 DEF Inside, Resolved, Ensuring
<1>6. \A v \in Inside : conversation'[v] = conversation[v]
  BY <1>3 DEF Inside, Ensuring
<1>7. GenerationsCounted' /\ HeldIsActive' /\ OneCallPerConversation'
  BY <1>1, <1>5, <1>6 DEF GenerationsCounted, HeldIsActive, OneCallPerConversation
<1>8. result' \in [Workers -> Terminated \cup Errors \cup {"none"}]
  BY <1>2 DEF TypeOK, Errors
<1>9. StepTypes' /\ Shapes'
  BY <1>1, <1>3, <1>4, <1>8 DEF TypeOK, StepTypes, Shapes
<1>10. ASSUME NEW v \in Workers PROVE Good(v)'
  <2>1. Good(v) OBVIOUS
  <2>2. CASE v \in Ensuring
    <3>1. NothingYet(v) /\ pc[v] \in Early BY <2>1, <2>2 DEF Good, Ensuring, Early
    <3>2. /\ pc'[v] = label /\ result'[v] \in {"none", "resolve"}
          /\ label = "check" => result'[v] = "none"
      BY <1>2, <2>2, <3>1 DEF NothingYet
    <3>3. QED
      BY <1>1, <3>1, <3>2
      DEF Good, NothingYet, EndIsRecorded, ActionAlone, RequestsFollow, Reported, LeftOpen,
          Terminated, Early
  <2>3. CASE v \notin Ensuring
    <3>1. pc'[v] = pc[v] /\ result'[v] = result[v] BY <1>2, <2>3
    <3>2. QED
      BY <1>1, <2>1, <3>1
      DEF Good, NothingYet, EndIsRecorded, ActionAlone, RequestsFollow, Reported, LeftOpen
  <2>4. QED BY <2>2, <2>3
<1>11. QED BY <1>7, <1>9, <1>10, Assemble

\* Core's own steps: a late request arrives, a lease runs out.
LEMMA CoreKeeps ==
  ASSUME IInv, ArrivesLate \/ \E w \in Workers : Abandon(w)
  PROVE  IInv'
<1> USE DEF IInv
<1>1. /\ UNCHANGED <<generation, pc, conversation, pending, active, terminalAction, sent, unsure,
                     result>>
      /\ late' \subseteq late
  BY DEF ArrivesLate, Abandon
<1>2. /\ interaction' \in [Workers -> Terminated \cup {"none", "active"}]
      /\ terminatedBy' \in [Workers -> Requests \cup {None}]
      /\ \A v \in Workers :
           \/ interaction'[v] = interaction[v] /\ terminatedBy'[v] = terminatedBy[v]
           \/ interaction[v] = "active" /\ interaction'[v] \in Terminated /\ EndIsRecorded(v)'
  <2>1. CASE ArrivesLate
    <3>1. PICK r \in late : Arrives(r.worker, r.action, r.key) BY <2>1 DEF ArrivesLate
    <3>2. r.worker \in Workers /\ r.action \in Actions /\ r.key \in {1, 2}
      BY BecomesFacts DEF TypeOK
    <3>3. CASE interaction[r.worker] = "active"
      <4>1. /\ interaction' = [interaction EXCEPT ![r.worker] = Becomes[r.action]]
            /\ terminatedBy' = [terminatedBy EXCEPT ![r.worker] = <<r.action, r.key>>]
        BY <3>1, <3>3 DEF Arrives
      <4>2. <<r.action, r.key>> \in Requests /\ Becomes[r.action] \in Terminated
        BY <3>2, BecomesFacts DEF Requests
      <4>3. QED BY <3>2, <3>3, <4>1, <4>2 DEF TypeOK, Shapes, EndIsRecorded
    <3>4. CASE interaction[r.worker] # "active"
      BY <3>1, <3>4 DEF Arrives, TypeOK, Shapes
    <3>5. QED BY <3>3, <3>4
  <2>2. CASE \E w \in Workers : Abandon(w)
    <3>1. PICK w \in Workers : Abandon(w) BY <2>2
    <3>2. /\ interaction[w] = "active" /\ terminatedBy' = terminatedBy
          /\ interaction' = [interaction EXCEPT ![w] = "abandoned"]
      BY <3>1 DEF Abandon
    <3>3. terminatedBy[w] = None
      <4>1. EndIsRecorded(w) BY DEF Good
      <4>2. terminatedBy[w] # None => terminatedBy[w][1] \in Actions
        BY DEF Shapes, Requests
      <4>3. QED BY <3>2, <4>1, <4>2, BecomesFacts DEF EndIsRecorded, Terminated
    <3>4. "abandoned" \in Terminated BY DEF Terminated
    <3>5. QED BY <3>2, <3>3, <3>4 DEF TypeOK, Shapes, EndIsRecorded
  <2>3. QED BY <2>1, <2>2
<1>3. StepTypes' /\ Shapes' BY <1>1, <1>2 DEF TypeOK, StepTypes, Shapes, Labels
<1>4. GenerationsCounted' /\ HeldIsActive' /\ OneCallPerConversation'
  BY <1>1 DEF GenerationsCounted, HeldIsActive, OneCallPerConversation, Inside, Resolved
<1>5. ASSUME NEW v \in Workers PROVE Good(v)'
  <2>1. Good(v) OBVIOUS
  <2>2. CASE interaction'[v] = interaction[v] /\ terminatedBy'[v] = terminatedBy[v]
    BY <1>1, <2>1, <2>2
    DEF Good, NothingYet, EndIsRecorded, ActionAlone, RequestsFollow, Reported, LeftOpen
  <2>3. CASE interaction[v] = "active" /\ interaction'[v] \in Terminated /\ EndIsRecorded(v)'
    <3>1. interaction'[v] # "active" /\ "active" \notin Terminated
      BY <2>3 DEF Terminated
    <3>2. Becomes[Terminal[v]] # "active"
      BY TerminalAssumption, BecomesFacts DEF TerminalActions
    <3>3. QED
      BY <1>1, <2>1, <2>3, <3>1, <3>2
      DEF Good, NothingYet, ActionAlone, RequestsFollow, Reported, LeftOpen
  <2>4. QED BY <1>2, <2>2, <2>3
<1>6. QED BY <1>3, <1>4, <1>5, Assemble

\* The guard is passed, and the interaction starts or does not.
LEMMA StartKeeps ==
  ASSUME IInv, NEW w \in Workers, Take(w) \/ StartAnswered(w) \/ StartFails(w)
  PROVE  IInv'
<1> USE DEF IInv
<1>1. /\ NothingYet(w) /\ pc[w] \in {"check", "start"} /\ pc[w] \in Early
      /\ interaction[w] = "none" /\ terminatedBy[w] = None
      /\ terminalAction[w] = "none" /\ sent[w] = {} /\ result[w] = "none"
  BY DEF Take, StartAnswered, StartFails, Good, NothingYet, Early
<1>2. CASE Take(w)
  <2>1. /\ pc' = [pc EXCEPT ![w] = "start"] /\ active' = active \cup {conversation[w]}
        /\ conversation[w] \notin active /\ pc[w] = "check"
        /\ UNCHANGED <<generation, interaction, terminatedBy, late, conversation, pending,
                       terminalAction, sent, unsure, result>>
    BY <1>2 DEF Take, Move, coreVars
  <2>2. pc' \in [Workers -> Labels] /\ pc'[w] = "start"
        /\ \A v \in Workers \ {w} : pc'[v] = pc[v]
    BY <2>1 DEF TypeOK, Labels
  <2>3. Inside' = Inside \cup {w} /\ Resolved' = Resolved
    BY <2>1, <2>2 DEF Inside, Resolved
  <2>4. GenerationsCounted' /\ HeldIsActive' /\ OneCallPerConversation'
    BY <2>1, <2>3 DEF GenerationsCounted, HeldIsActive, OneCallPerConversation
  <2>5. StepTypes' /\ Shapes' BY <2>1, <2>2 DEF TypeOK, StepTypes, Shapes
  <2>6. Good(w)'
    BY <1>1, <2>1, <2>2
    DEF Good, NothingYet, EndIsRecorded, ActionAlone, RequestsFollow, Reported, LeftOpen,
        Terminated
  <2>7. Touches(w) BY <2>1, <2>2 DEF Touches
  <2>8. QED BY <2>4, <2>5, <2>6, <2>7, TouchesKeeps, Assemble
<1>3. CASE StartAnswered(w)
  <2>1. /\ w \in Inside /\ pc' = [pc EXCEPT ![w] = "callback"]
        /\ interaction' = [interaction EXCEPT ![w] = "active"]
        /\ UNCHANGED <<generation, terminatedBy, late, conversation, pending, active,
                       terminalAction, sent, unsure, result>>
    BY <1>3 DEF StartAnswered, Move, Inside
  <2>2. /\ pc' \in [Workers -> Labels] /\ pc'[w] = "callback"
        /\ \A v \in Workers \ {w} : pc'[v] = pc[v]
        /\ GenerationsCounted' /\ HeldIsActive' /\ OneCallPerConversation'
    BY <2>1, InsideKeeps DEF InsideLabels
  <2>3. StepTypes' /\ Shapes' BY <2>1, <2>2 DEF TypeOK, StepTypes, Shapes
  <2>4. Good(w)'
    BY <1>1, <2>1, <2>2
    DEF Good, NothingYet, EndIsRecorded, ActionAlone, RequestsFollow, Reported, LeftOpen,
        Terminated, Early
  <2>5. Touches(w) BY <2>1, <2>2 DEF Touches, TypeOK
  <2>6. QED BY <2>2, <2>3, <2>4, <2>5, TouchesKeeps, Assemble
<1>4. CASE StartFails(w)
  <2>1. /\ w \in Inside /\ Leave(w, "start")
        /\ UNCHANGED <<generation, terminatedBy, late, conversation, pending, terminalAction,
                       sent>>
        /\ \/ UNCHANGED <<interaction, unsure>>
           \/ /\ interaction' = [interaction EXCEPT ![w] = "active"]
              /\ unsure' = [unsure EXCEPT ![w] = TRUE]
    BY <1>4 DEF StartFails, Inside
  <2>2. /\ pc' \in [Workers -> Labels] /\ pc'[w] = "done"
        /\ \A v \in Workers \ {w} : pc'[v] = pc[v] /\ result'[v] = result[v]
        /\ result'[w] = "start"
        /\ result' \in [Workers -> Terminated \cup Errors \cup {"none"}]
        /\ GenerationsCounted' /\ HeldIsActive' /\ OneCallPerConversation'
    BY <2>1, LeaveKeeps DEF Errors
  <2>3. StepTypes' /\ Shapes' BY <2>1, <2>2 DEF TypeOK, StepTypes, Shapes
  <2>4. Good(w)'
    BY <1>1, <2>1, <2>2
    DEF Good, NothingYet, EndIsRecorded, ActionAlone, RequestsFollow, Reported, LeftOpen,
        Terminated, Early, TypeOK
  <2>5. Touches(w) BY <2>1, <2>2 DEF Touches, TypeOK
  <2>6. QED BY <2>2, <2>3, <2>4, <2>5, TouchesKeeps, Assemble
<1>5. QED BY <1>2, <1>3, <1>4

\* scope.cancel and scope.handoff (terminalAction).
LEMMA TerminalKeeps ==
  ASSUME IInv, NEW w \in Workers, AskTerminal(w) \/ TerminalResolves(w) \/ TerminalRejects(w)
  PROVE  IInv'
<1> USE TerminalAssumption, BecomesFacts DEF IInv
<1>1. Good(w) /\ Terminal[w] \in TerminalActions OBVIOUS
<1>2. /\ UNCHANGED <<generation, pc, conversation, pending, active, result>>
      /\ GenerationsCounted' /\ HeldIsActive' /\ OneCallPerConversation'
  BY DEF AskTerminal, TerminalResolves, TerminalRejects, GenerationsCounted, HeldIsActive,
         OneCallPerConversation, Inside, Resolved, coreVars
<1>3. CASE AskTerminal(w)
  <2>1. /\ pc[w] = "callback" /\ terminalAction[w] = "none"
        /\ terminalAction' = [terminalAction EXCEPT ![w] = Terminal[w]]
        /\ sent' = [sent EXCEPT ![w] = @ \cup {<<Terminal[w], 1>>}]
        /\ UNCHANGED <<interaction, terminatedBy, late, unsure>>
    BY <1>3 DEF AskTerminal, Sends, coreVars
  <2>2. sent[w] = {} BY <1>1, <2>1 DEF Good, RequestsFollow
  <2>3. <<Terminal[w], 1>> \in Requests BY DEF Requests, Actions, TerminalActions
  <2>4. StepTypes' /\ Shapes'
    BY <1>1, <1>2, <2>1, <2>3 DEF TypeOK, StepTypes, Shapes, Labels
  <2>5. sent'[w] = {<<Terminal[w], 1>>} /\ terminalAction'[w] = Terminal[w]
    BY <2>1, <2>2 DEF TypeOK, Shapes
  <2>6. /\ Terminal[w] \notin {"none", "rejected"} /\ Becomes[Terminal[w]] # Terminal[w]
    BY <1>1 DEF TerminalActions
  <2>7. Good(w)'
    BY <1>1, <1>2, <2>1, <2>2, <2>5, <2>6
    DEF Good, NothingYet, EndIsRecorded, ActionAlone, RequestsFollow, Reported, LeftOpen, Early
  <2>8. Touches(w) BY <1>2, <2>1 DEF Touches, TypeOK, Shapes
  <2>9. QED BY <1>2, <2>4, <2>7, <2>8, TouchesKeeps, Assemble
<1>4. CASE TerminalResolves(w) \/ TerminalRejects(w)
  <2>1. /\ terminalAction[w] = Terminal[w] /\ sent[w] = {<<Terminal[w], 1>>}
        /\ pc[w] \in {"callback", "await", "done"}
        /\ Terminal[w] \in Actions /\ sent' = sent
    BY <1>1, <1>4
    DEF TerminalResolves, TerminalRejects, Good, ActionAlone, TerminalActions, Actions
  <2>2. CASE TerminalResolves(w)
    <3>1. /\ interaction' \in [Workers -> Terminated \cup {"none", "active"}]
          /\ terminatedBy' \in [Workers -> Requests \cup {None}]
          /\ \A v \in Workers \ {w} :
               interaction'[v] = interaction[v] /\ terminatedBy'[v] = terminatedBy[v]
          /\ interaction'[w] = Becomes[Terminal[w]]
          /\ interaction[w] \in {"active", Becomes[Terminal[w]]}
          /\ EndIsRecorded(w)'
          /\ UNCHANGED <<late, unsure>>
      BY <2>1, <2>2, AnsweredMeans DEF TerminalResolves
    <3>2. terminalAction' = [terminalAction EXCEPT ![w] = Becomes[Terminal[w]]]
      BY <2>1, <2>2 DEF TerminalResolves
    <3>3. /\ Becomes[Terminal[w]] \in {"canceled", "handed_off"}
          /\ Becomes[Terminal[w]] \in Terminated
      BY <1>1 DEF TerminalActions, Terminated
    <3>4. StepTypes' /\ Shapes'
      BY <1>2, <2>1, <3>1, <3>2, <3>3 DEF TypeOK, StepTypes, Shapes, Labels
    <3>5. terminalAction'[w] = Becomes[Terminal[w]] BY <3>2 DEF TypeOK
    <3>6. Good(w)'
      BY <1>1, <1>2, <2>1, <3>1, <3>3, <3>5
      DEF Good, NothingYet, EndIsRecorded, ActionAlone, RequestsFollow, Reported, LeftOpen,
          Early, Terminated
    <3>7. Touches(w) BY <1>2, <2>1, <3>1, <3>2 DEF Touches, TypeOK
    <3>8. QED BY <1>2, <3>4, <3>6, <3>7, TouchesKeeps, Assemble
  <2>3. CASE TerminalRejects(w)
    <3>1. /\ interaction' \in [Workers -> Terminated \cup {"none", "active"}]
          /\ terminatedBy' \in [Workers -> Requests \cup {None}]
          /\ late' \subseteq [worker : Workers, action : DOMAIN Becomes, key : {1, 2}]
          /\ unsure' \in [Workers -> BOOLEAN]
          /\ \A v \in Workers \ {w} :
               /\ interaction'[v] = interaction[v] /\ terminatedBy'[v] = terminatedBy[v]
               /\ unsure'[v] = unsure[v]
          /\ interaction'[w] = interaction[w] \/ interaction[w] = "active"
          /\ unsure'[w] \/ interaction'[w] # "active"
          /\ EndIsRecorded(w)'
      BY <2>1, <2>3, FailedMeans DEF TerminalRejects
    <3>2. terminalAction' = [terminalAction EXCEPT ![w] = "rejected"]
      BY <2>3 DEF TerminalRejects
    <3>3. StepTypes' /\ Shapes'
      BY <1>2, <2>1, <3>1, <3>2 DEF TypeOK, StepTypes, Shapes, Labels
    <3>4. terminalAction'[w] = "rejected" /\ Becomes[Terminal[w]] # "rejected"
      BY <1>1, <3>2 DEF TypeOK, TerminalActions
    <3>5. Good(w)'
      BY <1>1, <1>2, <2>1, <3>1, <3>4
      DEF Good, NothingYet, EndIsRecorded, ActionAlone, RequestsFollow, Reported, LeftOpen,
          Early, Terminated
    <3>6. Touches(w) BY <1>2, <2>1, <3>1, <3>2 DEF Touches, TypeOK
    <3>7. QED BY <1>2, <3>3, <3>5, <3>6, TouchesKeeps, Assemble
  <2>4. QED BY <1>4, <2>2, <2>3
<1>5. QED BY <1>3, <1>4

\* The callback ends, and with it a call whose terminal action is under way.
LEMMA CallbackKeeps ==
  ASSUME IInv, NEW w \in Workers, CallbackReturns(w) \/ CallbackThrows(w) \/ ReturnTerminal(w)
  PROVE  IInv'
<1> USE TerminalAssumption, BecomesFacts DEF IInv
<1>1. /\ Good(w) /\ w \in Inside /\ pc[w] \in {"callback", "await"}
      /\ UNCHANGED <<generation, interaction, terminatedBy, late, conversation, pending,
                     terminalAction, sent, unsure>>
  BY DEF CallbackReturns, CallbackThrows, ReturnTerminal, Inside, coreVars
<1>2. Becomes[Terminal[w]] \in {"canceled", "handed_off"} BY DEF TerminalActions
<1>3. CASE \E label \in {"complete", "await", "fail"} :
             /\ pc' = [pc EXCEPT ![w] = label] /\ UNCHANGED <<active, result>>
             /\ label = "await" <=> terminalAction[w] # "none"
             /\ pc[w] = "callback"
  <2>1. PICK label \in {"complete", "await", "fail"} :
             /\ pc' = [pc EXCEPT ![w] = label] /\ UNCHANGED <<active, result>>
             /\ label = "await" <=> terminalAction[w] # "none"
             /\ pc[w] = "callback"
    BY <1>3
  <2>2. /\ pc' \in [Workers -> Labels] /\ pc'[w] = label
        /\ \A v \in Workers \ {w} : pc'[v] = pc[v]
        /\ GenerationsCounted' /\ HeldIsActive' /\ OneCallPerConversation'
    BY <1>1, <2>1, InsideKeeps DEF InsideLabels
  <2>3. StepTypes' /\ Shapes' BY <1>1, <2>1, <2>2 DEF TypeOK, StepTypes, Shapes
  <2>4. Good(w)'
    BY <1>1, <2>1, <2>2
    DEF Good, NothingYet, EndIsRecorded, ActionAlone, RequestsFollow, Reported, LeftOpen, Early
  <2>5. Touches(w) BY <1>1, <2>1, <2>2 DEF Touches
  <2>6. QED BY <2>2, <2>3, <2>4, <2>5, TouchesKeeps, Assemble
<1>4. CASE terminalAction[w] # "none"
           /\ \E r \in {"callback", "terminal", "canceled", "handed_off"} :
                Leave(w, r) /\ (r \in Terminated => terminalAction[w] = r)
  <2>1. PICK r \in {"callback", "terminal", "canceled", "handed_off"} :
                Leave(w, r) /\ (r \in Terminated => terminalAction[w] = r)
    BY <1>4
  <2>2. /\ pc' \in [Workers -> Labels] /\ pc'[w] = "done"
        /\ \A v \in Workers \ {w} : pc'[v] = pc[v] /\ result'[v] = result[v]
        /\ result'[w] = r
        /\ result' \in [Workers -> Terminated \cup Errors \cup {"none"}]
        /\ GenerationsCounted' /\ HeldIsActive' /\ OneCallPerConversation'
    <3>1. r \in Terminated \cup Errors BY DEF Terminated, Errors
    <3>2. QED BY <1>1, <2>1, <3>1, LeaveKeeps
  <2>3. StepTypes' /\ Shapes' BY <1>1, <2>2 DEF TypeOK, StepTypes, Shapes
  <2>4. /\ sent[w] = {<<Terminal[w], 1>>}
        /\ terminalAction[w] \in {Terminal[w], Becomes[Terminal[w]], "rejected"}
        /\ terminalAction[w] = Becomes[Terminal[w]] => interaction[w] = terminalAction[w]
        /\ terminalAction[w] = "rejected" => unsure[w] \/ interaction[w] # "active"
    BY <1>1, <1>4 DEF Good, ActionAlone
  <2>5. ActionAlone(w)'
    BY <1>1, <1>4, <2>2, <2>4 DEF ActionAlone
  <2>6. LeftOpen(w)'
    BY <1>1, <1>2, <2>2, <2>4 DEF LeftOpen
  <2>7. Reported(w)'
    <3>1. r \in Terminated => terminalAction[w] = Becomes[Terminal[w]]
      BY <2>1, <2>4 DEF Terminated, TerminalActions
    <3>2. QED BY <1>1, <2>1, <2>2, <2>4, <3>1 DEF Reported
  <2>8. Good(w)'
    BY <1>1, <1>4, <2>2, <2>5, <2>6, <2>7
    DEF Good, NothingYet, EndIsRecorded, RequestsFollow, Early
  <2>9. Touches(w) BY <1>1, <2>2 DEF Touches
  <2>10. QED BY <2>2, <2>3, <2>8, <2>9, TouchesKeeps, Assemble
<1>5. CASE CallbackReturns(w) BY <1>3, <1>5 DEF CallbackReturns, Move
<1>6. CASE CallbackThrows(w) BY <1>3, <1>4, <1>6 DEF CallbackThrows, Move, Terminated
<1>7. CASE ReturnTerminal(w)
  <2>1. pc[w] = "await" /\ terminalAction[w] \in Terminated \cup {"rejected"}
    BY <1>7 DEF ReturnTerminal
  <2>2. terminalAction[w] \in {"canceled", "handed_off", "rejected"}
    BY <2>1 DEF TypeOK, TerminalActions, Terminated
  <2>3. Leave(w, IF terminalAction[w] = "rejected" THEN "terminal" ELSE terminalAction[w])
    BY <1>7 DEF ReturnTerminal
  <2>4. QED BY <1>4, <2>2, <2>3 DEF Terminated
<1>8. QED BY <1>5, <1>6, <1>7

\* The interaction is failed or completed; a completion that was lost is looked
\* into and sent once more (failInteraction, completeInteraction).
LEMMA EndingKeeps ==
  ASSUME IInv, NEW w \in Workers,
         Fail(w) \/ CompleteAnswered(w) \/ CompleteFails(w) \/ CompleteAgain(w)
  PROVE  IInv'
<1> USE BecomesFacts DEF IInv
<1> DEFINE action == IF pc[w] = "fail" THEN "fail" ELSE "complete"
<1>1. /\ Good(w) /\ w \in Inside /\ pc[w] \in {"fail", "complete", "again"}
      /\ action \in Actions /\ <<action, 1>> \in Requests
      /\ UNCHANGED <<generation, conversation, pending, terminalAction>>
  BY DEF Fail, CompleteAnswered, CompleteFails, CompleteAgain, Inside, Actions, Requests
<1>2. terminalAction[w] = "none" BY <1>1 DEF Good, ActionAlone
<1>3. sent' = [sent EXCEPT ![w] = @ \cup {<<action, 1>>}]
  BY DEF Fail, CompleteAnswered, CompleteFails, CompleteAgain, Sends, RetryKey
<1>4. sent'[w] = {<<action, 1>>} /\ sent' \in [Workers -> SUBSET Requests]
      /\ \A v \in Workers \ {w} : sent'[v] = sent[v]
  <2>1. sent[w] \in {{}, {<<action, 1>>}} BY <1>1, <1>2 DEF Good, RequestsFollow
  <2>2. QED BY <1>1, <1>3, <2>1 DEF Shapes
<1>5. Answered(w, action, 1) \/ Failed(w, action, 1)
  BY DEF Fail, CompleteAnswered, CompleteFails, CompleteAgain, RetryKey
<1>6. /\ interaction' \in [Workers -> Terminated \cup {"none", "active"}]
      /\ terminatedBy' \in [Workers -> Requests \cup {None}]
      /\ late' \subseteq [worker : Workers, action : DOMAIN Becomes, key : {1, 2}]
      /\ unsure' \in [Workers -> BOOLEAN]
      /\ \A v \in Workers \ {w} :
           /\ interaction'[v] = interaction[v] /\ terminatedBy'[v] = terminatedBy[v]
           /\ unsure'[v] = unsure[v]
      /\ unsure'[w] \/ interaction'[w] # "active"
      /\ EndIsRecorded(w)'
  <2>1. CASE Answered(w, action, 1)
    <3>1. Becomes[action] # "active" BY <1>1
    <3>2. QED BY <1>1, <2>1, <3>1, AnsweredMeans DEF TypeOK
  <2>2. CASE Failed(w, action, 1) BY <1>1, <2>2, FailedMeans
  <2>3. QED BY <1>5, <2>1, <2>2
<1>7. CASE CompleteFails(w)
  <2>1. pc' = [pc EXCEPT ![w] = "recover"] /\ UNCHANGED <<active, result>>
        /\ pc[w] = "complete" /\ action = "complete"
    BY <1>7 DEF CompleteFails, Move
  <2>2. /\ pc' \in [Workers -> Labels] /\ pc'[w] = "recover"
        /\ \A v \in Workers \ {w} : pc'[v] = pc[v]
        /\ GenerationsCounted' /\ HeldIsActive' /\ OneCallPerConversation'
    BY <1>1, <2>1, InsideKeeps DEF InsideLabels
  <2>3. StepTypes' /\ Shapes' BY <1>1, <1>4, <1>6, <2>1, <2>2 DEF TypeOK, StepTypes, Shapes
  <2>4. Reported(w)'
    <3>1. Failed(w, "complete", 1) BY <1>7 DEF CompleteFails
    <3>2. interaction'[w] = interaction[w] \/ interaction[w] = "active"
      BY <3>1, FailedMeans DEF Actions
    <3>3. Reported(w) /\ "active" \notin Terminated BY <1>1 DEF Good, Terminated
    <3>4. \A request \in sent[w] : request \in sent'[w] BY <1>3, <1>4 DEF Shapes
    <3>5. QED BY <2>1, <3>2, <3>3, <3>4 DEF Reported
  <2>5. Good(w)'
    BY <1>1, <1>2, <1>4, <1>6, <2>1, <2>2, <2>4
    DEF Good, NothingYet, ActionAlone, RequestsFollow, LeftOpen, Early
  <2>6. Touches(w) BY <1>1, <1>4, <1>6, <2>1, <2>2 DEF Touches
  <2>7. QED BY <2>2, <2>3, <2>5, <2>6, TouchesKeeps, Assemble
<1>8. CASE ~CompleteFails(w)
  <2>1. PICK r \in {"callback", "completed", "complete"} :
          /\ Leave(w, r)
          /\ r = "completed" => Answered(w, "complete", 1) /\ action = "complete"
    BY <1>8 DEF Fail, CompleteAnswered, CompleteAgain, RetryKey
  <2>2. /\ pc' \in [Workers -> Labels] /\ pc'[w] = "done"
        /\ \A v \in Workers \ {w} : pc'[v] = pc[v] /\ result'[v] = result[v]
        /\ result'[w] = r
        /\ result' \in [Workers -> Terminated \cup Errors \cup {"none"}]
        /\ GenerationsCounted' /\ HeldIsActive' /\ OneCallPerConversation'
    <3>1. r \in Terminated \cup Errors BY DEF Terminated, Errors
    <3>2. QED BY <1>1, <2>1, <3>1, LeaveKeeps
  <2>3. StepTypes' /\ Shapes' BY <1>1, <1>4, <1>6, <2>2 DEF TypeOK, StepTypes, Shapes
  <2>4. Reported(w)'
    <3>1. r # "completed" => r \notin Terminated BY DEF Terminated
    <3>2. r = "completed" => interaction'[w] = "completed"
      BY <2>1, AnsweredMeans DEF Actions
    <3>3. r = "completed" => <<"complete", 1>> \in sent'[w] BY <1>4, <2>1
    <3>4. <<"complete", 1>>[1] = "complete" OBVIOUS
    <3>5. QED BY <2>2, <3>1, <3>2, <3>3, <3>4 DEF Reported
  <2>5. Good(w)'
    BY <1>1, <1>2, <1>4, <1>6, <2>2, <2>4
    DEF Good, NothingYet, ActionAlone, RequestsFollow, LeftOpen, Early
  <2>6. Touches(w) BY <1>1, <1>4, <1>6, <2>2 DEF Touches
  <2>7. QED BY <2>2, <2>3, <2>5, <2>6, TouchesKeeps, Assemble
<1>9. QED BY <1>7, <1>8

\* What Core holds decides for a completion that was lost (getInteraction).
LEMMA RecoverKeeps == ASSUME IInv, NEW w \in Workers, Recover(w) PROVE IInv'
<1> USE BecomesFacts DEF IInv
<1>1. /\ Good(w) /\ w \in Inside /\ pc[w] = "recover"
      /\ UNCHANGED <<generation, interaction, terminatedBy, late, conversation, pending,
                     terminalAction, sent, unsure>>
  BY DEF Recover, Inside, coreVars
<1>2. /\ terminalAction[w] = "none" /\ sent[w] = {<<"complete", 1>>}
      /\ unsure[w] \/ interaction[w] # "active"
  BY <1>1 DEF Good, ActionAlone, RequestsFollow
<1>3. CASE pc' = [pc EXCEPT ![w] = "again"] /\ UNCHANGED <<active, result>>
  <2>1. /\ pc' \in [Workers -> Labels] /\ pc'[w] = "again"
        /\ \A v \in Workers \ {w} : pc'[v] = pc[v]
        /\ GenerationsCounted' /\ HeldIsActive' /\ OneCallPerConversation'
    BY <1>1, <1>3, InsideKeeps DEF InsideLabels
  <2>2. StepTypes' /\ Shapes' BY <1>1, <1>3, <2>1 DEF TypeOK, StepTypes, Shapes
  <2>3. Good(w)'
    BY <1>1, <1>2, <1>3, <2>1
    DEF Good, NothingYet, EndIsRecorded, ActionAlone, RequestsFollow, Reported, LeftOpen, Early
  <2>4. Touches(w) BY <1>1, <1>3, <2>1 DEF Touches
  <2>5. QED BY <2>1, <2>2, <2>3, <2>4, TouchesKeeps, Assemble
<1>4. CASE \E r \in {"completed", "conflict", "complete"} :
             Leave(w, r) /\ (r = "completed" => interaction[w] = "completed")
  <2>1. PICK r \in {"completed", "conflict", "complete"} :
             Leave(w, r) /\ (r = "completed" => interaction[w] = "completed")
    BY <1>4
  <2>2. /\ pc' \in [Workers -> Labels] /\ pc'[w] = "done"
        /\ \A v \in Workers \ {w} : pc'[v] = pc[v] /\ result'[v] = result[v]
        /\ result'[w] = r
        /\ result' \in [Workers -> Terminated \cup Errors \cup {"none"}]
        /\ GenerationsCounted' /\ HeldIsActive' /\ OneCallPerConversation'
    <3>1. r \in Terminated \cup Errors BY DEF Terminated, Errors
    <3>2. QED BY <1>1, <2>1, <3>1, LeaveKeeps
  <2>3. StepTypes' /\ Shapes' BY <1>1, <2>2 DEF TypeOK, StepTypes, Shapes
  <2>4. Reported(w)'
    <3>1. r # "completed" => r \notin Terminated BY DEF Terminated
    <3>2. <<"complete", 1>> \in sent'[w] /\ <<"complete", 1>>[1] = "complete" BY <1>1, <1>2
    <3>3. QED BY <1>1, <2>1, <2>2, <3>1, <3>2 DEF Reported
  <2>5. Good(w)'
    BY <1>1, <1>2, <2>2, <2>4
    DEF Good, NothingYet, EndIsRecorded, ActionAlone, RequestsFollow, LeftOpen, Early
  <2>6. Touches(w) BY <1>1, <2>2 DEF Touches
  <2>7. QED BY <2>2, <2>3, <2>5, <2>6, TouchesKeeps, Assemble
<1>5. QED BY <1>3, <1>4 DEF Recover, TakenAsCompleted, Move

\* Nothing is asked for before the first step.
LEMMA InitIInv == ASSUME Init PROVE IInv
<1>1. Inside = {} /\ Resolved = {} BY DEF Init, Inside, Resolved
<1>2. Cardinality(Workers) \in Nat /\ Cardinality(Resolved) = 0
  BY <1>1, WorkersAssumption, FS_CardinalityType, FS_EmptySet
<1>3. Shapes BY DEF Init, Shapes, Conversations
<1>4. TypeOK
  <2>1. generation \in 0 .. Cardinality(Workers) BY <1>2 DEF Init
  <2>2. \A w \in Workers : terminatedBy[w] \in ((DOMAIN Becomes) \X {1, 2}) \cup {None}
    BY DEF Init
  <2>3. QED BY <2>1, <2>2 DEF Init, TypeOK
<1>5. GenerationsCounted /\ HeldIsActive /\ OneCallPerConversation
  BY <1>1, <1>2 DEF Init, GenerationsCounted, HeldIsActive, OneCallPerConversation
<1>6. ASSUME NEW w \in Workers PROVE Good(w)
  BY
  DEF Init, Good, NothingYet, EndIsRecorded, ActionAlone, RequestsFollow, Reported, LeftOpen,
      Terminated
<1>7. QED BY <1>3, <1>4, <1>5, <1>6 DEF IInv

\* Every step keeps the invariant.
LEMMA NextIInv == ASSUME IInv, [Next]_vars PROVE IInv'
<1>1. CASE Next
  <2>1. ASSUME NEW w \in Workers, Step(w) \/ AskTerminal(w) PROVE IInv'
    BY <2>1, ResolvingKeeps, StartKeeps, TerminalKeeps, CallbackKeeps, EndingKeeps, RecoverKeeps
    DEF Step
  <2>2. QED BY <1>1, <2>1, EnsuredKeeps, CoreKeeps DEF Next
<1>2. CASE UNCHANGED vars
  <2>1. TypeOK' /\ Shapes' BY <1>2 DEF IInv, vars, TypeOK, Shapes
  <2>2. GenerationsCounted' /\ HeldIsActive' /\ OneCallPerConversation'
    BY <1>2
    DEF IInv, vars, GenerationsCounted, HeldIsActive, OneCallPerConversation, Inside, Resolved
  <2>3. ASSUME NEW w \in Workers PROVE Good(w)'
    BY <1>2
    DEF IInv, vars, Good, NothingYet, EndIsRecorded, ActionAlone, RequestsFollow, Reported,
        LeftOpen
  <2>4. QED BY <2>1, <2>2, <2>3 DEF IInv
<1>3. QED BY <1>1, <1>2

\* The inductive invariant holds throughout.
THEOREM Invariance == Spec => []IInv
<1>1. Init => IInv BY InitIInv
<1>2. IInv /\ [Next]_vars => IInv' BY NextIInv
<1>3. QED BY <1>1, <1>2, PTL DEF Spec

\* No more generations than calls, and nothing is held that nobody resolved.
THEOREM TypeCorrect == Spec => []TypeOK
<1>1. IInv => TypeOK BY DEF IInv
<1>2. QED BY <1>1, Invariance, PTL

\* Two calls never work in the same conversation (activeConversationIds).
THEOREM OneCall == Spec => []OneCallPerConversation
<1>1. IInv => OneCallPerConversation BY DEF IInv
<1>2. QED BY <1>1, Invariance, PTL

\* A returned interaction is as Core holds it, and as the callback asked for
\* (completeInteraction and its recovery).
THEOREM ReportsRecord == Spec => []ReportedIsRecorded
<1>1. IInv => ReportedIsRecorded BY DEF IInv, Good, Reported, ReportedIsRecorded
<1>2. QED BY <1>1, Invariance, PTL

\* All terminal requests of an interaction are one request
\* (terminal_idempotency_key).
THEOREM OneIntent == Spec => []OneTerminalIntent
<1>1. IInv => OneTerminalIntent
  <2> SUFFICES ASSUME IInv, NEW w \in Workers PROVE Cardinality(sent[w]) <= 1
    BY DEF OneTerminalIntent
  <2>1. sent[w] = {} \/ \E r \in Requests : sent[w] = {r}
    <3>1. Good(w) /\ pc[w] \in Labels BY DEF IInv, TypeOK, Labels
    <3>2. <<"complete", 1>> \in Requests /\ <<"fail", 1>> \in Requests
          /\ <<Terminal[w], 1>> \in Requests
      BY TerminalAssumption DEF Requests, Actions, TerminalActions
    <3>3. QED
      BY <3>1, <3>2 DEF Good, NothingYet, ActionAlone, RequestsFollow, Labels, Early
  <2>2. CASE sent[w] = {} BY <2>2, FS_EmptySet
  <2>3. CASE \E r \in Requests : sent[w] = {r}
    <3>1. PICK r \in Requests : sent[w] = {r} BY <2>3
    <3>2. Cardinality({r}) = 1 BY FS_Singleton
    <3>3. QED BY <3>1, <3>2
  <2>4. QED BY <2>1, <2>2, <2>3
<1>2. QED BY <1>1, Invariance, PTL

\* A call that is over has left no interaction active without a failed request
\* to blame (withInteraction).
THEOREM EndsItsInteraction == Spec => []NothingLeftOpen
<1>1. IInv => NothingLeftOpen BY DEF IInv, Good, LeftOpen, NothingLeftOpen
<1>2. QED BY <1>1, Invariance, PTL

--------------------------------------------------------------------------------
\* What is left of a call, which is what CallsEnd rests on.

InOrder == [resolve |-> 9, ensuring |-> 8, check |-> 7, start |-> 6, callback |-> 5, await |-> 4,
            fail |-> 4, complete |-> 4, recover |-> 3, again |-> 2, done |-> 0]

\* Asking for the terminal action, while the callback still can, and its answer.
ActionLeft(w) ==
  IF terminalAction[w] \in TerminalActions THEN 1
  ELSE IF terminalAction[w] = "none" /\ InOrder[pc[w]] >= 5 THEN 2 ELSE 0

\* The most steps a call can still make, those of its terminal action included.
StepsLeft(w) == InOrder[pc[w]] + ActionLeft(w)

\* Nobody awaits what is not under way: a call that joined the resolution of the
\* conversation has a request to wait for (pendingConversations), and one that
\* returns its terminal action has started it.
NobodyWaitsInVain ==
  \A w \in Workers :
    /\ pc[w] = "ensuring" => pending
    /\ pc[w] = "await" => terminalAction[w] # "none"
    /\ StepsLeft(w) \in 0 .. 11
    /\ StepsLeft(w) = 0 <=> pc[w] = "done" /\ terminalAction[w] \notin TerminalActions

\* A step of a call leaves less of it, an answer to the shared request less of
\* everybody it lets go on, and nothing that others do leaves more.
Dwindle ==
  [][/\ \A w \in Workers : StepsLeft(w)' <= StepsLeft(w)
     /\ \A w \in Workers : Step(w) \/ AskTerminal(w) => StepsLeft(w)' < StepsLeft(w)
     /\ EnsureResolves \/ EnsureRejects =>
          \A w \in Ensuring : StepsLeft(w)' < StepsLeft(w)]_vars

\* The order of the steps, in numbers.
LEMMA OrderFacts ==
  /\ InOrder["resolve"] = 9 /\ InOrder["ensuring"] = 8 /\ InOrder["check"] = 7
  /\ InOrder["start"] = 6 /\ InOrder["callback"] = 5 /\ InOrder["await"] = 4
  /\ InOrder["fail"] = 4 /\ InOrder["complete"] = 4 /\ InOrder["recover"] = 3
  /\ InOrder["again"] = 2 /\ InOrder["done"] = 0
  BY DEF InOrder

\* What a step of a call does to its place and to its terminal action: the call
\* goes on, or the action is asked for or settles.
GoesOn(w) ==
  /\ terminalAction' = terminalAction
  /\ \E label \in Labels :
       pc' = [pc EXCEPT ![w] = label] /\ InOrder[label] < InOrder[pc[w]]

Settles(w) ==
  /\ pc' = pc
  /\ \/ /\ pc[w] = "callback" /\ terminalAction[w] = "none"
        /\ terminalAction' = [terminalAction EXCEPT ![w] = Terminal[w]]
     \/ /\ terminalAction[w] \in TerminalActions
        /\ \E end \in {"canceled", "handed_off", "rejected"} :
             terminalAction' = [terminalAction EXCEPT ![w] = end]

\* Every step of a call is one of these.
LEMMA StepsGoOn ==
  ASSUME IInv, NEW w \in Workers, Step(w) \/ AskTerminal(w)
  PROVE  GoesOn(w) \/ Settles(w)
<1> USE OrderFacts DEF Labels
<1>1. pc[w] \in Labels BY DEF IInv, TypeOK
<1>2. CASE EnsureCurrent(w) BY <1>2 DEF EnsureCurrent, GoesOn, Move
<1>3. CASE ResolveDirectly(w) BY <1>3 DEF ResolveDirectly, GoesOn, Move
<1>4. CASE ResolveFails(w) BY <1>4 DEF ResolveFails, GoesOn, Move, End
<1>5. CASE RefuseSecond(w) \/ Take(w)
  BY <1>5 DEF RefuseSecond, Take, GoesOn, Move, End
<1>6. CASE StartAnswered(w) \/ StartFails(w)
  BY <1>6 DEF StartAnswered, StartFails, GoesOn, Leave, Move, End
<1>7. CASE AskTerminal(w) BY <1>7 DEF AskTerminal, Settles
<1>8. CASE TerminalResolves(w)
  <2>1. Becomes[terminalAction[w]] \in {"canceled", "handed_off"}
    BY <1>8, BecomesFacts DEF TerminalResolves, TerminalActions
  <2>2. QED BY <1>8, <2>1 DEF TerminalResolves, Settles
<1>9. CASE TerminalRejects(w) BY <1>9 DEF TerminalRejects, Settles
<1>10. CASE CallbackReturns(w) \/ CallbackThrows(w)
  BY <1>10 DEF CallbackReturns, CallbackThrows, GoesOn, Leave, Move, End
<1>11. CASE ReturnTerminal(w) \/ Fail(w)
  BY <1>11 DEF ReturnTerminal, Fail, GoesOn, Leave, Move, End
<1>12. CASE CompleteAnswered(w) \/ CompleteFails(w)
  BY <1>12 DEF CompleteAnswered, CompleteFails, GoesOn, Leave, Move, End
<1>13. CASE Recover(w) BY <1>13 DEF Recover, GoesOn, Leave, Move, End
<1>14. CASE CompleteAgain(w) BY <1>14 DEF CompleteAgain, GoesOn, Leave, Move, End
<1>15. QED
  BY <1>2, <1>3, <1>4, <1>5, <1>6, <1>7, <1>8, <1>9, <1>10, <1>11, <1>12, <1>13, <1>14 DEF Step

\* Of a call that goes on less is left, and of the others as much as before.
LEMMA StepDwindles ==
  ASSUME IInv, NEW w \in Workers, GoesOn(w) \/ Settles(w)
  PROVE  /\ StepsLeft(w)' < StepsLeft(w)
         /\ \A v \in Workers \ {w} : StepsLeft(v)' = StepsLeft(v)
<1>1. /\ pc[w] \in Labels /\ pc \in [Workers -> Labels] /\ Terminal[w] \in TerminalActions
      /\ terminalAction \in
           [Workers -> TerminalActions \cup {"none", "canceled", "handed_off", "rejected"}]
  BY TerminalAssumption DEF IInv, TypeOK, Labels
<1>2. \A label \in Labels : InOrder[label] \in 0 .. 9 BY OrderFacts DEF Labels
<1>3. CASE GoesOn(w)
  <2>1. PICK label \in Labels :
             pc' = [pc EXCEPT ![w] = label] /\ InOrder[label] < InOrder[pc[w]]
    BY <1>3 DEF GoesOn
  <2>2. pc'[w] = label /\ terminalAction' = terminalAction BY <1>1, <1>3, <2>1 DEF GoesOn
  <2>3. ActionLeft(w)' <= ActionLeft(w) /\ ActionLeft(w)' \in Nat /\ ActionLeft(w) \in Nat
    BY <1>1, <1>2, <2>1, <2>2 DEF ActionLeft
  <2>4. StepsLeft(w)' < StepsLeft(w) BY <1>1, <1>2, <2>1, <2>2, <2>3 DEF StepsLeft
  <2>5. \A v \in Workers \ {w} : StepsLeft(v)' = StepsLeft(v)
    BY <1>1, <2>1, <2>2 DEF StepsLeft, ActionLeft
  <2>6. QED BY <2>4, <2>5
<1>4. CASE Settles(w)
  <2>1. pc' = pc BY <1>4 DEF Settles
  <2>2. ActionLeft(w)' < ActionLeft(w) /\ ActionLeft(w)' \in Nat /\ ActionLeft(w) \in Nat
    BY <1>1, <1>4, OrderFacts DEF Settles, ActionLeft, TerminalActions
  <2>3. StepsLeft(w)' < StepsLeft(w) BY <1>1, <1>2, <2>1, <2>2 DEF StepsLeft
  <2>4. \A v \in Workers \ {w} : StepsLeft(v)' = StepsLeft(v)
    BY <1>1, <1>4, <2>1 DEF Settles, StepsLeft, ActionLeft
  <2>5. QED BY <2>3, <2>4
<1>5. QED BY <1>3, <1>4

\* The request for the current conversation settles for all who await it.
LEMMA EnsureDwindles ==
  ASSUME IInv, EnsureResolves \/ EnsureRejects
  PROVE  /\ \A w \in Ensuring : StepsLeft(w)' < StepsLeft(w)
         /\ \A w \in Workers \ Ensuring : StepsLeft(w)' = StepsLeft(w)
         /\ \A w \in Workers : pc'[w] # "ensuring" /\ (pc'[w] = pc[w] \/ pc'[w] # "await")
<1>1. /\ terminalAction' = terminalAction
      /\ \E label \in {"check", "done"} :
           pc' = [w \in Workers |-> IF w \in Ensuring THEN label ELSE pc[w]]
  BY DEF EnsureResolves, EnsureRejects
<1>2. PICK label \in {"check", "done"} :
           pc' = [w \in Workers |-> IF w \in Ensuring THEN label ELSE pc[w]]
  BY <1>1
<1>3. ASSUME NEW w \in Ensuring PROVE StepsLeft(w)' < StepsLeft(w) /\ pc'[w] = label
  <2>1. w \in Workers /\ pc[w] = "ensuring" /\ pc'[w] = label BY <1>2 DEF Ensuring
  <2>2. QED BY <1>1, <2>1, OrderFacts DEF StepsLeft, ActionLeft
<1>4. ASSUME NEW w \in Workers \ Ensuring
      PROVE  StepsLeft(w)' = StepsLeft(w) /\ pc'[w] = pc[w] /\ pc[w] # "ensuring"
  <2>1. pc'[w] = pc[w] /\ pc[w] # "ensuring" BY <1>2 DEF Ensuring
  <2>2. QED BY <1>1, <2>1 DEF StepsLeft, ActionLeft
<1>5. QED BY <1>3, <1>4

\* What others do, which is Core's, moves nobody.
LEMMA CoreStands ==
  ASSUME ArrivesLate \/ (\E w \in Workers : Abandon(w)) \/ UNCHANGED vars
  PROVE  UNCHANGED <<pc, terminalAction, pending>>
  BY DEF ArrivesLate, Abandon, vars

\* A step leaves whoever waits something to wait for.
LEMMA WaitsKeep ==
  ASSUME IInv, IInv', [Next]_vars, \A w \in Workers : pc[w] = "ensuring" => pending
  PROVE  \A w \in Workers : pc'[w] = "ensuring" => pending'
<1>1. CASE EnsureResolves \/ EnsureRejects BY <1>1, EnsureDwindles
<1>2. CASE ArrivesLate \/ (\E w \in Workers : Abandon(w)) \/ UNCHANGED vars
  BY <1>2, CoreStands
<1>3. ASSUME NEW w \in Workers, Step(w) \/ AskTerminal(w)
      PROVE  \A v \in Workers : pc'[v] = "ensuring" => pending'
  <2>1. CASE EnsureCurrent(w) BY <2>1 DEF EnsureCurrent
  <2>2. CASE ~EnsureCurrent(w)
    <3>1. pending' = pending
      BY <1>3, <2>2
      DEF Step, AskTerminal, ResolveDirectly, ResolveFails, RefuseSecond, Take, StartAnswered,
          StartFails, TerminalResolves, TerminalRejects, CallbackReturns, CallbackThrows,
          ReturnTerminal, Fail, CompleteAnswered, CompleteFails, Recover, CompleteAgain
    <3>2. pc \in [Workers -> Labels] BY DEF IInv, TypeOK, Labels
    <3>3. pc'[w] # "ensuring" \/ pc'[w] = pc[w]
      BY <1>3, <2>2, <3>2
      DEF Step, AskTerminal, ResolveDirectly, ResolveFails, RefuseSecond, Take, StartAnswered,
          StartFails, TerminalResolves, TerminalRejects, CallbackReturns, CallbackThrows,
          ReturnTerminal, Fail, CompleteAnswered, CompleteFails, Recover, CompleteAgain, Leave,
          End, Move
    <3>4. \A v \in Workers \ {w} : pc'[v] = pc[v]
      BY <1>3, <3>2, StepsGoOn DEF GoesOn, Settles
    <3>5. QED BY <3>1, <3>3, <3>4
  <2>3. QED BY <2>1, <2>2
<1>4. QED BY <1>1, <1>2, <1>3 DEF Next

\* Whoever waits, waits for something that is under way and settles (ensureCurrent,
\* cancel and handoff), and a call makes eleven steps at most.
THEOREM WaitsAreAnswered == Spec => []NobodyWaitsInVain
<1> DEFINE Asked == \A w \in Workers : pc[w] = "ensuring" => pending
<1>1. Init => Asked BY DEF Init
<1>2. IInv /\ IInv' /\ Asked /\ [Next]_vars => Asked' BY WaitsKeep
<1>3. IInv /\ Asked => NobodyWaitsInVain
  <2> SUFFICES ASSUME IInv, Asked, NEW w \in Workers
               PROVE  /\ pc[w] = "await" => terminalAction[w] # "none"
                      /\ StepsLeft(w) \in 0 .. 11
                      /\ StepsLeft(w) = 0 <=>
                           pc[w] = "done" /\ terminalAction[w] \notin TerminalActions
    BY DEF NobodyWaitsInVain
  <2>1. pc[w] = "await" => terminalAction[w] # "none" BY DEF IInv, Good, RequestsFollow
  <2>2. pc[w] \in Labels BY DEF IInv, TypeOK, Labels
  <2>3. InOrder[pc[w]] \in 0 .. 9 /\ (InOrder[pc[w]] = 0 <=> pc[w] = "done")
    BY <2>2, OrderFacts DEF Labels
  <2>4. ActionLeft(w) \in 0 .. 2 BY DEF ActionLeft
  <2>5. QED BY <2>1, <2>3, <2>4 DEF StepsLeft, ActionLeft
<1>4. QED BY <1>1, <1>2, <1>3, Invariance, PTL DEF Spec

\* Every step of a call brings it nearer to its end, and nothing takes it further
\* from it: no recovery and no refusal starts anything over (withInteraction).
THEOREM StepsDwindle == Spec => Dwindle
<1> DEFINE Less ==
      /\ \A w \in Workers : StepsLeft(w)' <= StepsLeft(w)
      /\ \A w \in Workers : Step(w) \/ AskTerminal(w) => StepsLeft(w)' < StepsLeft(w)
      /\ EnsureResolves \/ EnsureRejects =>
           \A w \in Ensuring : StepsLeft(w)' < StepsLeft(w)
<1>1. IInv /\ NobodyWaitsInVain /\ NobodyWaitsInVain' /\ [Next]_vars => [Less]_vars
  <2> SUFFICES ASSUME IInv, NobodyWaitsInVain, NobodyWaitsInVain', Next PROVE Less
    OBVIOUS
  <2>1. \A w \in Workers : Step(w) \/ AskTerminal(w) =>
          /\ StepsLeft(w)' < StepsLeft(w)
          /\ \A v \in Workers \ {w} : StepsLeft(v)' = StepsLeft(v)
    BY StepsGoOn, StepDwindles
  <2>2. EnsureResolves \/ EnsureRejects =>
          /\ \A w \in Ensuring : StepsLeft(w)' < StepsLeft(w)
          /\ \A w \in Workers \ Ensuring : StepsLeft(w)' = StepsLeft(w)
    BY EnsureDwindles
  <2>3. \A w \in Workers : StepsLeft(w) \in 0 .. 11 /\ StepsLeft(w)' \in 0 .. 11
    BY DEF NobodyWaitsInVain
  <2>4. ASSUME NEW w \in Workers PROVE StepsLeft(w)' <= StepsLeft(w)
    <3>1. CASE \E v \in Workers : Step(v) \/ AskTerminal(v)
      <4>1. StepsLeft(w)' < StepsLeft(w) \/ StepsLeft(w)' = StepsLeft(w) BY <2>1, <3>1
      <4>2. QED BY <2>3, <4>1
    <3>2. CASE EnsureResolves \/ EnsureRejects
      <4>1. StepsLeft(w)' < StepsLeft(w) \/ StepsLeft(w)' = StepsLeft(w) BY <2>2, <3>2
      <4>2. QED BY <2>3, <4>1
    <3>3. CASE ArrivesLate \/ \E v \in Workers : Abandon(v)
      <4>1. StepsLeft(w)' = StepsLeft(w) BY <3>3, CoreStands DEF StepsLeft, ActionLeft
      <4>2. QED BY <2>3, <4>1
    <3>4. QED BY <3>1, <3>2, <3>3 DEF Next
  <2>5. QED BY <2>1, <2>2, <2>4
<1>2. QED BY <1>1, Invariance, WaitsAreAnswered, PTL DEF Spec, Dwindle
=============================================================================
