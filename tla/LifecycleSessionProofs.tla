------------------------- MODULE LifecycleSessionProofs -------------------------
(***************************************************************************)
(* Proofs about LifecycleSession for every finite set of calls, any of     *)
(* which may require a receipt, and all the ways to name a conversation.   *)
(***************************************************************************)
EXTENDS LifecycleSession, FiniteSetTheorems, TLAPS

Labels == {"require", "requiring", "ask", "asking", "open", "opening", "send", "done"}
Live == {"joining", "minting", "open"}

\* The window of a failed probe and a settled contract exclude each other, and
\* whoever requires a receipt and got past its probe has a settled contract.
ProbeIsSettled ==
  /\ window => contract = "none"
  /\ \A c \in Requires :
       pc[c] \in {"ask", "asking", "open", "opening", "send"} =>
         contract = deploy /\ (bare[c] => deploy = "unsupported")

\* A conversation that the caller owns is left to the caller: nobody opens.
OwnedIsLeft ==
  asks = "owned" => \A c \in Calls : pc[c] \notin {"open", "opening"} /\ session[c] = 0

\* A conversation the caller named is the only one joined.
NamedIsJoined ==
  asks = "named" => \A o \in Openings : opening[o] # "minting" /\ conversation[o] = 0

\* The release comes after the calls.
ReleasedLast == released # "no" => \A c \in Calls : pc[c] = "done"

\* Before anybody's session was stale, the live opening is the cached one, or
\* the one that is released.
OneLive ==
  (\A c \in Calls : ~reopened[c]) =>
    \A o \in Openings :
      opening[o] \in Live => o = IF released = "no" THEN cached ELSE snapshot

IInv ==
  /\ TypeOK
  /\ ProbeIsSettled
  /\ OwnedIsLeft
  /\ NamedIsJoined
  /\ NamedConversationStays
  /\ RequiredHasContext
  /\ ReleasedLast
  /\ OneLive
  /\ CacheIsUsable

\* Openings are numbered from 1, so that 0 is none.
LEMMA OpeningsTypes == Openings \subseteq Nat \ {0}
  BY CallsAssumption, FS_CardinalityType DEF Openings

\* The invariant holds at the start.
LEMMA InitIInv == ASSUME Init PROVE IInv
<1>1. TypeOK BY AsksAssumption, OpeningsTypes DEF Init, TypeOK
<1>2. ProbeIsSettled /\ RequiredHasContext
  BY RequiresAssumption DEF Init, ProbeIsSettled, RequiredHasContext
<1>3. OwnedIsLeft /\ NamedIsJoined /\ NamedConversationStays /\ ReleasedLast /\ OneLive /\ CacheIsUsable
  BY DEF Init, OwnedIsLeft, NamedIsJoined, NamedConversationStays, ReleasedLast, OneLive,
         CacheIsUsable, Live
<1>4. QED BY <1>1, <1>2, <1>3 DEF IInv

\* A call that asks for the capability keeps the invariant.
LEMMA AskKeeps == ASSUME IInv, NEW c \in Calls, Ask(c) PROVE IInv'
<1> USE RequiresAssumption DEF IInv
<1>1. /\ pc[c] \in {"require", "ask"}
      /\ UNCHANGED <<asks, deploy, interaction, gone, window, opening, conversation, cached,
                     reported, session, reopened, released, snapshot>>
  BY DEF Ask, coreVars, openVars, exitVars
<1>2. \E label \in {"ask", "asking", "requiring", "open", "send", "done"} :
        pc' = [pc EXCEPT ![c] = label] /\ (label = "open" => asks # "owned")
  BY DEF Ask, Known, Unknown
<1>3. contract' \in {contract, "pending"} /\ (contract' = "pending" => contract # deploy)
  BY DEF Ask, TypeOK
<1>4. bare' \in [Calls -> BOOLEAN] BY DEF Ask, TypeOK
<1>5. TypeOK'
  <2>1. pc' \in [Calls -> Labels] BY <1>2 DEF TypeOK, Labels
  <2>2. contract' \in {"none", "pending", deploy} BY <1>3 DEF TypeOK
  <2>3. QED BY <1>1, <1>4, <2>1, <2>2 DEF TypeOK, Labels
<1>6. ProbeIsSettled'
  BY <1>1 DEF Ask, Known, Unknown, ProbeIsSettled, TypeOK
<1>7. OwnedIsLeft' BY <1>1, <1>2 DEF OwnedIsLeft, TypeOK
<1>8. NamedIsJoined' /\ NamedConversationStays' /\ CacheIsUsable'
  BY <1>1 DEF NamedIsJoined, NamedConversationStays, CacheIsUsable
<1>9. RequiredHasContext'
  BY <1>1 DEF Ask, Known, Unknown, ProbeIsSettled, RequiredHasContext, TypeOK
<1>10. ReleasedLast' BY <1>1, <1>2 DEF ReleasedLast, TypeOK
<1>11. OneLive' BY <1>1 DEF OneLive
<1>12. QED BY <1>5, <1>6, <1>7, <1>8, <1>9, <1>10, <1>11

\* A call that joins the cached handshake or opens one keeps the invariant.
LEMMA OpenKeeps == ASSUME IInv, NEW c \in Calls, Open(c) PROVE IInv'
<1> USE RequiresAssumption, OpeningsTypes DEF IInv
<1>1. /\ pc[c] = "open"
      /\ UNCHANGED <<asks, deploy, interaction, gone, contract, window, reported, reopened,
                     bare, released, snapshot>>
      /\ \E label \in {"send", "opening"} : pc' = [pc EXCEPT ![c] = label]
  BY DEF Open, coreVars, probeVars, exitVars, openVars
<1>2. /\ asks # "owned" /\ released = "no"
      /\ (c \in Requires => contract = deploy)
  BY <1>1 DEF OwnedIsLeft, ReleasedLast, ProbeIsSettled
<1>3. CASE cached # 0
  <2>1. session' = [session EXCEPT ![c] = cached]
        /\ UNCHANGED <<opening, conversation, cached>>
    BY <1>3 DEF Open, openVars
  <2>2. TypeOK' BY <1>1, <2>1 DEF TypeOK
  <2>3. ProbeIsSettled' BY <1>1, <1>2 DEF ProbeIsSettled, TypeOK
  <2>4. OwnedIsLeft' /\ NamedIsJoined' /\ NamedConversationStays' /\ CacheIsUsable'
    BY <1>1, <1>2, <2>1
    DEF OwnedIsLeft, NamedIsJoined, NamedConversationStays, CacheIsUsable
  <2>5. RequiredHasContext'
    BY <1>1 DEF ProbeIsSettled, RequiredHasContext, TypeOK
  <2>6. ReleasedLast' /\ OneLive' BY <1>1, <1>2, <2>1 DEF ReleasedLast, OneLive
  <2>7. QED BY <2>2, <2>3, <2>4, <2>5, <2>6
<1>4. CASE cached = 0
  <2>1. PICK o \in Openings :
          /\ opening[o] = "unused"
          /\ opening' = [opening EXCEPT ![o] = FirstStart]
          /\ session' = [session EXCEPT ![c] = o]
          /\ cached' = o
          /\ conversation' =
               [conversation EXCEPT ![o] = IF FirstStart = "minting" THEN o ELSE 0]
    BY <1>4 DEF Open, Entry
  <2>2. /\ FirstStart \in {"joining", "minting"}
        /\ asks = "named" => FirstStart = "joining"
    BY DEF FirstStart
  <2>3. TypeOK'
    <3>1. opening' \in [Openings -> {"unused", "joining", "minting", "open", "failed"}]
      BY <2>1, <2>2 DEF TypeOK
    <3>2. /\ conversation' \in [Openings -> {0} \cup Openings]
          /\ \A n \in Openings : conversation'[n] \in {0, n}
      BY <2>1 DEF TypeOK
    <3>3. pc' \in [Calls -> Labels] BY <1>1 DEF TypeOK, Labels
    <3>4. session' \in [Calls -> {0} \cup Openings] BY <2>1 DEF TypeOK
    <3>5. QED BY <1>1, <2>1, <3>1, <3>2, <3>3, <3>4 DEF TypeOK, Labels
  <2>4. ProbeIsSettled' /\ RequiredHasContext'
    BY <1>1 DEF ProbeIsSettled, RequiredHasContext, TypeOK
  <2>5. NamedIsJoined' BY <1>1, <2>1, <2>2 DEF NamedIsJoined, TypeOK
  <2>6. OwnedIsLeft' /\ NamedConversationStays'
    BY <1>1, <1>2, <2>5 DEF OwnedIsLeft, NamedIsJoined, NamedConversationStays
  <2>7. CacheIsUsable' BY <2>1, <2>2 DEF CacheIsUsable, TypeOK
  <2>8. ReleasedLast' BY <1>1, <1>2 DEF ReleasedLast
  <2>9. OneLive'
    <3> SUFFICES ASSUME \A d \in Calls : ~reopened[d], NEW n \in Openings, opening'[n] \in Live
                 PROVE  n = o
      BY <1>1, <1>2, <2>1 DEF OneLive
    <3>1. CASE n # o
      <4>1. opening[n] \in Live BY <2>1, <3>1 DEF TypeOK
      <4>2. n = 0 BY <1>2, <1>4, <4>1 DEF OneLive
      <4>3. QED BY <4>2
    <3>2. QED BY <3>1
  <2>10. QED BY <2>3, <2>4, <2>5, <2>6, <2>7, <2>8, <2>9
<1>5. cached \in {0} \cup Openings BY DEF TypeOK
<1>6. QED BY <1>3, <1>4, <1>5

\* A request that is answered, fails or finds its session stale.
LEMMA SendsKeep ==
  ASSUME IInv, NEW c \in Calls, SendAnswered(c) \/ SendStale(c) \/ SendFails(c)
  PROVE  IInv'
<1> USE RequiresAssumption DEF IInv
<1>1. /\ pc[c] = "send"
      /\ UNCHANGED <<asks, deploy, interaction, gone, contract, window, opening, conversation,
                     reported, bare, released, snapshot>>
  BY DEF SendAnswered, SendStale, SendFails, coreVars, probeVars, openVars, exitVars
<1>2. released = "no" BY <1>1 DEF ReleasedLast
<1>3. CASE SendAnswered(c) \/ SendFails(c)
  <2>1. /\ pc' = [pc EXCEPT ![c] = "done"]
        /\ UNCHANGED <<cached, session, reopened>>
    BY <1>3 DEF SendAnswered, SendFails, openVars
  <2>2. TypeOK' BY <1>1, <2>1 DEF TypeOK
  <2>3. ProbeIsSettled' /\ RequiredHasContext' /\ OwnedIsLeft'
    BY <1>1, <2>1 DEF ProbeIsSettled, RequiredHasContext, OwnedIsLeft, TypeOK
  <2>4. NamedIsJoined' /\ NamedConversationStays' /\ ReleasedLast' /\ OneLive' /\ CacheIsUsable'
    BY <1>1, <1>2, <2>1
    DEF NamedIsJoined, NamedConversationStays, ReleasedLast, OneLive, CacheIsUsable
  <2>5. QED BY <2>2, <2>3, <2>4
<1>4. CASE SendStale(c)
  <2>1. /\ pc' = [pc EXCEPT ![c] = "ask"] /\ cached' = 0
        /\ session' = [session EXCEPT ![c] = 0]
        /\ reopened' = [reopened EXCEPT ![c] = TRUE]
    BY <1>4 DEF SendStale
  <2>2. TypeOK' BY <1>1, <2>1 DEF TypeOK
  <2>3. ProbeIsSettled' /\ RequiredHasContext' /\ OwnedIsLeft'
    BY <1>1, <2>1 DEF ProbeIsSettled, RequiredHasContext, OwnedIsLeft, TypeOK
  <2>4. NamedIsJoined' /\ NamedConversationStays' /\ ReleasedLast' /\ CacheIsUsable'
    BY <1>1, <1>2, <2>1
    DEF NamedIsJoined, NamedConversationStays, ReleasedLast, CacheIsUsable
  <2>5. OneLive' BY <2>1 DEF OneLive, TypeOK
  <2>6. QED BY <2>2, <2>3, <2>4, <2>5
<1>5. QED BY <1>3, <1>4

\* What the end of a probe makes of the calls that await it.
LEMMA ProbeKeeps == ASSUME IInv, ProbeAnswered \/ ProbeFails PROVE IInv'
<1> USE RequiresAssumption DEF IInv
<1>1. /\ contract = "pending" /\ contract' \in {"none", deploy}
      /\ window' \in BOOLEAN /\ (contract' = deploy => window' = window)
      /\ UNCHANGED <<asks, deploy, interaction, gone, opening, conversation, cached, reported,
                     session, reopened, released, snapshot>>
  BY DEF ProbeAnswered, ProbeFails, Capability, coreVars, openVars, exitVars, TypeOK
<1>2. /\ pc' \in [Calls -> Labels]
      /\ \A c \in Calls : c \notin Waiting => pc'[c] = pc[c]
      /\ \A c \in Waiting : pc'[c] \in {"ask", "open", "send", "done"}
      /\ \A c \in Waiting : pc'[c] = "open" => asks # "owned"
  BY DEF ProbeAnswered, ProbeFails, Known, Unknown, Waiting, Labels, TypeOK
<1>3. bare' \in [Calls -> BOOLEAN]
  <2>1. CASE ProbeAnswered
    <3>1. bare' = [c \in Calls |->
            IF c \in Waiting THEN Capability = "unsupported" ELSE bare[c]]
      BY <2>1 DEF ProbeAnswered
    <3>2. QED BY <3>1 DEF TypeOK
  <2>2. CASE ProbeFails
    <3>1. bare' = [c \in Calls |-> c \in Waiting \/ bare[c]] BY <2>2 DEF ProbeFails
    <3>2. QED BY <3>1, Zenon
  <2>3. QED BY <2>1, <2>2
<1>4. TypeOK' BY <1>1, <1>2, <1>3 DEF TypeOK, Labels
\* A call that requires a receipt awaits its probe here only at the first one,
\* and passes only when the answer is known.
<1>5. \A c \in Requires : c \in Waiting => pc[c] = "requiring"
  BY <1>1 DEF Waiting, ProbeIsSettled, TypeOK
<1>6. \A c \in Requires : c \in Waiting =>
        \/ pc'[c] = "done"
        \/ pc'[c] = "ask" /\ contract' = deploy /\ (bare'[c] => deploy = "unsupported")
  BY <1>5 DEF ProbeAnswered, ProbeFails, Known, Unknown, Waiting, Capability
<1>7. \A c \in Requires : c \notin Waiting =>
        pc'[c] \notin {"ask", "asking", "open", "opening", "send"}
  BY <1>1, <1>2 DEF ProbeIsSettled, TypeOK
<1>8. ProbeIsSettled'
  <2>1. window' => contract' = "none"
    BY <1>1 DEF ProbeAnswered, ProbeFails, ProbeIsSettled, Capability, TypeOK
  <2>2. QED BY <1>1, <1>6, <1>7, <2>1 DEF ProbeIsSettled
<1>9. RequiredHasContext' BY <1>6, <1>7 DEF RequiredHasContext
<1>10. OwnedIsLeft' BY <1>1, <1>2 DEF OwnedIsLeft
<1>11. ReleasedLast' BY <1>1, <1>2 DEF ReleasedLast, Waiting
<1>12. NamedIsJoined' /\ NamedConversationStays' /\ OneLive' /\ CacheIsUsable'
  BY <1>1 DEF NamedIsJoined, NamedConversationStays, OneLive, CacheIsUsable
<1>13. QED BY <1>4, <1>8, <1>9, <1>10, <1>11, <1>12

\* What the end of a handshake makes of the calls that await it.
LEMMA SettleTypes ==
  ASSUME IInv, NEW o \in Openings, NEW step \in {"send", "done"}, Settle(o, step)
  PROVE  /\ pc' \in [Calls -> Labels]
         /\ \A c \in Calls : pc'[c] = pc[c] \/ (pc[c] = "opening" /\ pc'[c] = step)
  BY DEF IInv, TypeOK, Settle, Labels

\* The steps of a handshake keep the invariant.
LEMMA HandshakeKeeps == ASSUME IInv, NEW o \in Openings, Handshake(o) PROVE IInv'
<1> USE RequiresAssumption, OpeningsTypes DEF IInv
<1>1. CASE Joined(o) \/ Minted(o)
  <2>1. /\ opening[o] \in {"joining", "minting"}
        /\ opening' = [opening EXCEPT ![o] = "open"]
        /\ interaction' = [interaction EXCEPT ![o] = "active"]
        /\ reported' \subseteq reported \cup {o}
        /\ Settle(o, "send")
        /\ UNCHANGED <<asks, deploy, gone, contract, window, conversation, cached, session,
                       reopened, bare, released, snapshot>>
    BY <1>1 DEF Joined, Minted, probeVars, exitVars
  <2>2. /\ pc' \in [Calls -> Labels]
        /\ \A c \in Calls : pc'[c] = pc[c] \/ (pc[c] = "opening" /\ pc'[c] = "send")
    BY <2>1, SettleTypes
  <2>3. TypeOK' BY <2>1, <2>2 DEF TypeOK, Labels
  <2>4. ProbeIsSettled' /\ RequiredHasContext'
    BY <2>1, <2>2 DEF ProbeIsSettled, RequiredHasContext
  <2>5. OwnedIsLeft' /\ ReleasedLast' BY <2>1, <2>2 DEF OwnedIsLeft, ReleasedLast
  <2>6. NamedIsJoined' /\ NamedConversationStays' /\ CacheIsUsable' /\ OneLive'
    BY <2>1
    DEF NamedIsJoined, NamedConversationStays, CacheIsUsable, OneLive, Live, TypeOK
  <2>7. QED BY <2>3, <2>4, <2>5, <2>6
<1>2. CASE Dropped(o)
  <2>1. /\ opening[o] = "joining" /\ asks = "remembered"
        /\ opening' = [opening EXCEPT ![o] = "minting"]
        /\ conversation' = [conversation EXCEPT ![o] = o]
        /\ UNCHANGED <<asks, deploy, gone, interaction, contract, window, cached, reported, pc,
                       session, reopened, bare, released, snapshot>>
    BY <1>2 DEF Dropped, Droppable, coreVars, probeVars, callVars, exitVars
  <2>2. TypeOK' BY <2>1 DEF TypeOK
  <2>3. ProbeIsSettled' /\ RequiredHasContext' /\ OwnedIsLeft' /\ ReleasedLast'
    BY <2>1 DEF ProbeIsSettled, RequiredHasContext, OwnedIsLeft, ReleasedLast
  <2>4. NamedIsJoined' /\ NamedConversationStays' BY <2>1 DEF NamedIsJoined, NamedConversationStays
  <2>5. CacheIsUsable' /\ OneLive' BY <2>1 DEF CacheIsUsable, OneLive, Live, TypeOK
  <2>6. QED BY <2>2, <2>3, <2>4, <2>5
<1>3. CASE OpenFails(o)
  <2>1. /\ opening[o] \in {"joining", "minting"}
        /\ opening' = [opening EXCEPT ![o] = "failed"]
        /\ interaction' \in {interaction, [interaction EXCEPT ![o] = "active"]}
        /\ cached' = 0
        /\ Settle(o, "done")
        /\ UNCHANGED <<asks, deploy, gone, contract, window, conversation, reported, session,
                       reopened, bare, released, snapshot>>
    BY <1>3 DEF OpenFails, Forget, probeVars, exitVars
  <2>2. /\ pc' \in [Calls -> Labels]
        /\ \A c \in Calls : pc'[c] = pc[c] \/ (pc[c] = "opening" /\ pc'[c] = "done")
    BY <2>1, SettleTypes
  <2>3. TypeOK' BY <2>1, <2>2 DEF TypeOK, Labels
  <2>4. ProbeIsSettled' /\ RequiredHasContext'
    BY <2>1, <2>2 DEF ProbeIsSettled, RequiredHasContext
  <2>5. OwnedIsLeft' /\ ReleasedLast' BY <2>1, <2>2 DEF OwnedIsLeft, ReleasedLast
  <2>6. NamedIsJoined' /\ NamedConversationStays' /\ CacheIsUsable'
    BY <2>1 DEF NamedIsJoined, NamedConversationStays, CacheIsUsable, TypeOK
  <2>7. OneLive'
    <3> SUFFICES ASSUME \A d \in Calls : ~reopened[d], NEW n \in Openings, opening'[n] \in Live
                 PROVE  n = IF released = "no" THEN 0 ELSE snapshot
      BY <2>1 DEF OneLive
    <3>1. n # o /\ opening[n] \in Live BY <2>1 DEF Live, TypeOK
    <3>2. n = o BY <2>1, <3>1 DEF OneLive, Live
    <3>3. QED BY <3>1, <3>2
  <2>8. QED BY <2>3, <2>4, <2>5, <2>6, <2>7
<1>4. QED BY <1>1, <1>2, <1>3 DEF Handshake

\* The deploy's sweeps, the end of a window and the release keep the invariant.
LEMMA RestKeeps ==
  ASSUME IInv,
         \/ \E o \in Openings : SweepInteraction(o)
         \/ SweepConversation \/ WindowEnds \/ Release \/ ReleaseEnds
  PROVE  IInv'
<1> USE OpeningsTypes DEF IInv
<1>1. /\ UNCHANGED <<asks, deploy, contract, opening, conversation, reported, pc, session,
                     reopened, bare>>
      /\ window' = window \/ window' = FALSE
      /\ gone' = gone \/ gone' = TRUE
  BY DEF SweepInteraction, SweepConversation, WindowEnds, Release, ReleaseEnds, coreVars,
         probeVars, openVars, callVars
<1>2. interaction' \in [Openings -> {"none", "active", "ended", "canceled"}]
  <2>1. CASE \E o \in Openings : SweepInteraction(o)
    BY <2>1 DEF SweepInteraction, TypeOK
  <2>2. CASE SweepConversation BY <2>2 DEF SweepConversation, TypeOK
  <2>3. CASE WindowEnds \/ Release BY <2>3 DEF WindowEnds, Release, coreVars, TypeOK
  <2>4. CASE ReleaseEnds BY <2>4 DEF ReleaseEnds, TypeOK
  <2>5. QED BY <2>1, <2>2, <2>3, <2>4
<1>3. \/ UNCHANGED <<cached, released, snapshot>>
      \/ /\ \A c \in Calls : pc[c] = "done"
         /\ released = "no" /\ released' \in {"yes", "releasing"}
         /\ snapshot' = cached /\ cached' = 0
      \/ released = "releasing" /\ released' = "yes" /\ UNCHANGED <<cached, snapshot>>
  BY DEF SweepInteraction, SweepConversation, WindowEnds, Release, ReleaseEnds, openVars, exitVars
<1>4. TypeOK' BY <1>1, <1>2, <1>3 DEF TypeOK
<1>5. ProbeIsSettled' /\ RequiredHasContext' /\ OwnedIsLeft'
  BY <1>1 DEF ProbeIsSettled, RequiredHasContext, OwnedIsLeft
<1>6. NamedIsJoined' /\ NamedConversationStays'
  BY <1>1 DEF NamedIsJoined, NamedConversationStays
<1>7. ReleasedLast' BY <1>1, <1>3 DEF ReleasedLast
<1>8. OneLive' BY <1>1, <1>3 DEF OneLive
<1>9. CacheIsUsable' BY <1>1, <1>3 DEF CacheIsUsable
<1>10. QED BY <1>4, <1>5, <1>6, <1>7, <1>8, <1>9

\* Every step keeps the invariant.
LEMMA NextIInv == ASSUME IInv, [Next]_vars PROVE IInv'
<1>1. CASE Next
  <2>1. ASSUME NEW c \in Calls, Step(c) PROVE IInv'
    BY <2>1, AskKeeps, OpenKeeps, SendsKeep DEF Step
  <2>2. QED BY <1>1, <2>1, ProbeKeeps, HandshakeKeeps, RestKeeps DEF Next
<1>2. CASE UNCHANGED vars
  BY <1>2
  DEF IInv, vars, coreVars, probeVars, openVars, callVars, exitVars, TypeOK, ProbeIsSettled,
      OwnedIsLeft, NamedIsJoined, NamedConversationStays, RequiredHasContext, ReleasedLast,
      OneLive, CacheIsUsable
<1>3. QED BY <1>1, <1>2

\* The inductive invariant holds throughout.
THEOREM Invariance == Spec => []IInv
<1>1. Init => IInv BY InitIInv
<1>2. IInv /\ [Next]_vars => IInv' BY NextIInv
<1>3. QED BY <1>1, <1>2, PTL DEF Spec

\* The caches and the calls keep their types.
THEOREM TypeCorrect == Spec => []TypeOK
<1>1. IInv => TypeOK BY DEF IInv
<1>2. QED BY <1>1, Invariance, PTL

\* Calls that find no session share one handshake (ensureSession).
THEOREM SharesOne == Spec => []FirstCallsShareOne
<1>1. IInv => FirstCallsShareOne
  <2> SUFFICES ASSUME IInv, \A c \in Calls : ~reopened[c]
               PROVE  Cardinality({o \in Openings : opening[o] \in Live}) <= 1
    BY DEF FirstCallsShareOne, Live
  <2> DEFINE it == IF released = "no" THEN cached ELSE snapshot
  <2>1. {o \in Openings : opening[o] \in Live} \subseteq {it} BY DEF IInv, OneLive
  <2>2. IsFiniteSet({it}) /\ Cardinality({it}) = 1 BY FS_Singleton
  <2>3. QED BY <2>1, <2>2, FS_Subset
<1>2. QED BY <1>1, Invariance, PTL

\* A named conversation is never swapped, an owned one never joined (openSession,
\* bknContextFor).
THEOREM NamedStays == Spec => []NamedConversationStays
<1>1. IInv => NamedConversationStays BY DEF IInv
<1>2. QED BY <1>1, Invariance, PTL

\* A call that requires a receipt is not sent bare on the strength of a failed
\* probe (requireKnownLifecycleCapability).
THEOREM ReceiptsHaveContext == Spec => []RequiredHasContext
<1>1. IInv => RequiredHasContext BY DEF IInv
<1>2. QED BY <1>1, Invariance, PTL

\* No call joins a handshake that failed (ensureSession).
THEOREM CacheUsable == Spec => []CacheIsUsable
<1>1. IInv => CacheIsUsable BY DEF IInv
<1>2. QED BY <1>1, Invariance, PTL

--------------------------------------------------------------------------------
\* What is left of a call

\* The labels of a call in the order in which withManagedLifecycle goes through them.
InOrder ==
  [require |-> 7, requiring |-> 6, ask |-> 5, asking |-> 4, open |-> 3, opening |-> 2,
   send |-> 1, done |-> 0]

\* How many steps a call has left at most: a session that proves stale costs
\* five more, once.
StepsLeft(c) == InOrder[pc[c]] + (IF reopened[c] \/ pc[c] = "done" THEN 0 ELSE 5)

\* And a handshake: joined or dropped, minted or failed.
HandshakeLeft(o) ==
  CASE opening[o] = "unused" -> 3 [] opening[o] = "joining" -> 2 [] opening[o] = "minting" -> 1
    [] OTHER -> 0

\* The calls that were given a session, and those that were given a second one.
Opened == {c \in Calls : pc[c] \in {"opening", "send", "done"} \/ reopened[c]}
OpenedAgain == {c \in Calls : pc[c] \in {"opening", "send", "done"} /\ reopened[c]}

\* The openings are taken one by one, at most one for each session given.
TakenUpTo(k) ==
  /\ k \in 0 .. 2 * Cardinality(Calls)
  /\ \A o \in Openings : opening[o] = "unused" <=> o > k
  /\ k <= Cardinality(Opened) + Cardinality(OpenedAgain)

OpeningsSuffice == \E k \in Nat : TakenUpTo(k)

\* What a call awaits is under way.
Awaited ==
  \A c \in Calls :
    /\ pc[c] \in {"requiring", "asking"} => contract = "pending"
    /\ pc[c] = "opening" => session[c] # 0 /\ opening[session[c]] \in {"joining", "minting"}

\* A call that awaits a probe or a handshake has one that is not answered yet, one
\* that has to open a session can, and only a call that is over has no step left.
NobodyWaitsInVain ==
  \A c \in Calls :
    /\ pc[c] \in {"requiring", "asking"} => contract = "pending"
    /\ pc[c] = "opening" => session[c] # 0 /\ opening[session[c]] \in {"joining", "minting"}
    /\ pc[c] = "open" /\ cached = 0 =>
         \E o \in Openings : opening[o] = "unused" /\ \A n \in 1 .. o - 1 : opening[n] # "unused"
    /\ StepsLeft(c) \in 0 .. 12
    /\ StepsLeft(c) = 0 <=> pc[c] = "done"

\* Nothing that the deploy, another call or the clock does gives a call or a
\* handshake more to do; what it does itself leaves it less.
Dwindle ==
  [][/\ \A c \in Calls : StepsLeft(c)' <= StepsLeft(c) /\ (Step(c) => StepsLeft(c)' < StepsLeft(c))
     /\ \A o \in Openings : /\ HandshakeLeft(o)' <= HandshakeLeft(o)
                            /\ Handshake(o) => HandshakeLeft(o)' < HandshakeLeft(o)
     /\ ProbeAnswered \/ ProbeFails => \A c \in Waiting : StepsLeft(c)' < StepsLeft(c)]_vars

\* The numbers of the labels.
LEMMA OrderFacts ==
  /\ InOrder["require"] = 7 /\ InOrder["requiring"] = 6 /\ InOrder["ask"] = 5
  /\ InOrder["asking"] = 4 /\ InOrder["open"] = 3 /\ InOrder["opening"] = 2
  /\ InOrder["send"] = 1 /\ InOrder["done"] = 0
  BY DEF InOrder

\* What a step may make of a call: the next label, or one further on; back to
\* asking only when its session proves stale, once.
Moves(c) ==
  \/ pc'[c] = pc[c] /\ reopened'[c] = reopened[c]
  \/ /\ reopened'[c] = reopened[c]
     /\ \/ pc[c] = "require" /\ pc'[c] \in {"requiring", "ask", "done"}
        \/ pc[c] = "requiring" /\ pc'[c] \in {"ask", "done"}
        \/ pc[c] = "ask" /\ pc'[c] \in {"asking", "open", "send", "done"}
        \/ pc[c] = "asking" /\ pc'[c] \in {"open", "send", "done"}
        \/ pc[c] = "open" /\ pc'[c] \in {"opening", "send"}
        \/ pc[c] = "opening" /\ pc'[c] \in {"send", "done"}
        \/ pc[c] = "send" /\ pc'[c] = "done"
  \/ pc[c] = "send" /\ ~reopened[c] /\ pc'[c] = "ask" /\ reopened'[c]

LEMMA StepMoves ==
  ASSUME IInv, NEW d \in Calls, Step(d), NEW c \in Calls
  PROVE  Moves(c) /\ (c = d => pc'[c] # pc[c])
<1> USE DEF IInv, TypeOK, Moves
<1>1. CASE Ask(d)
  <2>1. CASE c = d BY <1>1, <2>1 DEF Ask, Known, Unknown
  <2>2. CASE c # d BY <1>1, <2>2 DEF Ask
  <2>3. QED BY <2>1, <2>2
<1>2. CASE Open(d)
  <2>1. /\ pc[d] = "open" /\ reopened' = reopened
        /\ \E label \in {"send", "opening"} : pc' = [pc EXCEPT ![d] = label]
    BY <1>2 DEF Open
  <2>2. QED BY <2>1
<1>3. CASE SendAnswered(d) \/ SendFails(d) BY <1>3 DEF SendAnswered, SendFails
<1>4. CASE SendStale(d) BY <1>4 DEF SendStale
<1>5. QED BY <1>1, <1>2, <1>3, <1>4 DEF Step

\* The end of a probe moves the calls that await it and no other.
LEMMA ProbeMoves ==
  ASSUME IInv, ProbeAnswered \/ ProbeFails, NEW c \in Calls
  PROVE  Moves(c) /\ (c \in Waiting => pc'[c] # pc[c])
<1>1. reopened' = reopened BY DEF ProbeAnswered, ProbeFails
<1>2. CASE ProbeAnswered BY <1>1, <1>2 DEF ProbeAnswered, Moves, Waiting, Known
<1>3. CASE ProbeFails BY <1>1, <1>3 DEF ProbeFails, Moves, Waiting, Unknown
<1>4. QED BY <1>2, <1>3

\* So does a handshake, and it moves on itself.
LEMMA HandshakeMoves ==
  ASSUME IInv, NEW o \in Openings, Handshake(o)
  PROVE  /\ \A c \in Calls : Moves(c)
         /\ \A n \in Openings \ {o} : opening'[n] = opening[n]
         /\ HandshakeLeft(o)' < HandshakeLeft(o)
         /\ \A c \in Calls : pc'[c] = "opening" =>
              pc[c] = "opening" /\ (session[c] = o => opening'[o] = "minting")
         /\ opening[o] # "unused" /\ opening'[o] # "unused"
<1> USE DEF IInv, TypeOK
<1>1. CASE Joined(o) \/ Minted(o) \/ OpenFails(o)
  <2>1. PICK step \in {"send", "done"}, result \in {"open", "failed"} :
          /\ Settle(o, step)
          /\ opening' = [opening EXCEPT ![o] = result]
          /\ opening[o] \in {"joining", "minting"} /\ reopened' = reopened
    BY <1>1 DEF Joined, Minted, OpenFails
  <2>2. \A c \in Calls : Moves(c) BY <2>1 DEF Moves, Settle
  <2>3. QED BY <2>1, <2>2 DEF HandshakeLeft, Settle
<1>2. CASE Dropped(o)
  BY <1>2 DEF Dropped, callVars, Moves, HandshakeLeft
<1>3. QED BY <1>1, <1>2 DEF Handshake

\* What the other steps leave alone.
LEMMA RestStays ==
  ASSUME \/ \E o \in Openings : SweepInteraction(o)
         \/ SweepConversation \/ WindowEnds \/ Release \/ ReleaseEnds
         \/ UNCHANGED vars
  PROVE  UNCHANGED <<pc, reopened, session, opening, contract>>
  BY DEF SweepInteraction, SweepConversation, WindowEnds, Release, ReleaseEnds, vars, coreVars,
         probeVars, openVars, callVars

\* Whatever the step, a call only moves on.
LEMMA EveryCallMoves ==
  ASSUME IInv, [Next]_vars, NEW c \in Calls
  PROVE  Moves(c)
  BY StepMoves, ProbeMoves, HandshakeMoves, RestStays DEF Next, Moves

\* And has fewer steps left when it moved.
LEMMA MoveFalls ==
  ASSUME IInv, IInv', NEW c \in Calls, Moves(c)
  PROVE  /\ StepsLeft(c)' <= StepsLeft(c)
         /\ pc'[c] # pc[c] => StepsLeft(c)' < StepsLeft(c)
  BY OrderFacts DEF IInv, TypeOK, Moves, StepsLeft

--------------------------------------------------------------------------------
\* Nobody waits in vain

\* A larger set of calls has more members.
LEMMA Grows ==
  ASSUME NEW S, NEW T \in SUBSET Calls, S \subseteq T
  PROVE  /\ Cardinality(S) \in Nat /\ Cardinality(T) \in Nat
         /\ Cardinality(S) <= Cardinality(T)
         /\ (\E c \in T : c \notin S) => Cardinality(S) + 1 <= Cardinality(T)
<1>1. IsFiniteSet(T) BY CallsAssumption, FS_Subset
<1>2. IsFiniteSet(S) BY <1>1, FS_Subset
<1>3. Cardinality(S) \in Nat /\ Cardinality(T) \in Nat /\ Cardinality(S) <= Cardinality(T)
  BY <1>1, <1>2, FS_Subset, FS_CardinalityType
<1>4. ASSUME NEW c \in T, c \notin S PROVE Cardinality(S) + 1 <= Cardinality(T)
  <2>1. IsFiniteSet(S \cup {c}) /\ Cardinality(S \cup {c}) = Cardinality(S) + 1
    BY <1>2, <1>4, FS_AddElement
  <2>2. Cardinality(S \cup {c}) <= Cardinality(T) BY <1>1, <1>4, FS_Subset
  <2>3. QED BY <2>1, <2>2
<1>5. QED BY <1>3, <1>4

\* A call that was given a session stays one that was.
LEMMA OpenedGrow ==
  ASSUME IInv, \A c \in Calls : Moves(c)
  PROVE  /\ Opened \subseteq Opened' /\ Opened' \in SUBSET Calls
         /\ OpenedAgain \subseteq OpenedAgain' /\ OpenedAgain' \in SUBSET Calls
  BY DEF Moves, Opened, OpenedAgain, IInv, TypeOK

\* A step that takes no opening leaves enough of them.
LEMMA SufficeStays ==
  ASSUME IInv, OpeningsSuffice, \A c \in Calls : Moves(c),
         \A o \in Openings : opening'[o] = "unused" <=> opening[o] = "unused"
  PROVE  OpeningsSuffice'
<1>1. PICK k \in Nat : TakenUpTo(k) BY DEF OpeningsSuffice
<1>2. /\ Cardinality(Opened) <= Cardinality(Opened')
      /\ Cardinality(OpenedAgain) <= Cardinality(OpenedAgain')
      /\ Cardinality(Opened) \in Nat /\ Cardinality(Opened') \in Nat
      /\ Cardinality(OpenedAgain) \in Nat /\ Cardinality(OpenedAgain') \in Nat
  BY OpenedGrow, Grows
<1>3. TakenUpTo(k)' BY <1>1, <1>2 DEF TakenUpTo
<1>4. QED BY <1>3 DEF OpeningsSuffice

\* A call that has to open a session was not given that one before, and the
\* next opening is free.
LEMMA OpeningIsLeft ==
  ASSUME IInv, NEW k \in Nat, TakenUpTo(k), NEW c \in Calls, pc[c] = "open"
  PROVE  k + 1 \in Openings /\ opening[k + 1] = "unused"
<1>1. /\ Opened \in SUBSET Calls /\ OpenedAgain \in SUBSET Calls
      /\ c \notin OpenedAgain /\ (c \in Opened => reopened[c])
  BY DEF Opened, OpenedAgain
<1>2. Cardinality(OpenedAgain) + 1 <= Cardinality(Calls) BY <1>1, Grows
<1>3. Cardinality(Opened) <= Cardinality(Calls) BY <1>1, Grows
<1>4. /\ Cardinality(Calls) \in Nat /\ Cardinality(Opened) \in Nat
      /\ Cardinality(OpenedAgain) \in Nat
  BY <1>1, Grows
<1>5. k + 1 \in 1 .. 2 * Cardinality(Calls) BY <1>2, <1>3, <1>4 DEF TakenUpTo
<1>6. QED BY <1>5 DEF TakenUpTo, Openings

\* What waits for something keeps having it, and openings keep being left.
WaitInv == IInv /\ Awaited /\ OpeningsSuffice

LEMMA InitWaits == ASSUME Init PROVE WaitInv
<1>1. IInv BY InitIInv
<1>2. Awaited BY DEF Init, Awaited
<1>3. Cardinality(Calls) \in Nat BY CallsAssumption, FS_CardinalityType
<1>4. /\ Cardinality(Opened) \in Nat /\ Cardinality(OpenedAgain) \in Nat
  <2>1. Opened \in SUBSET Calls /\ OpenedAgain \in SUBSET Calls BY DEF Opened, OpenedAgain
  <2>2. QED BY <2>1, Grows
<1>5. \A o \in Openings : opening[o] = "unused" /\ o > 0 BY <1>3 DEF Init, Openings
<1>6. TakenUpTo(0) BY <1>3, <1>4, <1>5 DEF TakenUpTo
<1>7. QED BY <1>1, <1>2, <1>6 DEF WaitInv, OpeningsSuffice

LEMMA OpenKeepsWaits == ASSUME WaitInv, NEW c \in Calls, Open(c) PROVE Awaited' /\ OpeningsSuffice'
<1> USE DEF WaitInv
<1>1. /\ pc[c] = "open" /\ contract' = contract /\ reopened' = reopened
      /\ pc' = [pc EXCEPT ![c] = IF opening'[session'[c]] = "open" THEN "send" ELSE "opening"]
  BY DEF Open, probeVars
<1>2. \A d \in Calls : Moves(d) BY StepMoves DEF Step
<1>3. CASE cached # 0
  <2>1. session' = [session EXCEPT ![c] = cached] /\ opening' = opening
    BY <1>3 DEF Open, openVars
  <2>2. cached \in Openings /\ opening[cached] \in {"joining", "minting", "open"}
    BY <1>3 DEF IInv, TypeOK, CacheIsUsable
  <2>3. Awaited' BY <1>1, <1>3, <2>1, <2>2 DEF Awaited, IInv, TypeOK
  <2>4. OpeningsSuffice' BY <1>2, <2>1, SufficeStays
  <2>5. QED BY <2>3, <2>4
<1>4. CASE cached = 0
  <2>1. PICK o \in Openings :
          /\ opening[o] = "unused"
          /\ \A n \in 1 .. o - 1 : opening[n] # "unused"
          /\ opening' = [opening EXCEPT ![o] = FirstStart]
          /\ session' = [session EXCEPT ![c] = o]
    BY <1>4 DEF Open
  <2>2. FirstStart \in {"joining", "minting"} BY DEF FirstStart
  <2>3. o \in Nat \ {0} BY OpeningsTypes
  <2>4. pc' = [pc EXCEPT ![c] = "opening"]
    BY <1>1, <2>1, <2>2 DEF IInv, TypeOK
  <2>5. Awaited'
    <3> SUFFICES ASSUME NEW d \in Calls
                 PROVE  /\ pc'[d] \in {"requiring", "asking"} => contract' = "pending"
                        /\ pc'[d] = "opening" =>
                             session'[d] # 0 /\ opening'[session'[d]] \in {"joining", "minting"}
      BY DEF Awaited
    <3>1. CASE d = c BY <2>1, <2>2, <2>3, <2>4, <3>1 DEF IInv, TypeOK
    <3>2. CASE d # c
      <4>1. pc'[d] = pc[d] /\ session'[d] = session[d] BY <2>1, <2>4, <3>2 DEF IInv, TypeOK
      <4>2. pc[d] = "opening" => session[d] \in Openings /\ session[d] # o
        BY <2>1 DEF Awaited, IInv, TypeOK
      <4>3. QED BY <1>1, <2>1, <4>1, <4>2 DEF Awaited, IInv, TypeOK
    <3>3. QED BY <3>1, <3>2
  <2>6. PICK k \in Nat : TakenUpTo(k) BY DEF OpeningsSuffice
  <2>7. k + 1 \in Openings /\ opening[k + 1] = "unused" BY <1>1, <2>6, OpeningIsLeft
  <2>8. o = k + 1
    <3>1. o > k BY <2>1, <2>6 DEF TakenUpTo
    <3>2. ~ (k + 1 < o)
      <4>1. k + 1 < o => k + 1 \in 1 .. o - 1 BY <2>3
      <4>2. QED BY <2>1, <2>7, <4>1
    <3>3. QED BY <2>3, <3>1, <3>2
  <2>9. /\ Opened \subseteq Opened' /\ Opened' \in SUBSET Calls
        /\ OpenedAgain \subseteq OpenedAgain' /\ OpenedAgain' \in SUBSET Calls
    BY <1>2, OpenedGrow
  <2>10. \/ c \in Opened' /\ c \notin Opened
         \/ c \in OpenedAgain' /\ c \notin OpenedAgain
    BY <1>1, <2>4 DEF Opened, OpenedAgain, IInv, TypeOK
  <2>11. Cardinality(Opened) + Cardinality(OpenedAgain) + 1
           <= Cardinality(Opened') + Cardinality(OpenedAgain')
    <3> DEFINE a == Cardinality(Opened)
               b == Cardinality(OpenedAgain)
               x == Cardinality(Opened')
               y == Cardinality(OpenedAgain')
    <3>1. a \in Nat /\ x \in Nat /\ a <= x /\ ((\E d \in Opened' : d \notin Opened) => a + 1 <= x)
      BY <2>9, Grows
    <3>2. /\ b \in Nat /\ y \in Nat /\ b <= y
          /\ (\E d \in OpenedAgain' : d \notin OpenedAgain) => b + 1 <= y
      BY <2>9, Grows
    <3>3. a + 1 <= x \/ b + 1 <= y BY <2>10, <3>1, <3>2
    <3> HIDE DEF a, b, x, y
    <3>4. a + b + 1 <= x + y BY <3>1, <3>2, <3>3
    <3>5. QED BY <3>4 DEF a, b, x, y
  <2>12. /\ Cardinality(Opened) \in Nat /\ Cardinality(OpenedAgain) \in Nat
         /\ Cardinality(Opened') \in Nat /\ Cardinality(OpenedAgain') \in Nat
    BY <2>9, Grows
  <2>13. k + 1 <= Cardinality(Opened') + Cardinality(OpenedAgain')
    BY <2>6, <2>11, <2>12 DEF TakenUpTo
  <2>14. \A n \in Openings : opening'[n] = "unused" <=> n > k + 1
    <3> SUFFICES ASSUME NEW n \in Openings PROVE opening'[n] = "unused" <=> n > k + 1
      OBVIOUS
    <3>1. n \in Nat BY OpeningsTypes
    <3>2. CASE n = o BY <2>1, <2>2, <2>8, <3>2 DEF IInv, TypeOK
    <3>3. CASE n # o
      <4>1. opening'[n] = opening[n] BY <2>1, <3>3 DEF IInv, TypeOK
      <4>2. opening[n] = "unused" <=> n > k BY <2>6 DEF TakenUpTo
      <4>3. QED BY <2>8, <3>1, <3>3, <4>1, <4>2
    <3>4. QED BY <3>2, <3>3
  <2>15. k + 1 \in 0 .. 2 * Cardinality(Calls) BY <2>7 DEF Openings
  <2>16. TakenUpTo(k + 1)' BY <2>13, <2>14, <2>15 DEF TakenUpTo
  <2>17. QED BY <2>5, <2>16 DEF OpeningsSuffice
<1>5. QED BY <1>3, <1>4

LEMMA NextWaits == ASSUME WaitInv, [Next]_vars PROVE WaitInv'
<1> USE DEF WaitInv
<1>1. IInv' BY NextIInv
<1>2. \A c \in Calls : Moves(c) BY EveryCallMoves
<1>3. ASSUME NEW c \in Calls, Step(c) PROVE Awaited' /\ OpeningsSuffice'
  <2>1. CASE Ask(c)
    <3>1. opening' = opening /\ session' = session BY <2>1 DEF Ask, openVars
    <3>2. Awaited' BY <2>1, <3>1 DEF Ask, Awaited, Known, Unknown, IInv, TypeOK
    <3>3. QED BY <1>2, <3>1, <3>2, SufficeStays
  <2>2. CASE Open(c) BY <2>2, OpenKeepsWaits
  <2>3. CASE SendAnswered(c) \/ SendStale(c) \/ SendFails(c)
    <3>1. /\ opening' = opening /\ contract' = contract
          /\ pc' = [pc EXCEPT ![c] = pc'[c]] /\ pc'[c] \in {"ask", "done"}
          /\ \A d \in Calls : d # c => session'[d] = session[d]
      BY <2>3
      DEF SendAnswered, SendStale, SendFails, openVars, probeVars, IInv, TypeOK
    <3>2. Awaited' BY <3>1 DEF Awaited, IInv, TypeOK
    <3>3. QED BY <1>2, <3>1, <3>2, SufficeStays
  <2>4. QED BY <1>3, <2>1, <2>2, <2>3 DEF Step
<1>4. CASE ProbeAnswered \/ ProbeFails
  <2>1. opening' = opening /\ session' = session BY <1>4 DEF ProbeAnswered, ProbeFails, openVars
  <2>2. Awaited'
    BY <1>4, <2>1 DEF ProbeAnswered, ProbeFails, Known, Unknown, Waiting, Awaited
  <2>3. OpeningsSuffice' BY <1>2, <2>1, SufficeStays
  <2>4. QED BY <1>1, <2>2, <2>3
<1>5. ASSUME NEW o \in Openings, Handshake(o) PROVE Awaited' /\ OpeningsSuffice'
  <2>1. contract' = contract /\ session' = session
    BY <1>5 DEF Handshake, Joined, Minted, Dropped, OpenFails, probeVars, callVars
  <2>2. \A c \in Calls : pc'[c] \in {"requiring", "asking"} => pc'[c] = pc[c]
    BY <1>5
    DEF Handshake, Joined, Minted, Dropped, OpenFails, Settle, callVars, IInv, TypeOK
  <2>3. Awaited' BY <1>5, <2>1, <2>2, HandshakeMoves DEF Awaited, IInv, TypeOK
  <2>4. OpeningsSuffice' BY <1>2, <1>5, HandshakeMoves, SufficeStays
  <2>5. QED BY <2>3, <2>4
<1>6. CASE \/ \E o \in Openings : SweepInteraction(o)
           \/ SweepConversation \/ WindowEnds \/ Release \/ ReleaseEnds
           \/ UNCHANGED vars
  <2>1. UNCHANGED <<pc, reopened, session, opening, contract>> BY <1>6, RestStays
  <2>2. Awaited' BY <2>1 DEF Awaited
  <2>3. \A o \in Openings : opening'[o] = "unused" <=> opening[o] = "unused" BY <2>1
  <2>4. OpeningsSuffice' BY <1>2, <2>3, SufficeStays
  <2>5. QED BY <1>1, <2>2, <2>4
<1>7. QED BY <1>1, <1>3, <1>4, <1>5, <1>6 DEF Next

\* A call that awaits a probe or a handshake awaits one that can still be
\* answered, whatever was swept, dropped or forgotten meanwhile, and the bound on
\* the openings is never what stops a call (ensureSession, withManagedLifecycle).
THEOREM WaitsAreAnswered == Spec => []NobodyWaitsInVain
<1>1. Init => WaitInv BY InitWaits
<1>2. WaitInv /\ [Next]_vars => WaitInv' BY NextWaits
<1>3. WaitInv => NobodyWaitsInVain
  <2> SUFFICES ASSUME WaitInv, NEW c \in Calls
               PROVE  /\ pc[c] = "open" /\ cached = 0 =>
                           \E o \in Openings : /\ opening[o] = "unused"
                                               /\ \A n \in 1 .. o - 1 : opening[n] # "unused"
                      /\ StepsLeft(c) \in 0 .. 12
                      /\ StepsLeft(c) = 0 <=> pc[c] = "done"
    BY DEF NobodyWaitsInVain, WaitInv, Awaited
  <2>1. StepsLeft(c) \in 0 .. 12 /\ (StepsLeft(c) = 0 <=> pc[c] = "done")
    BY OrderFacts DEF WaitInv, IInv, TypeOK, StepsLeft
  <2>2. ASSUME pc[c] = "open"
        PROVE  \E o \in Openings : opening[o] = "unused" /\ \A n \in 1 .. o - 1 : opening[n] # "unused"
    <3>1. PICK k \in Nat : TakenUpTo(k) BY DEF WaitInv, OpeningsSuffice
    <3>2. k + 1 \in Openings /\ opening[k + 1] = "unused"
      BY <2>2, <3>1, OpeningIsLeft DEF WaitInv
    <3>3. Cardinality(Calls) \in Nat BY CallsAssumption, FS_CardinalityType
    <3>4. \A n \in 1 .. k : n \in Openings BY <3>1, <3>3 DEF Openings, TakenUpTo
    <3>5. \A n \in 1 .. (k + 1) - 1 : opening[n] # "unused" BY <3>1, <3>4 DEF TakenUpTo
    <3>6. QED BY <3>2, <3>5
  <2>3. QED BY <2>1, <2>2
<1>4. QED BY <1>1, <1>2, <1>3, PTL DEF Spec

\* Every step of a call and of a handshake brings it nearer to its end, and no
\* sweep, failure or other call sets it back: with the steps that CallsEnd assumes
\* to be taken, a call ends (withManagedLifecycle reopens once).
THEOREM StepsDwindle == Spec => Dwindle
<1> DEFINE Falls ==
      /\ \A c \in Calls : StepsLeft(c)' <= StepsLeft(c) /\ (Step(c) => StepsLeft(c)' < StepsLeft(c))
      /\ \A o \in Openings : /\ HandshakeLeft(o)' <= HandshakeLeft(o)
                             /\ Handshake(o) => HandshakeLeft(o)' < HandshakeLeft(o)
      /\ ProbeAnswered \/ ProbeFails => \A c \in Waiting : StepsLeft(c)' < StepsLeft(c)
<1>1. IInv /\ IInv' /\ [Next]_vars => [Falls]_vars
  <2> SUFFICES ASSUME IInv, IInv', Next PROVE Falls
    OBVIOUS
  <2>1. \A c \in Calls : StepsLeft(c)' <= StepsLeft(c) BY EveryCallMoves, MoveFalls
  <2>2. \A c \in Calls : Step(c) => StepsLeft(c)' < StepsLeft(c) BY StepMoves, MoveFalls
  <2>3. ProbeAnswered \/ ProbeFails => \A c \in Waiting : StepsLeft(c)' < StepsLeft(c)
    BY ProbeMoves, MoveFalls DEF Waiting
  <2>4. \A o \in Openings : Handshake(o) => HandshakeLeft(o)' < HandshakeLeft(o)
    BY HandshakeMoves
  <2>5. ASSUME NEW o \in Openings PROVE HandshakeLeft(o)' <= HandshakeLeft(o)
    <3>1. HandshakeLeft(o) \in 0 .. 3 /\ HandshakeLeft(o)' \in 0 .. 3 BY DEF HandshakeLeft
    <3>2. ASSUME opening' = opening PROVE HandshakeLeft(o)' <= HandshakeLeft(o)
      BY <3>1, <3>2 DEF HandshakeLeft
    <3>3. ASSUME NEW n \in Openings, Handshake(n) PROVE HandshakeLeft(o)' <= HandshakeLeft(o)
      <4>1. CASE n = o BY <3>1, <3>3, <4>1, HandshakeMoves
      <4>2. CASE n # o
        <5>1. opening'[o] = opening[o] BY <3>3, <4>2, HandshakeMoves
        <5>2. QED BY <3>1, <5>1 DEF HandshakeLeft
      <4>3. QED BY <4>1, <4>2
    <3>4. ASSUME NEW c \in Calls, Open(c) PROVE HandshakeLeft(o)' <= HandshakeLeft(o)
      <4>1. opening'[o] = opening[o] \/ opening[o] = "unused"
        BY <3>4 DEF Open, openVars, IInv, TypeOK
      <4>2. QED BY <3>1, <4>1 DEF HandshakeLeft
    <3>5. ASSUME NEW c \in Calls, Step(c) PROVE HandshakeLeft(o)' <= HandshakeLeft(o)
      BY <3>2, <3>4, <3>5 DEF Step, Ask, SendAnswered, SendStale, SendFails, openVars
    <3>6. CASE ProbeAnswered \/ ProbeFails BY <3>2, <3>6 DEF ProbeAnswered, ProbeFails, openVars
    <3>7. QED BY <3>2, <3>3, <3>5, <3>6, RestStays DEF Next
  <2>6. QED BY <2>1, <2>2, <2>3, <2>4, <2>5
<1>2. Spec => [][Falls]_vars BY <1>1, Invariance, PTL DEF Spec
<1>3. QED BY <1>2 DEF Dwindle
=============================================================================
