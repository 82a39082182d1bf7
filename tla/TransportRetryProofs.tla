-------------------------- MODULE TransportRetryProofs --------------------------
(***************************************************************************)
(* Proofs about TransportRetry for every set of calls, every mix of kinds  *)
(* and every number of retries.  One inductive invariant, IInv, carries    *)
(* the type invariant and the four safety properties.  The last part is    *)
(* about what a call has left to do.                                       *)
(***************************************************************************)
EXTENDS TransportRetry, Integers, TLAPS

Ended == {"done", "failed"}

\* The write of a call arrives only in the step that ends the call.
ArrivesAtEnd ==
  \A c \in Calls : arrived[c] \in 0..1 /\ (arrived[c] = 1 => pc[c] \in Ended)

\* Whoever may send has a passed check behind it.
PassedFirst ==
  /\ verified => passed
  /\ \A c \in Calls : pc[c] = "send" /\ kind[c] # "version" => passed

\* The check that is registered is the one that runs.
CheckIsKnown == \A c \in Calls : pc[c] = "check" <=> verifying = c

IInv ==
  /\ TypeOK
  /\ ArrivesAtEnd
  /\ PassedFirst
  /\ SentOnlyVerified
  /\ CheckIsKnown
  /\ SessionAnnounced

\* The steps of tlsFetch that send a message leave the kinds and the version
\* state alone.
Sends(c) ==
  Refused(c) \/ Blip(c) \/ Fails(c) \/ SendAborted(c) \/ Unauthorized(c) \/ Answered(c)

\* The other steps of a call, and those of its environment, send nothing.
Others(c) ==
  \/ Start(c) \/ GateRefuses(c) \/ GatePasses(c) \/ GateJoins(c) \/ GateChecks(c)
  \/ CheckPasses(c) \/ CheckFails(c) \/ CheckRetries(c) \/ Abort(c)

Labels == {"idle", "gate", "wait", "check", "send", "done", "failed"}

\* What ends a call, or goes on to its next step, keeps the shape of its
\* variables (End, Goto).
LEMMA EndTypes ==
  ASSUME TypeOK, NEW c \in Calls, NEW label \in Labels, End(c, label)
  PROVE  /\ pc' = [pc EXCEPT ![c] = label] /\ pc' \in [Calls -> Labels]
         /\ message' \in [Calls -> Messages]
         /\ attempt' \in [Calls -> 1..(Retries + 1)]
         /\ resent' \in [Calls -> BOOLEAN] /\ aborted' \in [Calls -> BOOLEAN]
  BY TransportAssumption DEF TypeOK, End, Goto, Labels, Messages

\* What a send does to the history variables: a write arrives at most once, and
\* only a call that is held back counts as having sent (Sending).
LEMMA SendingHistory ==
  ASSUME IInv, NEW c \in Calls, NEW n \in 0..1, Sending(c, n)
  PROVE  /\ pc[c] = "send"
         /\ arrived' \in [Calls -> 0..1]
         /\ \A d \in Calls : d # c => arrived'[d] = arrived[d]
         /\ arrived'[c] = 1 => ~Idempotent(c) /\ n = 1 /\ message[c] \in {"request", "call"}
         /\ sent' \in BOOLEAN
         /\ sent' => passed
<1>1. pc[c] = "send" /\ arrived[c] = 0 /\ arrived \in [Calls -> 0..1]
  BY DEF Sending, IInv, TypeOK, ArrivesAtEnd, Ended
<1>2. /\ arrived' \in [Calls -> 0..1]
      /\ \A d \in Calls : d # c => arrived'[d] = arrived[d]
      /\ arrived'[c] = 1 => ~Idempotent(c) /\ n = 1 /\ message[c] \in {"request", "call"}
  BY <1>1 DEF Sending
<1>3. sent' \in BOOLEAN /\ (sent' => passed)
  BY <1>1 DEF Sending, IInv, TypeOK, PassedFirst, SentOnlyVerified
<1>4. QED BY <1>1, <1>2, <1>3

\* The retry counter of tlsFetch stays within its delays (canRetry).
LEMMA RetryTypes ==
  ASSUME TypeOK, NEW c \in Calls, CanRetry(c), TryAgain(c)
  PROVE  /\ attempt' \in [Calls -> 1..(Retries + 1)]
         /\ UNCHANGED <<pc, message, resent, aborted>>
  BY TransportAssumption DEF TypeOK, CanRetry, TryAgain, NextAttempt

\* A step that sends keeps the invariant if it leaves the version state alone,
\* keeps the shapes, moves only its call, to no check, and ends it when its
\* write may have arrived.
LEMMA SendKeeps ==
  ASSUME IInv, NEW c \in Calls, NEW n \in 0..1, Sending(c, n),
         UNCHANGED <<kind, caching, checkVars>>,
         NEW label \in Labels \ {"check"},
         pc' = [pc EXCEPT ![c] = label],
         message' \in [Calls -> Messages],
         attempt' \in [Calls -> 1..(Retries + 1)],
         resent' \in [Calls -> BOOLEAN], aborted' \in [Calls -> BOOLEAN],
         session' \in BOOLEAN, announced' \in BOOLEAN, session' => announced',
         arrived'[c] = 1 => label \in Ended
  PROVE  IInv'
<1>1. /\ pc[c] = "send"
      /\ arrived' \in [Calls -> 0..1]
      /\ \A d \in Calls : d # c => arrived'[d] = arrived[d]
      /\ sent' \in BOOLEAN /\ (sent' => passed)
  BY SendingHistory
<1>2. pc' \in [Calls -> Labels] /\ pc'[c] = label
      /\ \A d \in Calls : d # c => pc'[d] = pc[d]
  BY DEF IInv, TypeOK, Labels
<1>3. TypeOK'
  <2>1. arrived' \in [Calls -> 0..(2 * (Retries + 1))]
    BY <1>1, TransportAssumption
  <2>2. QED
    BY <1>1, <1>2, <2>1 DEF IInv, TypeOK, checkVars, Labels
<1>4. ArrivesAtEnd'
  BY <1>1, <1>2 DEF IInv, ArrivesAtEnd
<1>5. PassedFirst' /\ SentOnlyVerified' /\ SessionAnnounced'
  BY <1>1, <1>2 DEF IInv, PassedFirst, SentOnlyVerified, SessionAnnounced, checkVars
<1>6. CheckIsKnown'
  BY <1>1, <1>2 DEF IInv, CheckIsKnown, checkVars
<1>7. QED BY <1>3, <1>4, <1>5, <1>6 DEF IInv

\* The steps that send keep the invariant, one step of the proof per action.
LEMMA SendsKeep == ASSUME IInv, NEW c \in Calls, Sends(c) PROVE IInv'
<1> USE DEF IInv
<1>1. CASE Refused(c)
  <2>1. Sending(c, 0) /\ UNCHANGED <<kind, caching, checkVars, sessionVars>>
    BY <1>1 DEF Refused
  <2>2. pc[c] = "send" /\ arrived'[c] # 1
    BY <2>1, SendingHistory
  <2>3. CASE CanRetry(c)
    BY <1>1, <2>1, <2>2, <2>3, RetryTypes, SendKeeps
    DEF Refused, TypeOK, Labels, sessionVars, SessionAnnounced
  <2>4. CASE ~CanRetry(c)
    <3>1. End(c, "failed") BY <1>1, <2>4 DEF Refused
    <3>2. QED
      BY <2>1, <2>2, <3>1, EndTypes, SendKeeps
      DEF TypeOK, Labels, Ended, sessionVars, SessionAnnounced
  <2>5. QED BY <2>3, <2>4
<1>2. CASE Blip(c)
  <2>1. PICK n \in 0..1 : Sending(c, n)
    BY <1>2 DEF Blip
  <2>2. UNCHANGED <<kind, caching, checkVars, sessionVars>>
    BY <1>2 DEF Blip
  <2>3. CASE MayRepeat(c) /\ CanRetry(c) /\ TryAgain(c)
    <3>1. pc[c] = "send" /\ arrived'[c] # 1
      BY <2>1, <2>3, SendingHistory DEF MayRepeat
    <3>2. QED
      BY <2>1, <2>2, <2>3, <3>1, RetryTypes, SendKeeps
      DEF TypeOK, Labels, sessionVars, SessionAnnounced
  <2>4. CASE End(c, "failed")
    BY <2>1, <2>2, <2>4, EndTypes, SendKeeps
    DEF TypeOK, Labels, Ended, sessionVars, SessionAnnounced
  <2>5. QED BY <1>2, <2>3, <2>4 DEF Blip
<1>3. CASE Fails(c)
  <2>1. PICK n \in 0..1 : Sending(c, n)
    BY <1>3 DEF Fails
  <2>2. QED
    BY <1>3, <2>1, EndTypes, SendKeeps
    DEF Fails, TypeOK, Labels, Ended, sessionVars, SessionAnnounced
<1>4. CASE SendAborted(c)
  <2>1. pc[c] = "send" /\ End(c, "failed")
        /\ UNCHANGED <<kind, caching, checkVars, sessionVars, arrived, sent>>
    BY <1>4 DEF SendAborted
  <2>2. TypeOK' BY <2>1, EndTypes DEF TypeOK, Labels, checkVars, sessionVars
  <2>3. ArrivesAtEnd' BY <2>1, EndTypes DEF TypeOK, Labels, ArrivesAtEnd, Ended
  <2>4. PassedFirst' /\ SentOnlyVerified' /\ CheckIsKnown' /\ SessionAnnounced'
    BY <2>1, EndTypes
    DEF TypeOK, Labels, PassedFirst, SentOnlyVerified, CheckIsKnown, SessionAnnounced,
        checkVars, sessionVars
  <2>5. QED BY <2>2, <2>3, <2>4
<1>5. CASE Unauthorized(c)
  <2>1. Sending(c, 0) /\ UNCHANGED <<kind, caching, checkVars, sessionVars>>
    BY <1>5 DEF Unauthorized
  <2>2. pc[c] = "send" /\ arrived'[c] # 1
    BY <2>1, SendingHistory
  <2>3. CASE MayResend(c)
    <3>1. /\ attempt' \in [Calls -> 1..(Retries + 1)]
          /\ resent' \in [Calls -> BOOLEAN]
          /\ UNCHANGED <<pc, message, aborted>>
      <4>1. 1 \in 1..(Retries + 1) BY TransportAssumption
      <4>2. QED BY <1>5, <2>3, <4>1 DEF Unauthorized, TypeOK
    <3>2. QED
      BY <2>1, <2>2, <3>1, SendKeeps
      DEF TypeOK, Labels, sessionVars, SessionAnnounced
  <2>4. CASE ~MayResend(c)
    <3>1. End(c, "failed") BY <1>5, <2>4 DEF Unauthorized
    <3>2. QED
      BY <2>1, <2>2, <3>1, EndTypes, SendKeeps
      DEF TypeOK, Labels, Ended, sessionVars, SessionAnnounced
  <2>5. QED BY <2>3, <2>4
<1>6. CASE Answered(c)
  <2>1. Sending(c, 1) /\ UNCHANGED <<kind, caching, checkVars>>
    BY <1>6 DEF Answered
  <2>2. session' \in BOOLEAN /\ announced' \in BOOLEAN /\ (session' => announced')
    BY <1>6 DEF Answered, SessionAfter, sessionVars, SessionAnnounced, TypeOK
  <2>3. CASE message[c] \in {"request", "call"}
    <3>1. End(c, "done") BY <1>6, <2>3 DEF Answered
    <3>2. QED
      BY <2>1, <2>2, <3>1, EndTypes, SendKeeps DEF Labels, Ended
  <2>4. CASE message[c] \notin {"request", "call"}
    <3>1. arrived'[c] # 1 BY <2>1, <2>4, SendingHistory
    <3>2. /\ pc' = [pc EXCEPT ![c] = "gate"]
          /\ message' \in [Calls -> Messages]
          /\ UNCHANGED <<attempt, resent, aborted>>
      BY <1>6, <2>4 DEF Answered, Goto, Following, Messages, TypeOK
    <3>3. /\ attempt' \in [Calls -> 1..(Retries + 1)]
          /\ resent' \in [Calls -> BOOLEAN] /\ aborted' \in [Calls -> BOOLEAN]
      BY <3>2 DEF TypeOK
    <3>4. "gate" \in Labels \ {"check"} /\ 1 \in 0..1 BY DEF Labels
    <3>5. IInv BY DEF IInv
    <3>6. QED
      <4> HIDE DEF IInv
      <4>1. QED BY <2>1, <2>2, <3>1, <3>2, <3>3, <3>4, <3>5, SendKeeps
  <2>5. QED BY <2>3, <2>4
<1>7. QED BY <1>1, <1>2, <1>3, <1>4, <1>5, <1>6 DEF Sends

\* A step that sends nothing keeps the invariant if it keeps the shapes, moves
\* no call on after its write arrived, and lets nobody send or check unnoticed.
LEMMA QuietKeeps ==
  ASSUME IInv, UNCHANGED <<kind, caching, arrived, sent>>,
         cache' \in BOOLEAN, verified' \in BOOLEAN, passed' \in BOOLEAN,
         verifying' \in Calls \cup {None},
         pc' \in [Calls -> Labels], message' \in [Calls -> Messages],
         attempt' \in [Calls -> 1..(Retries + 1)],
         resent' \in [Calls -> BOOLEAN], aborted' \in [Calls -> BOOLEAN],
         session' \in BOOLEAN, announced' \in BOOLEAN, session' => announced',
         \A d \in Calls : pc[d] \in Ended => pc'[d] = pc[d],
         passed => passed', PassedFirst', CheckIsKnown'
  PROVE  IInv'
<1>1. TypeOK' BY DEF IInv, TypeOK, Labels
<1>2. ArrivesAtEnd'
  <2> SUFFICES ASSUME NEW d \in Calls
               PROVE  arrived'[d] \in 0..1 /\ (arrived'[d] = 1 => pc'[d] \in Ended)
    BY DEF ArrivesAtEnd
  <2>1. QED BY DEF IInv, ArrivesAtEnd
<1>3. SentOnlyVerified' /\ SessionAnnounced'
  BY DEF IInv, SentOnlyVerified, SessionAnnounced
<1>4. QED BY <1>1, <1>2, <1>3 DEF IInv

\* The steps that send nothing keep the invariant.
LEMMA OthersKeep == ASSUME IInv, NEW c \in Calls, Others(c) PROVE IInv'
<1> USE DEF IInv, Ended
<1>0. 1 \in 1..(Retries + 1) BY TransportAssumption
<1>a. (session => announced) /\ None \notin Calls
  BY TransportAssumption DEF SessionAnnounced
<1>1. CASE Start(c)
  <2>1. PassedFirst' /\ CheckIsKnown'
    BY <1>1 DEF Start, Goto, TypeOK, Labels, PassedFirst, CheckIsKnown, checkVars
  <2>2. message' \in [Calls -> Messages] BY <1>1 DEF Start, TypeOK, Messages
  <2>3. pc' \in [Calls -> Labels] /\ \A d \in Calls : pc[d] \in Ended => pc'[d] = pc[d]
    BY <1>1 DEF Start, Goto, TypeOK, Labels
  <2>4. QED
    BY <1>1, <1>a, <2>1, <2>2, <2>3, QuietKeeps DEF Start, TypeOK, checkVars, sessionVars
<1>2. CASE GateRefuses(c)
  <2>1. pc[c] = "gate" /\ End(c, "failed")
        /\ UNCHANGED <<kind, caching, checkVars, sessionVars, arrived, sent>>
    BY <1>2 DEF GateRefuses
  <2>2. PassedFirst' /\ CheckIsKnown'
    BY <2>1, EndTypes DEF TypeOK, Labels, PassedFirst, CheckIsKnown, checkVars
  <2>3. \A d \in Calls : pc[d] \in Ended => pc'[d] = pc[d]
    BY <2>1, EndTypes DEF TypeOK, Labels
  <2>4. "failed" \in Labels BY DEF Labels
  <2>5. QED
    BY <1>a, <2>1, <2>2, <2>3, <2>4, EndTypes, QuietKeeps DEF TypeOK, checkVars, sessionVars
<1>3. CASE GatePasses(c)
  <2>1. PassedFirst' /\ CheckIsKnown'
    BY <1>3 DEF GatePasses, AtGate, Goto, TypeOK, Labels, PassedFirst, CheckIsKnown, checkVars
  <2>2. pc' \in [Calls -> Labels] /\ \A d \in Calls : pc[d] \in Ended => pc'[d] = pc[d]
    BY <1>3 DEF GatePasses, AtGate, Goto, TypeOK, Labels
  <2>3. attempt' \in [Calls -> 1..(Retries + 1)] /\ resent' \in [Calls -> BOOLEAN]
    BY <1>0, <1>3 DEF GatePasses, TypeOK
  <2>4. QED
    BY <1>3, <1>a, <2>1, <2>2, <2>3, QuietKeeps DEF GatePasses, TypeOK, checkVars, sessionVars
<1>4. CASE GateJoins(c)
  <2>1. PassedFirst' /\ CheckIsKnown'
    BY <1>4
    DEF GateJoins, AtGate, Joined, Goto, TypeOK, Labels, PassedFirst, CheckIsKnown, checkVars
  <2>2. pc' \in [Calls -> Labels] /\ \A d \in Calls : pc[d] \in Ended => pc'[d] = pc[d]
    BY <1>4 DEF GateJoins, AtGate, Joined, Goto, TypeOK, Labels
  <2>3. attempt' \in [Calls -> 1..(Retries + 1)] /\ resent' \in [Calls -> BOOLEAN]
    BY <1>0, <1>4 DEF GateJoins, TypeOK
  <2>4. QED
    BY <1>4, <1>a, <2>1, <2>2, <2>3, QuietKeeps DEF GateJoins, TypeOK, checkVars, sessionVars
<1>5. CASE GateChecks(c)
  <2>1. attempt' \in [Calls -> 1..(Retries + 1)] /\ resent' \in [Calls -> BOOLEAN]
    BY <1>0, <1>5 DEF GateChecks, TypeOK
  <2>2. CASE caching /\ cache
    <3>1. verified' = TRUE /\ passed' = TRUE /\ pc' = [pc EXCEPT ![c] = "send"]
          /\ pc[c] = "gate" /\ verifying' = verifying
      BY <1>5, <2>2 DEF GateChecks, AtGate, Goto
    <3>2. PassedFirst' /\ CheckIsKnown'
      BY <3>1 DEF TypeOK, Labels, PassedFirst, CheckIsKnown
    <3>3. pc' \in [Calls -> Labels] /\ \A d \in Calls : pc[d] \in Ended => pc'[d] = pc[d]
      BY <3>1 DEF TypeOK, Labels
    <3>4. QED
      BY <1>5, <1>a, <2>1, <3>1, <3>2, <3>3, QuietKeeps DEF GateChecks, TypeOK, sessionVars
  <2>3. CASE ~(caching /\ cache)
    <3>1. /\ verifying' = c /\ verifying = None /\ pc' = [pc EXCEPT ![c] = "check"]
          /\ pc[c] = "gate" /\ UNCHANGED <<verified, passed>>
      BY <1>5, <2>3 DEF GateChecks, AtGate, Goto, Registered
    <3>2. PassedFirst' BY <1>5, <3>1 DEF GateChecks, TypeOK, Labels, PassedFirst
    <3>3. CheckIsKnown' BY <1>a, <3>1 DEF TypeOK, Labels, CheckIsKnown
    <3>4. pc' \in [Calls -> Labels] /\ \A d \in Calls : pc[d] \in Ended => pc'[d] = pc[d]
      BY <3>1 DEF TypeOK, Labels
    <3>5. QED
      BY <1>5, <1>a, <2>1, <3>1, <3>2, <3>3, <3>4, QuietKeeps DEF GateChecks, TypeOK, sessionVars
  <2>4. QED BY <2>2, <2>3
<1>6. CASE CheckPasses(c)
  <2>1. verified' = TRUE /\ passed' = TRUE /\ verifying' = None /\ pc[c] = "check"
    BY <1>6 DEF CheckPasses
  <2>2. pc' = [d \in Calls |-> IF d = c \/ pc[d] = "wait" THEN "send" ELSE pc[d]]
    BY <1>6 DEF CheckPasses, Settled
  <2>3. PassedFirst' BY <2>1 DEF PassedFirst
  <2>4. CheckIsKnown' BY <1>a, <2>1, <2>2 DEF CheckIsKnown
  <2>5. pc' \in [Calls -> Labels] /\ \A d \in Calls : pc[d] \in Ended => pc'[d] = pc[d]
    BY <2>1, <2>2 DEF TypeOK, Labels
  <2>6. attempt' \in [Calls -> 1..(Retries + 1)] /\ cache' \in BOOLEAN
    BY <1>0, <1>6 DEF CheckPasses, TypeOK
  <2>7. QED
    BY <1>6, <1>a, <2>1, <2>3, <2>4, <2>5, <2>6, QuietKeeps
    DEF CheckPasses, TypeOK, sessionVars
<1>7. CASE CheckFails(c)
  <2>1. verifying' = None /\ pc[c] = "check" /\ UNCHANGED <<kind, verified, passed>>
    BY <1>7 DEF CheckFails
  <2>2. pc' = [d \in Calls |-> IF d = c \/ pc[d] = "wait" THEN "failed" ELSE pc[d]]
    BY <1>7 DEF CheckFails, Settled
  <2>3. PassedFirst' BY <2>1, <2>2 DEF PassedFirst
  <2>4. CheckIsKnown' BY <1>a, <2>1, <2>2 DEF CheckIsKnown
  <2>5. pc' \in [Calls -> Labels] /\ \A d \in Calls : pc[d] \in Ended => pc'[d] = pc[d]
    BY <2>1, <2>2 DEF TypeOK, Labels
  <2>6. attempt' \in [Calls -> 1..(Retries + 1)]
    BY <1>0, <1>7 DEF CheckFails, TypeOK
  <2>7. aborted' \in [Calls -> BOOLEAN]
    <3>1. aborted' = [d \in Calls |-> aborted[d] /\ pc'[d] # "failed"]
      BY <1>7 DEF CheckFails
    <3>2. QED BY <3>1, Zenon
  <2>8. QED
    BY <1>7, <1>a, <2>1, <2>3, <2>4, <2>5, <2>6, <2>7, QuietKeeps
    DEF CheckFails, TypeOK, sessionVars
<1>8. CASE CheckRetries(c)
  <2>1. attempt' \in [Calls -> 1..(Retries + 1)]
    BY <1>8, TransportAssumption DEF CheckRetries, NextAttempt, TypeOK
  <2>2. PassedFirst' /\ CheckIsKnown'
    BY <1>8 DEF CheckRetries, PassedFirst, CheckIsKnown, checkVars
  <2>3. QED
    BY <1>8, <1>a, <2>1, <2>2, QuietKeeps DEF CheckRetries, TypeOK, Labels, checkVars, sessionVars
<1>9. CASE Abort(c)
  <2>1. aborted' \in [Calls -> BOOLEAN] BY <1>9 DEF Abort, TypeOK
  <2>2. PassedFirst' /\ CheckIsKnown'
    BY <1>9 DEF Abort, PassedFirst, CheckIsKnown, checkVars
  <2>3. QED
    BY <1>9, <1>a, <2>1, <2>2, QuietKeeps DEF Abort, TypeOK, Labels, checkVars, sessionVars
<1>10. QED BY <1>1, <1>2, <1>3, <1>4, <1>5, <1>6, <1>7, <1>8, <1>9 DEF Others

\* Time keeps the invariant.
LEMMA AgingKeeps == ASSUME IInv, CacheAges \/ SessionAges PROVE IInv'
<1> USE DEF IInv
<1>1. CASE CacheAges
  <2>1. PassedFirst' /\ CheckIsKnown' BY <1>1 DEF CacheAges, PassedFirst, CheckIsKnown
  <2>2. QED
    BY <1>1, <2>1, QuietKeeps DEF CacheAges, TypeOK, Labels, sessionVars, SessionAnnounced
<1>2. CASE SessionAges
  <2>1. PassedFirst' /\ CheckIsKnown'
    BY <1>2 DEF SessionAges, PassedFirst, CheckIsKnown, checkVars
  <2>2. QED BY <1>2, <2>1, QuietKeeps DEF SessionAges, TypeOK, Labels, checkVars
<1>3. QED BY <1>1, <1>2

\* The invariant holds at the start.
LEMMA InitIInv == Init => IInv
<1> SUFFICES ASSUME Init PROVE IInv OBVIOUS
<1>1. caching \in BOOLEAN /\ cache \in BOOLEAN
  BY TransportAssumption DEF Init
<1>2. kind \in [Calls -> CallKinds] BY TransportAssumption DEF Init
<1>3. attempt \in [Calls -> 1..(Retries + 1)] /\ arrived \in [Calls -> 0..(2 * (Retries + 1))]
  BY TransportAssumption DEF Init
<1>4. TypeOK BY <1>1, <1>2, <1>3 DEF Init, TypeOK, Messages
<1>5. ArrivesAtEnd /\ PassedFirst /\ SentOnlyVerified /\ CheckIsKnown /\ SessionAnnounced
  BY TransportAssumption
  DEF Init, ArrivesAtEnd, PassedFirst, SentOnlyVerified, CheckIsKnown, SessionAnnounced
<1>6. QED BY <1>4, <1>5 DEF IInv

\* Every step keeps the invariant.
LEMMA NextIInv == IInv /\ [Next]_vars => IInv'
<1> SUFFICES ASSUME IInv, [Next]_vars PROVE IInv' OBVIOUS
<1>1. CASE Next
  <2>1. ASSUME NEW c \in Calls, Step(c) \/ Abort(c) PROVE IInv'
    BY <2>1, SendsKeep, OthersKeep DEF Step, Sends, Others
  <2>2. QED BY <1>1, <2>1, AgingKeeps DEF Next
<1>2. CASE UNCHANGED vars
  <2>1. PassedFirst' /\ CheckIsKnown'
    BY <1>2 DEF IInv, vars, PassedFirst, CheckIsKnown, checkVars
  <2>2. QED
    BY <1>2, <2>1, QuietKeeps
    DEF IInv, vars, TypeOK, Labels, checkVars, sessionVars, SessionAnnounced
<1>3. QED BY <1>1, <1>2

\* The inductive invariant holds throughout.
THEOREM Invariance == Spec => []IInv
<1>1. QED BY InitIInv, NextIInv, PTL DEF Spec

\* The counters of the retry loops stay within what the code allows.
THEOREM TypeCorrect == Spec => []TypeOK
<1>1. IInv => TypeOK BY DEF IInv
<1>2. QED BY <1>1, Invariance, PTL

\* A write reaches the platform at most once per call (tlsFetch, authFetch).
THEOREM WritesOnce == Spec => []WriteArrivesOnce
<1>1. IInv => WriteArrivesOnce
  <2>1. \A n \in 0..1 : n <= 1 OBVIOUS
  <2>2. QED BY <2>1 DEF IInv, ArrivesAtEnd, WriteArrivesOnce
<1>2. QED BY <1>1, Invariance, PTL

\* Nothing is sent before a version check has passed (ensureCompatible).
THEOREM VerifiedFirst == Spec => []SentOnlyVerified
<1>1. IInv => SentOnlyVerified BY DEF IInv
<1>2. QED BY <1>1, Invariance, PTL

\* At most one version check runs, and the one waited for runs (ensureCompatible).
THEOREM OneCheck == Spec => []ChecksShared
<1>1. IInv => ChecksShared
  BY TransportAssumption DEF IInv, TypeOK, CheckIsKnown, ChecksShared
<1>2. QED BY <1>1, Invariance, PTL

\* A cached MCP session was announced to the server (ensureSession).
THEOREM Announced == Spec => []SessionAnnounced
<1>1. IInv => SessionAnnounced BY DEF IInv
<1>2. QED BY <1>1, Invariance, PTL

--------------------------------------------------------------------------------
\* What is left of a call

\* The attempts of one tlsFetch, and one more.
Width == Retries + 2

\* The messages of ensureSession before the call's own, each with a version
\* check, its retries, and the retries of its one resend.
Ahead(c) ==
  CASE pc[c] = "idle" -> 3 * (3 * Width + 2)
    [] pc[c] # "idle" /\ message[c] = "initialize" -> 2 * (3 * Width + 2)
    [] pc[c] # "idle" /\ message[c] = "initialized" -> 3 * Width + 2
    [] OTHER -> 0

\* The steps the message on its way has left.
InMessage(c) ==
  CASE pc[c] = "gate" -> 3 * Width + 1
    [] pc[c] = "check" -> 3 * Width - attempt[c]
    [] pc[c] = "wait" -> 2 * Width
    [] pc[c] = "send" -> (IF resent[c] THEN Width ELSE 2 * Width) - attempt[c]
    [] OTHER -> 0

\* How many steps a call has left at most.
StepsLeft(c) == IF pc[c] \in Ended THEN 0 ELSE Ahead(c) + InMessage(c)

\* A call that waits for a check waits for one that runs, no call takes more than
\* a fixed number of steps, and only one that is over has none left.
NobodyWaitsInVain ==
  \A c \in Calls :
    /\ pc[c] = "wait" => verifying # None /\ pc[verifying] = "check"
    /\ StepsLeft(c) \in 0 .. (9 * Retries + 24)
    /\ StepsLeft(c) = 0 <=> pc[c] \in Ended

\* No other call, abort or passing of time gives a call more to do; its own step
\* leaves it less, and so does the end of the check it waits for.
Dwindle ==
  [][\A c \in Calls :
       /\ StepsLeft(c)' <= StepsLeft(c)
       /\ Step(c) => StepsLeft(c)' < StepsLeft(c)
       /\ pc[c] = "wait" /\ verifying # None /\ verifying' = None =>
            StepsLeft(c)' < StepsLeft(c)]_vars

\* What StepsLeft ranges over.
LEMMA LeftTypes ==
  ASSUME TypeOK, NEW c \in Calls
  PROVE  /\ attempt[c] \in 1..(Retries + 1) /\ Retries \in Nat
         /\ StepsLeft(c) \in 0 .. (9 * Retries + 24)
         /\ StepsLeft(c) = 0 <=> pc[c] \in Ended
<1>1. attempt[c] \in 1..(Retries + 1) /\ Retries \in Nat BY TransportAssumption DEF TypeOK
<1>2. /\ pc[c] \in {"idle", "gate", "wait", "check", "send", "done", "failed"}
      /\ message[c] \in Messages
  BY DEF TypeOK
<1>3. QED BY <1>1, <1>2 DEF StepsLeft, Ahead, InMessage, Width, Ended, Messages

\* A call that is left alone has as much left as before.
LEMMA LeftAlone ==
  ASSUME NEW c \in Calls, pc'[c] = pc[c], message'[c] = message[c], attempt'[c] = attempt[c],
         resent'[c] = resent[c]
  PROVE  StepsLeft(c)' = StepsLeft(c)
  BY DEF StepsLeft, Ahead, InMessage

\* A call that ends had something left.
LEMMA EndFalls ==
  ASSUME TypeOK, TypeOK', NEW c \in Calls, pc[c] \notin Ended, pc'[c] \in Ended
  PROVE  StepsLeft(c)' < StepsLeft(c)
<1>1. StepsLeft(c)' = 0 BY DEF StepsLeft
<1>2. StepsLeft(c) \in 0 .. (9 * Retries + 24) /\ StepsLeft(c) # 0 BY LeftTypes
<1>3. Retries \in Nat BY TransportAssumption
<1>4. QED BY <1>1, <1>2, <1>3

\* A message that is sent once more, after a blip or after a 401.
LEMMA RepeatFalls ==
  ASSUME TypeOK, TypeOK', NEW c \in Calls, pc'[c] = pc[c], message'[c] = message[c],
         \/ /\ pc[c] \in {"send", "check"} /\ attempt'[c] = attempt[c] + 1
            /\ resent'[c] = resent[c]
         \/ pc[c] = "send" /\ attempt'[c] = 1 /\ ~resent[c] /\ resent'[c]
  PROVE  StepsLeft(c)' < StepsLeft(c)
<1>1. /\ attempt[c] \in 1..(Retries + 1) /\ attempt'[c] \in 1..(Retries + 1)
      /\ Retries \in Nat /\ message[c] \in Messages
  BY TransportAssumption DEF TypeOK
<1>2. QED BY <1>1 DEF StepsLeft, Ahead, InMessage, Width, Ended, Messages

\* Every step of a call leaves it less, and no other call more.
LEMMA SendsFall ==
  ASSUME TypeOK, TypeOK', NEW c \in Calls, Sends(c)
  PROVE  /\ StepsLeft(c)' < StepsLeft(c)
         /\ \A d \in Calls : d # c => StepsLeft(d)' = StepsLeft(d)
<1>1. pc[c] = "send" BY DEF Sends, Refused, Blip, Fails, SendAborted, Unauthorized, Answered, Sending
<1>2. ASSUME NEW label \in {"done", "failed"}, End(c, label) PROVE StepsLeft(c)' < StepsLeft(c)
  <2>1. pc'[c] = label BY <1>2 DEF End, Goto, TypeOK
  <2>2. QED BY <1>1, <2>1, EndFalls DEF Ended
<1>3. ASSUME TryAgain(c) PROVE StepsLeft(c)' < StepsLeft(c)
  <2>1. /\ pc' = pc /\ message' = message /\ resent' = resent
        /\ attempt'[c] = attempt[c] + 1
    BY <1>3 DEF TryAgain, NextAttempt, TypeOK
  <2>2. QED BY <1>1, <2>1, RepeatFalls
<1>4. CASE Unauthorized(c) /\ MayResend(c)
  <2>1. /\ pc' = pc /\ message' = message /\ ~resent[c]
        /\ attempt'[c] = 1 /\ resent'[c]
    BY <1>4 DEF Unauthorized, MayResend, TypeOK
  <2>2. StepsLeft(c)' < StepsLeft(c) BY <1>1, <2>1, RepeatFalls
  <2>3. \A d \in Calls : d # c => attempt'[d] = attempt[d] /\ resent'[d] = resent[d]
    BY <1>4 DEF Unauthorized, TypeOK
  <2>4. QED BY <2>1, <2>2, <2>3, LeftAlone
<1>5. CASE Answered(c) /\ message[c] \notin {"request", "call"}
  <2>1. /\ pc' = [pc EXCEPT ![c] = "gate"]
        /\ message' = [message EXCEPT ![c] = Following(message[c])]
        /\ UNCHANGED <<attempt, resent>>
    BY <1>5 DEF Answered, Goto
  <2>2. /\ pc'[c] = "gate" /\ message'[c] = Following(message[c])
        /\ \A d \in Calls : d # c => pc'[d] = pc[d] /\ message'[d] = message[d]
    BY <2>1 DEF TypeOK
  <2>3. message[c] \in {"initialize", "initialized"} BY <1>5 DEF TypeOK, Messages
  <2>4. attempt[c] \in 1..(Retries + 1) /\ Retries \in Nat BY LeftTypes
  <2>5. StepsLeft(c)' < StepsLeft(c)
    BY <1>1, <2>2, <2>3, <2>4 DEF StepsLeft, Ahead, InMessage, Width, Ended, Following
  <2>6. QED BY <2>1, <2>2, <2>5, LeftAlone
<1>6. CASE TryAgain(c) \/ \E label \in {"done", "failed"} : End(c, label)
  <2>1. StepsLeft(c)' < StepsLeft(c) BY <1>2, <1>3, <1>6
  <2>2. \A d \in Calls : d # c =>
          /\ pc'[d] = pc[d] /\ message'[d] = message[d]
          /\ attempt'[d] = attempt[d] /\ resent'[d] = resent[d]
    BY <1>6 DEF TryAgain, NextAttempt, End, Goto, TypeOK
  <2>3. QED BY <2>1, <2>2, LeftAlone
<1>7. QED
  BY <1>4, <1>5, <1>6
  DEF Sends, Refused, Blip, Fails, SendAborted, Unauthorized, Answered

\* So do the steps of the version check, which move those that wait for it too.
LEMMA ChecksFall ==
  ASSUME TypeOK, TypeOK', NEW c \in Calls, CheckPasses(c) \/ CheckFails(c)
  PROVE  /\ StepsLeft(c)' < StepsLeft(c)
         /\ \A d \in Calls : pc[d] = "wait" => StepsLeft(d)' < StepsLeft(d)
         /\ \A d \in Calls : d # c /\ pc[d] # "wait" => StepsLeft(d)' = StepsLeft(d)
<1>1. PICK label \in {"send", "failed"} :
        pc' = [d \in Calls |-> IF d = c \/ pc[d] = "wait" THEN label ELSE pc[d]]
  BY DEF CheckPasses, CheckFails, Settled
<1>2. /\ pc[c] = "check" /\ message' = message /\ resent' = resent
      /\ attempt' = [attempt EXCEPT ![c] = 1]
  BY DEF CheckPasses, CheckFails
<1>3. ASSUME NEW d \in Calls, d = c \/ pc[d] = "wait" PROVE StepsLeft(d)' < StepsLeft(d)
  <2>1. pc'[d] = label /\ pc[d] \in {"check", "wait"} BY <1>1, <1>2, <1>3
  <2>2. CASE label = "failed" BY <2>1, <2>2, EndFalls DEF Ended
  <2>3. CASE label = "send"
    <3>1. /\ attempt[d] \in 1..(Retries + 1) /\ attempt'[d] \in 1..(Retries + 1)
          /\ Retries \in Nat /\ message[d] \in Messages
      BY TransportAssumption DEF TypeOK
    <3>2. message'[d] = message[d] /\ resent'[d] = resent[d] BY <1>2
    <3>3. QED BY <2>1, <2>3, <3>1, <3>2 DEF StepsLeft, Ahead, InMessage, Width, Ended, Messages
  <2>4. QED BY <2>2, <2>3
<1>4. ASSUME NEW d \in Calls, d # c, pc[d] # "wait" PROVE StepsLeft(d)' = StepsLeft(d)
  <2>1. pc'[d] = pc[d] /\ attempt'[d] = attempt[d] BY <1>1, <1>2, <1>4 DEF TypeOK
  <2>2. QED BY <1>2, <2>1, LeftAlone
<1>5. QED BY <1>3, <1>4

\* And the steps before it.
LEMMA GatesFall ==
  ASSUME TypeOK, TypeOK', NEW c \in Calls,
         \/ Start(c) \/ CheckRetries(c)
         \/ GateRefuses(c) \/ GatePasses(c) \/ GateJoins(c) \/ GateChecks(c)
  PROVE  /\ StepsLeft(c)' < StepsLeft(c)
         /\ \A d \in Calls : d # c => StepsLeft(d)' = StepsLeft(d)
<1>1. /\ attempt[c] \in 1..(Retries + 1) /\ Retries \in Nat
      /\ message[c] \in Messages
  BY TransportAssumption DEF TypeOK
<1>2. \A d \in Calls : d # c =>
        /\ pc'[d] = pc[d] /\ message'[d] = message[d]
        /\ attempt'[d] = attempt[d] /\ resent'[d] = resent[d]
  BY DEF Start, CheckRetries, NextAttempt, GateRefuses, GatePasses, GateJoins, GateChecks, Goto,
         End, TypeOK
<1>3. \A d \in Calls : d # c => StepsLeft(d)' = StepsLeft(d) BY <1>2, LeftAlone
<1>4. CASE Start(c)
  <2>1. /\ pc[c] = "idle" /\ pc'[c] = "gate"
        /\ message'[c] \in {"request", "call", "initialize"}
    BY <1>4 DEF Start, Goto, TypeOK
  <2>2. StepsLeft(c)' < StepsLeft(c)
    BY <1>1, <2>1 DEF StepsLeft, Ahead, InMessage, Width, Ended
  <2>3. QED BY <1>3, <2>2
<1>5. CASE CheckRetries(c)
  <2>1. /\ pc[c] = "check" /\ attempt'[c] = attempt[c] + 1
        /\ pc' = pc /\ message' = message /\ resent' = resent
    BY <1>5 DEF CheckRetries, NextAttempt, TypeOK
  <2>2. StepsLeft(c)' < StepsLeft(c) BY <2>1, RepeatFalls
  <2>3. QED BY <1>3, <2>2
<1>6. CASE GateRefuses(c)
  <2>1. pc[c] = "gate" /\ pc'[c] = "failed" BY <1>6 DEF GateRefuses, End, Goto, TypeOK
  <2>2. QED BY <1>3, <2>1, EndFalls DEF Ended
<1>7. CASE GatePasses(c) \/ GateJoins(c) \/ GateChecks(c)
  <2>1. /\ pc[c] = "gate" /\ pc'[c] \in {"send", "wait", "check"}
        /\ message' = message /\ attempt'[c] = 1
    BY <1>7 DEF GatePasses, GateJoins, GateChecks, AtGate, Joined, Goto, TypeOK
  <2>2. StepsLeft(c)' < StepsLeft(c)
    BY <1>1, <2>1 DEF StepsLeft, Ahead, InMessage, Width, Ended, Messages
  <2>3. QED BY <1>3, <2>2
<1>8. QED BY <1>4, <1>5, <1>6, <1>7

\* A call that waits for a check waits for one that is registered.
WaitsForCheck == \A c \in Calls : pc[c] = "wait" => verifying # None

LEMMA NextWaits == ASSUME IInv, WaitsForCheck, [Next]_vars PROVE WaitsForCheck'
<1> USE DEF IInv
<1>1. ASSUME NEW c \in Calls, Step(c) PROVE WaitsForCheck'
  <2>1. CASE Start(c) \/ CheckRetries(c) \/ GatePasses(c) \/ GateRefuses(c)
    BY <2>1
    DEF Start, CheckRetries, GatePasses, GateRefuses, Goto, End, checkVars, WaitsForCheck, TypeOK
  <2>2. CASE GateJoins(c) BY <2>2 DEF GateJoins, Joined, Goto, checkVars, WaitsForCheck, TypeOK
  <2>3. CASE GateChecks(c)
    <3>1. verifying = None BY <2>3 DEF GateChecks
    <3>2. \A d \in Calls : pc[d] # "wait" BY <3>1 DEF WaitsForCheck
    <3>3. QED BY <2>3, <3>2 DEF GateChecks, Goto, WaitsForCheck, TypeOK
  <2>4. CASE CheckPasses(c) \/ CheckFails(c)
    <3>1. PICK label \in {"send", "failed"} : Settled(c, label)
      BY <2>4 DEF CheckPasses, CheckFails
    <3>2. \A d \in Calls : pc'[d] # "wait" BY <3>1 DEF Settled
    <3>3. QED BY <3>2 DEF WaitsForCheck
  <2>5. CASE Sends(c)
    <3>1. /\ UNCHANGED verifying
          /\ pc' = pc \/ \E label \in {"gate", "done", "failed"} : pc' = [pc EXCEPT ![c] = label]
      BY <2>5
      DEF Sends, Refused, Blip, Fails, SendAborted, Unauthorized, Answered, TryAgain, End, Goto,
          checkVars
    <3>2. QED BY <3>1 DEF WaitsForCheck, TypeOK
  <2>6. QED BY <1>1, <2>1, <2>2, <2>3, <2>4, <2>5 DEF Step, Sends
<1>2. CASE (\E c \in Calls : Abort(c)) \/ CacheAges \/ SessionAges \/ UNCHANGED vars
  BY <1>2 DEF Abort, CacheAges, SessionAges, vars, checkVars, WaitsForCheck
<1>3. QED BY <1>1, <1>2 DEF Next

\* A call that joined a version check is never left waiting for one that is
\* over, and a call takes at most 9 * Retries + 24 steps (ensureCompatible).
THEOREM WaitsAreAnswered == Spec => []NobodyWaitsInVain
<1>1. Init => WaitsForCheck BY DEF Init, WaitsForCheck
<1>2. IInv /\ WaitsForCheck /\ [Next]_vars => WaitsForCheck' BY NextWaits
<1>3. IInv /\ WaitsForCheck => NobodyWaitsInVain
  <2> SUFFICES ASSUME IInv, WaitsForCheck, NEW c \in Calls
               PROVE  /\ pc[c] = "wait" => verifying # None /\ pc[verifying] = "check"
                      /\ StepsLeft(c) \in 0 .. (9 * Retries + 24)
                      /\ StepsLeft(c) = 0 <=> pc[c] \in Ended
    BY DEF NobodyWaitsInVain
  <2>1. pc[c] = "wait" => verifying # None /\ pc[verifying] = "check"
    BY DEF IInv, TypeOK, CheckIsKnown, WaitsForCheck
  <2>2. QED BY <2>1, LeftTypes DEF IInv
<1>4. QED BY <1>1, <1>2, <1>3, Invariance, PTL DEF Spec

\* Every step of a call brings it nearer to its end, and nothing else sets it
\* back: retries, the resend and the messages of a session run out (tlsFetch,
\* request, ensureSession).
THEOREM StepsDwindle == Spec => Dwindle
<1> DEFINE Falls ==
      \A c \in Calls :
        /\ StepsLeft(c)' <= StepsLeft(c)
        /\ Step(c) => StepsLeft(c)' < StepsLeft(c)
        /\ pc[c] = "wait" /\ verifying # None /\ verifying' = None =>
             StepsLeft(c)' < StepsLeft(c)
<1>1. IInv /\ IInv' /\ [Next]_vars => [Falls]_vars
  <2> SUFFICES ASSUME TypeOK, TypeOK', Next, NEW c \in Calls
               PROVE  /\ StepsLeft(c)' <= StepsLeft(c)
                      /\ Step(c) => StepsLeft(c)' < StepsLeft(c)
                      /\ pc[c] = "wait" /\ verifying # None /\ verifying' = None =>
                           StepsLeft(c)' < StepsLeft(c)
    BY DEF IInv
  <2>1. Step(c) => StepsLeft(c)' < StepsLeft(c)
    BY SendsFall, ChecksFall, GatesFall DEF Step, Sends
  <2>2. ASSUME NEW d \in Calls, d # c, Step(d)
        PROVE  \/ StepsLeft(c)' = StepsLeft(c)
               \/ pc[c] = "wait" /\ StepsLeft(c)' < StepsLeft(c)
    BY <2>2, SendsFall, ChecksFall, GatesFall DEF Step, Sends
  <2>3. ASSUME (\E d \in Calls : Abort(d)) \/ CacheAges \/ SessionAges
        PROVE  StepsLeft(c)' = StepsLeft(c) /\ verifying' = verifying
    <3>1. UNCHANGED <<pc, message, attempt, resent, verifying>>
      BY <2>3 DEF Abort, CacheAges, SessionAges, checkVars
    <3>2. QED BY <3>1, LeftAlone
  <2>4. ASSUME pc[c] = "wait", verifying # None, verifying' = None
        PROVE  StepsLeft(c)' < StepsLeft(c)
    <3>1. PICK d \in Calls : Step(d) BY <2>3, <2>4 DEF Next
    <3>2. CheckPasses(d) \/ CheckFails(d)
      BY <2>4, <3>1
      DEF Step, Start, GateRefuses, GatePasses, GateJoins, GateChecks, Registered, CheckRetries,
          Refused, Blip, Fails, SendAborted, Unauthorized, Answered, checkVars
    <3>3. QED BY <2>4, <3>2, ChecksFall
  <2>5. StepsLeft(c) \in Int /\ StepsLeft(c)' \in Int
    <3>1. Retries \in Nat BY TransportAssumption
    <3>2. StepsLeft(c) \in 0 .. (9 * Retries + 24) BY LeftTypes
    <3>3. attempt'[c] \in 1..(Retries + 1) BY DEF TypeOK
    <3>4. StepsLeft(c)' \in Int BY <3>1, <3>3 DEF StepsLeft, Ahead, InMessage, Width
    <3>5. QED BY <3>1, <3>2, <3>4
  <2>6. StepsLeft(c)' <= StepsLeft(c) BY <2>1, <2>2, <2>3, <2>5 DEF Next
  <2>7. QED BY <2>1, <2>4, <2>6
<1>2. Spec => [][Falls]_vars BY <1>1, Invariance, PTL DEF Spec
<1>3. QED BY <1>2 DEF Dwindle
=============================================================================
