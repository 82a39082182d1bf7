---------------------------- MODULE ConfigStoreProofs ----------------------------
(***************************************************************************)
(* Proofs about the store under ~/.bkn (ConfigStore).                      *)
(*                                                                         *)
(* Inv is inductive.  StoreInv holds of any number of commands at once: a  *)
(* command only ever makes a user active whose login it knows of, because  *)
(* it looked, or because its previous write was that login (InOrder); that *)
(* is how ActiveHasLogin survives crashes and other commands' writes.      *)
(* AloneInv holds where commands run one after another: the one process    *)
(* finds the state it runs under unchanged, or has itself just emptied it. *)
(***************************************************************************)
EXTENDS ConfigStore, FiniteSetTheorems, SequenceTheorems, TLAPS
----------------------------------------------------------------------------
\* The inductive invariant.

\* The users known: there is a file for their login, or there was one that was removed.
\* Nothing a command does makes a known user unknown.
Known ==
  {login \in Platforms \X Users : disk[TokenFile(login[1], login[2])] # None \/ login \in removed}
AllKnown(state, known) ==
  \A p \in Platforms : state.active[p] # None => <<p, state.active[p]>> \in known

\* A call names the user it is about, and a token is saved as its user's.
GoodCall(call) ==
  /\ call.op \in {"token", "activeUser", "remove"} => call.user # None
  /\ call.op = "token" => call.value = call.user

\* Only a known user is made active: one whose login is saved by the call before.
Follows(calls, i) ==
  i > 1 /\ calls[i - 1].op = "token"
        /\ calls[i - 1].platform = calls[i].platform /\ calls[i - 1].user = calls[i].user
InOrder(calls, known) ==
  \A i \in 1..Len(calls) : calls[i].op = "activeUser" =>
    <<calls[i].platform, calls[i].user>> \in known \/ Follows(calls, i)

\* The write that a call is in.
WriteOf(call, write, known) ==
  /\ call.op # "remove"
  /\ call.op = "token" =>
       write.file = TokenFile(call.platform, call.user) /\ write.content = call.user
  /\ call.op = "config" =>
       /\ \E u \in Users : write.file = ConfigFile(call.platform, u)
       /\ write.content = call.value
  /\ call.op \in {"activeUser", "activePlatform"} =>
       write.file = StateFile /\ write.content \in States /\ AllKnown(write.content, known)

\* A command that runs as a user has one, and what it asks the store for is in order.
RunsAs(x) ==
  x.pc = "running" /\ x.cmd.kind \in Runs =>
    x.platform # None /\ (x.cmd.kind # "runToken" => x.user # None)
GoodCalls(calls, known) ==
  (\A i \in 1..Len(calls) : GoodCall(calls[i])) /\ InOrder(calls, known)
GoodWrite(x, known) ==
  x.write # None =>
    /\ x.calls # <<>> /\ WriteOf(Head(x.calls), x.write, known)
    /\ x.write.open => \A p \in Platforms, u \in Users :
                         x.write.file = TokenFile(p, u) => <<p, u>> \in known
GoodProcess(x, known) == RunsAs(x) /\ GoodCalls(x.calls, known) /\ GoodWrite(x, known)

StoreInv ==
  /\ TokenOfUser
  /\ disk[StateFile] # Torn => AllKnown(disk[StateFile], Known)
  /\ \A c \in Procs : GoodProcess(proc[c], Known)

\* What readState, ActiveUser and platformOf find in the content of state.json.
Reading(content) == IF content = Torn THEN Empty ELSE content
ActiveIn(content, p) == IF p = None THEN None ELSE Reading(content).active[p]
PlatformIn(content, cmd) ==
  IF cmd.platform = None THEN Reading(content).platform ELSE cmd.platform

\* Of commands that run one after another.  A run as the active user finds it active
\* whenever it looks, also after it has written the state itself, and what it writes there
\* is what was last chosen.
OwnConfig(x) == x.write.file = ConfigFile(x.platform, x.user) /\ x.write.content = x.user
RunCall(x, call) ==
  \/ call.op = "token"
  \/ /\ call.op = "activeUser" /\ x.cmd.kind \in {"run", "runNew"}
     /\ call.platform = x.platform /\ call.user = x.user
  \/ call.op = "config" /\ x.cmd.kind = "run" /\ call.platform = x.platform /\ call.value = x.user
InState(x) == x.write # None /\ x.write.file = StateFile /\ x.write.open
FindsItself(x, content) ==
  x.cmd.kind \in {"run", "runNew"} =>
    IF InState(x) THEN content = Torn ELSE ActiveIn(content, x.platform) = x.user
RunWrite(x, last) ==
  x.write # None =>
    /\ x.write.file = StateFile =>
         x.write.content = last /\ last # Torn /\ last.active[x.platform] = x.user
    /\ x.write.file \in ConfigFiles => OwnConfig(x)
AloneRun(x, content, last) ==
  /\ x.cmd.kind = "run" => x.store = x.platform
  /\ x.joined # None => x.joined = x.user
  /\ FindsItself(x, content)
  /\ x.cmd.kind = "runToken" => x.calls = <<>>
  /\ \A i \in 1..Len(x.calls) : RunCall(x, x.calls[i])
  /\ RunWrite(x, last)
OtherCall(x, call) ==
  IF x.cmd.kind = "forget" THEN call.op = "config" /\ call.value = None
  ELSE call.op # "config"
AloneOther(x) ==
  /\ x.joined = None
  /\ \A i \in 1..Len(x.calls) : OtherCall(x, x.calls[i])
AloneProcess(x, content, last) ==
  /\ x.pc \in {"thread", "resolve"} => x.calls = <<>> /\ x.cmd.kind \in Runs
  /\ x.pc = "thread" => x.joined = None
  /\ x.pc = "resolve" =>
       /\ x.store = PlatformIn(content, x.cmd)
       /\ x.joined # None =>
            x.cmd.kind = "run" /\ x.joined = ActiveIn(content, PlatformIn(content, x.cmd))
  /\ x.pc = "running" =>
       IF x.cmd.kind \in Runs THEN AloneRun(x, content, last) ELSE AloneOther(x)
AloneInv ==
  limit = 1 =>
    /\ \A c, d \in Procs : Live(c) /\ Live(d) => c = d
    /\ disk[StateFile] # Torn => disk[StateFile] = chosen
    /\ \A p \in Platforms, u \in Users : disk[ConfigFile(p, u)] \in {u, None, Torn}
    /\ \A c \in Procs : Live(c) => AloneProcess(proc[c], disk[StateFile], chosen)

Inv == TypeOK /\ StoreInv /\ AloneInv

----------------------------------------------------------------------------
\* The operators.

\* No two files of the store are one (store.ts: the paths under ~/.bkn).
LEMMA FilesDiffer ==
  ASSUME NEW p, NEW u, NEW q, NEW v
  PROVE  /\ TokenFile(p, u) # StateFile /\ ConfigFile(p, u) # StateFile
         /\ TokenFile(p, u) # ConfigFile(q, v)
         /\ TokenFile(p, u) = TokenFile(q, v) => p = q /\ u = v
         /\ ConfigFile(p, u) = ConfigFile(q, v) => p = q /\ u = v
<1>1. "token.json" # "config.json"
  OBVIOUS
<1>2. TokenFile(p, u)[1] = "token.json" /\ ConfigFile(q, v)[1] = "config.json"
  BY DEF TokenFile, ConfigFile
<1>3. Len(TokenFile(p, u)) = 3 /\ Len(ConfigFile(p, u)) = 3 /\ Len(StateFile) = 1
  BY DEF TokenFile, ConfigFile, StateFile
<1>4. TokenFile(p, u) = TokenFile(q, v) => p = q /\ u = v
  BY DEF TokenFile
<1>5. ConfigFile(p, u) = ConfigFile(q, v) => p = q /\ u = v
  BY DEF ConfigFile
<1> QED
  BY <1>1, <1>2, <1>3, <1>4, <1>5

\* The files of a login are among those of the store.
LEMMA FilesAre ==
  /\ StateFile \in Files
  /\ \A p \in Platforms, u \in Users :
       TokenFile(p, u) \in TokenFiles /\ ConfigFile(p, u) \in ConfigFiles
  /\ TokenFiles \subseteq Files /\ ConfigFiles \subseteq Files
BY DEF Files, TokenFiles, ConfigFiles

\* A state that cannot be read counts as the empty one (readState).
LEMMA ReadStateTyped ==
  ASSUME TypeOK
  PROVE  /\ ReadState \in States
         /\ \A p \in Platforms : ActiveUser(p) \in Users \cup {None}
         /\ \A p \in Platforms, u \in Users \cup {None} : HasLogin(p, u) =>
              u \in Users /\ <<p, u>> \in Known
         /\ StoreInv => AllKnown(ReadState, Known)
<1>1. Empty \in States
  BY DEF Empty, States
<1>2. ReadState \in States
  BY <1>1 DEF ReadState, TypeOK
<1>3. \A p \in Platforms : ActiveUser(p) \in Users \cup {None}
  BY <1>2, StoreAssumption DEF ActiveUser, States
<1>4. ASSUME NEW p \in Platforms, NEW u \in Users \cup {None}, HasLogin(p, u)
      PROVE  u \in Users /\ <<p, u>> \in Known
  BY <1>4 DEF HasLogin, Known
<1>5. StoreInv => AllKnown(ReadState, Known)
  BY DEF StoreInv, ReadState, AllKnown, Empty
<1> QED
  BY <1>2, <1>3, <1>4, <1>5

\* More users known make no process worse.
LEMMA KnowsMore ==
  ASSUME NEW known, NEW more, known \subseteq more, NEW x, GoodProcess(x, known)
  PROVE  GoodProcess(x, more)
<1>1. GoodCalls(x.calls, more)
  BY DEF GoodProcess, GoodCalls, InOrder
<1>2. GoodWrite(x, more)
  BY DEF GoodProcess, GoodWrite, WriteOf, AllKnown
<1> QED
  BY <1>1, <1>2 DEF GoodProcess

----------------------------------------------------------------------------
\* The calls that the commands make of the store.

\* The single calls (saveToken, setActiveUser, setActivePlatform, deleteToken).
LEMMA CallsTyped ==
  ASSUME NEW p \in Platforms, NEW u \in Users
  PROVE  /\ SaveToken(p, u, u) \in Calls /\ SetActiveUser(p, u) \in Calls
         /\ SetActivePlatform(p) \in Calls /\ RemoveToken(p, u) \in Calls
         /\ \A owner \in Users \cup {None} : UpdateConfig(p, owner) \in Calls
BY DEF Calls, Call, SaveToken, SetActiveUser, SetActivePlatform, RemoveToken, UpdateConfig

\* Short sequences put together.
LEMMA Concatenations ==
  ASSUME NEW S, NEW a \in S, NEW b \in S, NEW c \in S
  PROVE  /\ <<a>> \o <<>> = <<a>>
         /\ <<a>> \o <<b>> = <<a, b>>
         /\ <<a, b>> \o <<c>> = <<a, b, c>>
<1>1. <<a>> \in Seq(S) /\ <<b>> \in Seq(S) /\ <<c>> \in Seq(S) /\ <<a, b>> \in Seq(S)
  OBVIOUS
<1>2. <<a, b, c>> \in Seq(S)
  OBVIOUS
<1>3. <<a>> \o <<>> = <<a>>
  BY <1>1, ConcatEmptySeq
<1>4. <<a>> \o <<b>> = <<a, b>>
  <2>1. /\ <<a>> \o <<b>> \in Seq(S) /\ Len(<<a>> \o <<b>>) = 2
        /\ (<<a>> \o <<b>>)[1] = a /\ (<<a>> \o <<b>>)[2] = b
    BY <1>1
  <2>2. Len(<<a, b>>) = 2 /\ <<a, b>>[1] = a /\ <<a, b>>[2] = b
    OBVIOUS
  <2>3. \A i \in 1 .. Len(<<a>> \o <<b>>) : (<<a>> \o <<b>>)[i] = <<a, b>>[i]
    BY <2>1, <2>2
  <2>4. Len(<<a>> \o <<b>>) = Len(<<a, b>>)
    BY <2>1, <2>2
  <2> QED
    BY <1>1, <2>1, <2>3, <2>4, SeqEqual, Zenon
<1>5. <<a, b>> \o <<c>> = <<a, b, c>>
  <2>1. /\ <<a, b>> \o <<c>> \in Seq(S) /\ Len(<<a, b>> \o <<c>>) = 3
        /\ (<<a, b>> \o <<c>>)[1] = a /\ (<<a, b>> \o <<c>>)[2] = b
        /\ (<<a, b>> \o <<c>>)[3] = c
    BY <1>1
  <2>2. Len(<<a, b, c>>) = 3 /\ <<a, b, c>>[1] = a /\ <<a, b, c>>[2] = b /\ <<a, b, c>>[3] = c
    OBVIOUS
  <2>3. \A i \in 1 .. Len(<<a, b>> \o <<c>>) : (<<a, b>> \o <<c>>)[i] = <<a, b, c>>[i]
    BY <2>1, <2>2
  <2>4. Len(<<a, b>> \o <<c>>) = Len(<<a, b, c>>)
    BY <2>1, <2>2
  <2> QED
    BY <1>2, <2>1, <2>3, <2>4, SeqEqual, Zenon
<1> QED
  BY <1>3, <1>4, <1>5

\* No call is in order, and so is one call alone that makes no unknown user active.
LEMMA NoCalls ==
  ASSUME NEW known
  PROVE  <<>> \in Seq(Calls) /\ GoodCalls(<<>>, known)
BY DEF GoodCalls, InOrder

\* A call alone (setActivePlatform, updatePlatformConfig, deleteToken).
LEMMA OneCall ==
  ASSUME NEW a \in Calls, NEW known, GoodCall(a),
         a.op = "activeUser" => <<a.platform, a.user>> \in known
  PROVE  <<a>> \in Seq(Calls) /\ GoodCalls(<<a>>, known)
<1>1. Len(<<a>>) = 1 /\ <<a>>[1] = a
  OBVIOUS
<1> QED
  BY <1>1 DEF GoodCalls, InOrder

\* What writeToken asks for is in order, whoever is known.
LEMMA WriteTokenGood ==
  ASSUME NEW p \in Platforms, NEW u \in Users, NEW known
  PROVE  /\ WriteToken(p, u, FALSE) = <<SaveToken(p, u, u)>>
         /\ WriteToken(p, u, TRUE) = <<SaveToken(p, u, u), SetActiveUser(p, u)>>
         /\ \A setActive \in BOOLEAN :
              /\ WriteToken(p, u, setActive) \in Seq(Calls)
              /\ GoodCalls(WriteToken(p, u, setActive), known)
<1> DEFINE a == SaveToken(p, u, u)
           b == SetActiveUser(p, u)
<1>1. a \in Calls /\ b \in Calls
  BY CallsTyped
<1>2. GoodCall(a) /\ GoodCall(b) /\ a.op = "token" /\ a.platform = b.platform /\ a.user = b.user
  BY StoreAssumption DEF GoodCall, SaveToken, SetActiveUser, Call
<1>3. WriteToken(p, u, FALSE) = <<a>>
  BY <1>1, Concatenations DEF WriteToken
<1>4. WriteToken(p, u, TRUE) = <<a, b>>
  BY <1>1, Concatenations DEF WriteToken
<1> HIDE DEF a, b
<1>5. <<a>> \in Seq(Calls) /\ GoodCalls(<<a>>, known)
  BY <1>1, <1>2, OneCall
<1>6. <<a, b>> \in Seq(Calls) /\ GoodCalls(<<a, b>>, known)
  BY <1>1, <1>2 DEF GoodCalls, InOrder, Follows
<1> QED
  BY <1>3, <1>4, <1>5, <1>6 DEF a, b

\* The calls of login are those of writeToken and the choice of the platform.
LEMMA AttachTokenGood ==
  ASSUME NEW p \in Platforms, NEW u \in Users, NEW known
  PROVE  /\ AttachToken(p, u) = <<SaveToken(p, u, u), SetActiveUser(p, u), SetActivePlatform(p)>>
         /\ AttachToken(p, u) \in Seq(Calls) /\ GoodCalls(AttachToken(p, u), known)
<1> DEFINE a == SaveToken(p, u, u)
           b == SetActiveUser(p, u)
           c == SetActivePlatform(p)
<1>1. a \in Calls /\ b \in Calls /\ c \in Calls
  BY CallsTyped
<1>2. /\ GoodCall(a) /\ GoodCall(b) /\ GoodCall(c)
      /\ a.op = "token" /\ c.op # "activeUser" /\ a.platform = b.platform /\ a.user = b.user
  BY StoreAssumption DEF GoodCall, SaveToken, SetActiveUser, SetActivePlatform, Call
<1>3. WriteToken(p, u, TRUE) = <<a, b>>
  BY WriteTokenGood
<1> HIDE DEF a, b
<1>4. AttachToken(p, u) = <<a, b, c>>
  BY <1>1, <1>3, Concatenations DEF AttachToken
<1> HIDE DEF c
<1>5. <<a, b, c>> \in Seq(Calls) /\ GoodCalls(<<a, b, c>>, known)
  BY <1>1, <1>2 DEF GoodCalls, InOrder, Follows
<1> QED
  BY <1>4, <1>5 DEF a, b, c

\* The calls of `auth switch` are in order where the user switched to is known.
LEMMA SwitchUserGood ==
  ASSUME NEW p \in Platforms, NEW u \in Users, NEW known, <<p, u>> \in known
  PROVE  /\ <<SetActiveUser(p, u), SetActivePlatform(p)>> \in Seq(Calls)
         /\ GoodCalls(<<SetActiveUser(p, u), SetActivePlatform(p)>>, known)
<1> DEFINE a == SetActiveUser(p, u)
           b == SetActivePlatform(p)
<1>1. a \in Calls /\ b \in Calls
  BY CallsTyped
<1>2. GoodCall(a) /\ GoodCall(b) /\ b.op # "activeUser" /\ a.platform = p /\ a.user = u
  BY StoreAssumption DEF GoodCall, SetActiveUser, SetActivePlatform, Call
<1> HIDE DEF a, b
<1>3. <<a, b>> \in Seq(Calls) /\ GoodCalls(<<a, b>>, known)
  BY <1>1, <1>2 DEF GoodCalls, InOrder, Follows
<1> QED
  BY <1>3 DEF a, b

\* A renewal is in order (persist, currentTokenFresh, write_refreshed_token).
LEMMA PersistGood ==
  ASSUME NEW kind, NEW p \in Platforms, NEW u \in Users, NEW known
  PROVE  Persist(kind, p, u) \in Seq(Calls) /\ GoodCalls(Persist(kind, p, u), known)
<1>1. CASE kind \in {"python", "pythonAs"}
  <2>1. WriteRefreshedToken(p, u) \in {<<>>, WriteToken(p, u, FALSE)}
    BY WriteTokenGood DEF WriteRefreshedToken
  <2>2. WriteToken(p, u, FALSE) \in Seq(Calls) /\ GoodCalls(WriteToken(p, u, FALSE), known)
    BY WriteTokenGood
  <2> QED
    BY <1>1, <2>1, <2>2, NoCalls DEF Persist
<1>2. CASE kind \notin {"python", "pythonAs"}
  <2>1. (kind # "runAs") \in BOOLEAN
    OBVIOUS
  <2> QED
    BY <1>2, <2>1, WriteTokenGood DEF Persist
<1> QED
  BY <1>1, <1>2

\* What a command that is not a run asks for is in order (src/resources/auth.ts).
LEMMA AsksGood ==
  ASSUME TypeOK, NEW cmd \in Commands, cmd.kind \notin Runs
  PROVE  Asks(cmd) \in Seq(Calls) /\ GoodCalls(Asks(cmd), Known)
<1> DEFINE p == PlatformOf(cmd)
<1>1. cmd \in CommandLines /\ (cmd.kind = "login" => cmd.user # None)
  BY CommandsAssumption
<1>2. cmd.user \in Users \cup {None}
  BY <1>1 DEF CommandLines
<1>3. p \in Platforms \cup {None}
  BY <1>1, ReadStateTyped DEF CommandLines, PlatformOf, States
<1> HIDE DEF p
<1>4. CASE p = None
  BY <1>4, NoCalls DEF Asks, p
<1>5. ASSUME p \in Platforms, p # None PROVE Asks(cmd) \in Seq(Calls) /\ GoodCalls(Asks(cmd), Known)
  <2>1. CASE cmd.kind = "login"
    <3>1. Asks(cmd) = AttachToken(p, cmd.user)
      BY <1>5, <2>1 DEF Asks, p
    <3> QED
      BY <1>1, <1>2, <1>5, <2>1, <3>1, AttachTokenGood
  <2>2. CASE cmd.kind = "switch"
    <3>1. Asks(cmd) = SwitchUser(p, cmd.user)
      BY <1>5, <2>2 DEF Asks, p
    <3>2. CASE HasLogin(p, cmd.user)
      <4>1. cmd.user \in Users /\ <<p, cmd.user>> \in Known
        BY <1>2, <1>5, <3>2, ReadStateTyped
      <4> QED
        BY <1>5, <3>1, <3>2, <4>1, SwitchUserGood DEF SwitchUser
    <3> QED
      BY <3>1, <3>2, NoCalls DEF SwitchUser
  <2>3. CASE cmd.kind \in {"use", "set"}
    <3>1. Asks(cmd) \in {<<>>, <<SetActivePlatform(p)>>}
      BY <1>5, <2>3 DEF Asks, Use, p
    <3>2. SetActivePlatform(p) \in Calls /\ SetActivePlatform(p).op = "activePlatform"
      BY <1>5, CallsTyped, StoreAssumption DEF SetActivePlatform, Call
    <3>3. <<SetActivePlatform(p)>> \in Seq(Calls) /\ GoodCalls(<<SetActivePlatform(p)>>, Known)
      BY <3>2, OneCall DEF GoodCall
    <3> QED
      BY <3>1, <3>3, NoCalls
  <2>4. CASE cmd.kind \in {"logout", "delete"}
    <3>1. ActiveUser(p) \in Users \cup {None}
      BY <1>5, ReadStateTyped
    <3>2. Asks(cmd) = IF ActiveUser(p) = None THEN <<>> ELSE <<RemoveToken(p, ActiveUser(p))>>
      BY <1>5, <2>4 DEF Asks, DeletePlatform, p
    <3>3. ASSUME NEW u \in Users
          PROVE  <<RemoveToken(p, u)>> \in Seq(Calls) /\ GoodCalls(<<RemoveToken(p, u)>>, Known)
      <4>1. RemoveToken(p, u) \in Calls /\ RemoveToken(p, u).op = "remove"
        BY <1>5, CallsTyped DEF RemoveToken, Call
      <4>2. GoodCall(RemoveToken(p, u))
        BY StoreAssumption DEF GoodCall, RemoveToken, Call
      <4> QED
        BY <4>1, <4>2, OneCall
    <3> QED
      BY <3>1, <3>2, <3>3, NoCalls
  <2>5. CASE cmd.kind = "forget"
    <3>1. Asks(cmd) = <<UpdateConfig(p, None)>>
      BY <1>5, <2>5 DEF Asks, p
    <3>2. UpdateConfig(p, None) \in Calls /\ UpdateConfig(p, None).op = "config"
      BY <1>5, StoreAssumption DEF UpdateConfig, Call, Calls
    <3> QED
      BY <3>1, <3>2, OneCall DEF GoodCall
  <2> QED
    BY <1>1, <2>1, <2>2, <2>3, <2>4, <2>5 DEF CommandLines, SignIn
<1> QED
  BY <1>3, <1>4, <1>5

----------------------------------------------------------------------------
\* Steps of a process that leave the files alone.

\* Whoever is known stays known while no file is touched.
LEMMA ProcessMoves ==
  ASSUME TypeOK, StoreInv, NEW c \in Procs, NEW x \in Processes,
         proc' = [proc EXCEPT ![c] = x], UNCHANGED <<disk, limit, chosen, removed>>,
         x.pc \notin {"idle", "over"} => x.cmd \in CommandLines, GoodProcess(x, Known)
  PROVE  TypeOK' /\ StoreInv'
<1>1. proc' \in [Procs -> Processes] /\ \A d \in Procs : proc'[d] = IF d = c THEN x ELSE proc[d]
  BY DEF TypeOK
<1>2. Known' = Known
  BY DEF Known
<1>3. TypeOK'
  BY <1>1 DEF TypeOK, Live
<1>4. \A d \in Procs : GoodProcess(proc'[d], Known)
  BY <1>1 DEF StoreInv
<1>5. StoreInv'
  BY <1>2, <1>4 DEF StoreInv, TokenOfUser
<1> QED
  BY <1>3, <1>5

\* What is known of a process.
LEMMA ProcessIs ==
  ASSUME TypeOK, StoreInv, NEW c \in Procs
  PROVE  /\ proc[c] \in Processes /\ GoodProcess(proc[c], Known)
         /\ Live(c) => proc[c].cmd \in CommandLines
BY DEF TypeOK, StoreInv

\* A process that begins or is over has no calls.
LEMMA NewProcess ==
  ASSUME NEW pc \in {"idle", "thread", "resolve", "running", "over"},
         NEW cmd \in CommandLines \cup {None}, NEW known,
         pc = "running" => cmd.kind \notin Runs
  PROVE  Process(pc, cmd) \in Processes /\ GoodProcess(Process(pc, cmd), known)
<1> DEFINE x == Process(pc, cmd)
<1>1. x \in Processes
  BY DEF Process, Processes
<1>2. x.pc = pc /\ x.cmd = cmd /\ x.calls = <<>> /\ x.write = None
  BY DEF Process
<1>3. GoodCalls(<<>>, known)
  BY NoCalls
<1> HIDE DEF x
<1>4. GoodProcess(x, known)
  BY <1>2, <1>3 DEF GoodProcess, RunsAs, GoodWrite
<1> QED
  BY <1>1, <1>4 DEF x

\* A command starts, with the calls it makes unless it is a run (src/resources/auth.ts).
LEMMA StartKeeps ==
  ASSUME TypeOK, StoreInv, NEW c \in Procs, Start(c)
  PROVE  TypeOK' /\ StoreInv'
<1>1. PICK cmd \in Commands :
        proc' = [proc EXCEPT ![c] =
          IF cmd.kind \in Runs THEN Process("thread", cmd)
          ELSE [Process("running", cmd) EXCEPT !.calls = Asks(cmd)]]
  BY DEF Start
<1>2. cmd \in CommandLines
  BY CommandsAssumption
<1>3. CASE cmd.kind \in Runs
  <2>1. Process("thread", cmd) \in Processes /\ GoodProcess(Process("thread", cmd), Known)
    BY <1>2, NewProcess
  <2>2. Process("thread", cmd).cmd = cmd
    BY DEF Process
  <2>3. proc' = [proc EXCEPT ![c] = Process("thread", cmd)]
    BY <1>1, <1>3
  <2> QED
    BY <1>2, <2>1, <2>2, <2>3, ProcessMoves DEF Start
<1>4. CASE cmd.kind \notin Runs
  <2>1. PICK x : x = [Process("running", cmd) EXCEPT !.calls = Asks(cmd)]
    OBVIOUS
  <2>2. Asks(cmd) \in Seq(Calls) /\ GoodCalls(Asks(cmd), Known)
    BY <1>4, AsksGood
  <2>3. Process("running", cmd) \in Processes
    BY <1>2, <1>4, NewProcess
  <2>4. x \in Processes
    BY <2>1, <2>2, <2>3 DEF Processes
  <2>5. x.pc = "running" /\ x.cmd = cmd /\ x.write = None /\ x.calls = Asks(cmd)
    BY <2>1, <2>3 DEF Process, Processes
  <2>6. GoodProcess(x, Known)
    BY <1>4, <2>2, <2>5 DEF GoodProcess, RunsAs, GoodWrite
  <2>7. proc' = [proc EXCEPT ![c] = x]
    BY <1>1, <1>4, <2>1
  <2> QED
    BY <1>2, <2>4, <2>5, <2>6, <2>7, ProcessMoves DEF Start
<1> QED
  BY <1>3, <1>4

\* The process ends (Finish), or is killed.
LEMMA OverKeeps ==
  ASSUME TypeOK, StoreInv, NEW c \in Procs, Finish(c) \/ Kill(c)
  PROVE  TypeOK' /\ StoreInv'
<1>1. Over \in Processes /\ GoodProcess(Over, Known)
  BY NewProcess DEF Over
<1>2. Over.pc = "over"
  BY DEF Over, Process
<1>3. proc' = [proc EXCEPT ![c] = Over] /\ UNCHANGED <<disk, limit, chosen, removed>>
  BY DEF Finish, Kill
<1> QED
  BY <1>1, <1>2, <1>3, ProcessMoves

\* What platformOf and the remembered conversation may be (resolve.ts, store.ts).
LEMMA LooksUp ==
  ASSUME TypeOK, NEW cmd \in CommandLines
  PROVE  /\ PlatformOf(cmd) \in Platforms \cup {None}
         /\ \A p \in Platforms \cup {None} :
              ActiveUser(p) \in Users \cup {None} /\ Remembered(p) \in Users \cup {None}
<1>1. PlatformOf(cmd) \in Platforms \cup {None}
  BY ReadStateTyped DEF CommandLines, PlatformOf, States
<1>2. ASSUME NEW p \in Platforms \cup {None}
      PROVE  ActiveUser(p) \in Users \cup {None}
  BY ReadStateTyped DEF ActiveUser
<1>3. ASSUME NEW p \in Platforms \cup {None}
      PROVE  Remembered(p) \in Users \cup {None}
  <2>1. CASE ActiveUser(p) = None
    BY <2>1 DEF Remembered
  <2>2. CASE ActiveUser(p) # None
    <3>1. p \in Platforms /\ ActiveUser(p) \in Users
      BY <1>2, <2>2 DEF ActiveUser
    <3>2. disk[ConfigFile(p, ActiveUser(p))] \in Users \cup {None, Torn}
      BY <3>1, FilesAre DEF TypeOK
    <3> QED
      BY <2>2, <3>2 DEF Remembered
  <2> QED
    BY <2>1, <2>2
<1> QED
  BY <1>1, <1>2, <1>3

\* A run reads the remembered conversation (conversationSource).
LEMMA ReadThreadKeeps ==
  ASSUME TypeOK, StoreInv, NEW c \in Procs, ReadThread(c)
  PROVE  TypeOK' /\ StoreInv'
<1>1. PICK joined, store :
        /\ store = PlatformOf(proc[c].cmd)
        /\ joined = IF KeepsThread(proc[c].cmd) THEN Remembered(store) ELSE None
        /\ proc' = [proc EXCEPT ![c].pc = "resolve", ![c].store = store, ![c].joined = joined]
  BY DEF ReadThread
<1>2. Live(c) /\ proc[c].pc = "thread"
  BY DEF ReadThread, Live
<1>3. proc[c] \in Processes /\ GoodProcess(proc[c], Known) /\ proc[c].cmd \in CommandLines
  BY <1>2, ProcessIs
<1>4. store \in Platforms \cup {None} /\ joined \in Users \cup {None}
  BY <1>1, <1>3, LooksUp
<1>5. PICK x : x = [proc[c] EXCEPT !.pc = "resolve", !.store = store, !.joined = joined]
  OBVIOUS
<1>6. /\ x \in Processes /\ x.pc = "resolve"
      /\ x.cmd = proc[c].cmd /\ x.calls = proc[c].calls /\ x.write = proc[c].write
  BY <1>3, <1>4, <1>5 DEF Processes
<1>7. GoodProcess(x, Known)
  BY <1>3, <1>6 DEF GoodProcess, RunsAs, GoodWrite
<1>8. proc' = [proc EXCEPT ![c] = x]
  BY <1>1, <1>5 DEF TypeOK
<1> QED
  BY <1>3, <1>6, <1>7, <1>8, ProcessMoves DEF ReadThread

\* A run learns its platform and user, or ends without a login (resolveContext).
LEMMA ResolveKeeps ==
  ASSUME TypeOK, StoreInv, NEW c \in Procs, Resolve(c)
  PROVE  TypeOK' /\ StoreInv'
<1> DEFINE p == PlatformOf(proc[c].cmd)
           u == IF proc[c].cmd.kind \in Named THEN proc[c].cmd.user ELSE ActiveUser(p)
           stands == p # None /\ (proc[c].cmd.kind # "runToken" => HasLogin(p, u))
<1>1. proc' = IF stands
              THEN [proc EXCEPT ![c].pc = "running", ![c].platform = p, ![c].user = u]
              ELSE [proc EXCEPT ![c] = Over]
  BY DEF Resolve
<1>2. Live(c) /\ proc[c].pc = "resolve"
  BY DEF Resolve, Live
<1>3. proc[c] \in Processes /\ GoodProcess(proc[c], Known) /\ proc[c].cmd \in CommandLines
  BY <1>2, ProcessIs
<1>4. p \in Platforms \cup {None}
  BY <1>3, LooksUp
<1>5. u \in Users \cup {None}
  BY <1>3, <1>4, LooksUp DEF CommandLines
<1>6. stands => p # None /\ (proc[c].cmd.kind # "runToken" => u # None)
  BY DEF HasLogin
<1> HIDE DEF p, u, stands
<1>7. CASE stands
  <2>1. PICK x : x = [proc[c] EXCEPT !.pc = "running", !.platform = p, !.user = u]
    OBVIOUS
  <2>2. /\ x \in Processes /\ x.pc = "running" /\ x.platform = p /\ x.user = u
        /\ x.cmd = proc[c].cmd /\ x.calls = proc[c].calls /\ x.write = proc[c].write
    BY <1>3, <1>4, <1>5, <2>1 DEF Processes
  <2>3. RunsAs(x)
    BY <1>6, <1>7, <2>2 DEF RunsAs
  <2>4. GoodProcess(x, Known)
    BY <1>3, <2>2, <2>3 DEF GoodProcess, GoodWrite
  <2>5. proc' = [proc EXCEPT ![c] = x]
    BY <1>1, <1>7, <2>1 DEF TypeOK
  <2> QED
    BY <1>3, <2>2, <2>4, <2>5, ProcessMoves DEF Resolve
<1>8. CASE ~stands
  <2>1. Over \in Processes /\ GoodProcess(Over, Known) /\ Over.pc = "over"
    BY NewProcess DEF Over, Process
  <2>2. proc' = [proc EXCEPT ![c] = Over]
    BY <1>1, <1>8
  <2> QED
    BY <2>1, <2>2, ProcessMoves DEF Resolve
<1> QED
  BY <1>7, <1>8

\* The process goes on with calls that are in order, between two writes.
LEMMA CallsKeep ==
  ASSUME TypeOK, StoreInv, NEW c \in Procs, NEW x, NEW calls \in Seq(Calls), GoodCalls(calls, Known),
         AtRest(c), NEW renewed \in BOOLEAN, NEW opened \in BOOLEAN,
         x = [proc[c] EXCEPT !.renewed = renewed, !.opened = opened, !.calls = calls],
         proc' = [proc EXCEPT ![c] = x], UNCHANGED <<disk, limit, chosen, removed>>
  PROVE  TypeOK' /\ StoreInv'
<1>1. proc[c] \in Processes /\ GoodProcess(proc[c], Known) /\ proc[c].cmd \in CommandLines
  BY ProcessIs DEF Live, AtRest
<1>2. /\ x \in Processes /\ x.pc = "running" /\ x.platform = proc[c].platform
      /\ x.user = proc[c].user /\ x.cmd = proc[c].cmd /\ x.calls = calls /\ x.write = proc[c].write
  BY <1>1 DEF Processes, AtRest
<1>3. proc[c].write = None /\ proc[c].pc = "running"
  BY <1>1 DEF GoodProcess, GoodWrite, AtRest
<1>4. GoodProcess(x, Known)
  BY <1>1, <1>2, <1>3 DEF GoodProcess, GoodWrite, RunsAs
<1> QED
  BY <1>1, <1>2, <1>4, ProcessMoves

\* A token that cannot be renewed is not: who renews has a user and a platform.
LEMMA RenewKeeps ==
  ASSUME TypeOK, StoreInv, NEW c \in Procs, Renew(c)
  PROVE  TypeOK' /\ StoreInv'
<1>1. proc[c] \in Processes /\ GoodProcess(proc[c], Known) /\ proc[c].pc = "running"
  BY ProcessIs DEF Renew, AtRest
<1>2. proc[c].platform \in Platforms /\ proc[c].user \in Users
  BY <1>1 DEF Renew, GoodProcess, RunsAs, Processes
<1>3. PICK calls : calls = Persist(proc[c].cmd.kind, proc[c].platform, proc[c].user)
  OBVIOUS
<1>4. calls \in Seq(Calls) /\ GoodCalls(calls, Known)
  BY <1>2, <1>3, PersistGood
<1>5. PICK x : x = [proc[c] EXCEPT !.renewed = TRUE, !.opened = proc[c].opened, !.calls = calls]
  OBVIOUS
<1>6. proc' = [proc EXCEPT ![c].renewed = TRUE, ![c].calls = calls]
  BY <1>3 DEF Renew
<1>7. proc' = [proc EXCEPT ![c] = x]
  BY <1>1, <1>5, <1>6 DEF TypeOK, Processes
<1>8. proc[c].opened \in BOOLEAN /\ AtRest(c) /\ UNCHANGED <<disk, limit, chosen, removed>>
  BY <1>1 DEF Processes, Renew
<1> QED
  BY <1>4, <1>5, <1>7, <1>8, CallsKeep

\* A command remembers the conversation it opened (onConversationOpened).
LEMMA OpenConversationKeeps ==
  ASSUME TypeOK, StoreInv, NEW c \in Procs, OpenConversation(c)
  PROVE  TypeOK' /\ StoreInv'
<1>1. proc[c] \in Processes /\ GoodProcess(proc[c], Known)
  BY ProcessIs
<1>2. proc[c].store \in Platforms /\ proc[c].user \in Users \cup {None}
  BY <1>1 DEF OpenConversation, Processes
<1>3. PICK calls : calls = <<UpdateConfig(proc[c].store, proc[c].user)>>
  OBVIOUS
<1>4. calls \in Seq(Calls) /\ GoodCalls(calls, Known)
  <2>1. PICK a : a = UpdateConfig(proc[c].store, proc[c].user)
    OBVIOUS
  <2>2. a \in Calls /\ a.op = "config"
    BY <1>2, <2>1 DEF UpdateConfig, Call, Calls
  <2> QED
    BY <1>3, <2>1, <2>2, OneCall DEF GoodCall
<1>5. PICK x : x = [proc[c] EXCEPT !.renewed = proc[c].renewed, !.opened = TRUE, !.calls = calls]
  OBVIOUS
<1>6. proc' = [proc EXCEPT ![c].opened = TRUE, ![c].calls = calls]
  BY <1>3 DEF OpenConversation
<1>7. proc' = [proc EXCEPT ![c] = x]
  BY <1>1, <1>5, <1>6 DEF TypeOK, Processes
<1>8. proc[c].renewed \in BOOLEAN /\ AtRest(c) /\ UNCHANGED <<disk, limit, chosen, removed>>
  BY <1>1 DEF Processes, OpenConversation
<1> QED
  BY <1>4, <1>5, <1>7, <1>8, CallsKeep

\* What a write writes, in the terms of its call.
LEMMA WritesWhatItSays ==
  ASSUME NEW call \in Calls, call.op # "remove", GoodCall(call),
         NEW write, NEW file \in Files, NEW content \in States \cup Users \cup {None}, NEW known,
         write = [file |-> file, content |-> content, open |-> FALSE],
         call.op = "token" => file = TokenFile(call.platform, call.user) /\ content = call.value,
         call.op = "config" =>
           (\E u \in Users : file = ConfigFile(call.platform, u)) /\ content = call.value,
         call.op \in {"activeUser", "activePlatform"} =>
           file = StateFile /\ content \in States /\ AllKnown(content, known)
  PROVE  write \in Writes /\ ~write.open /\ WriteOf(call, write, known)
<1>1. write.file = file /\ write.content = content /\ write.open = FALSE
  OBVIOUS
<1>2. write \in Writes
  BY DEF Writes
<1>3. WriteOf(call, write, known)
  BY <1>1 DEF WriteOf, GoodCall
<1> QED
  BY <1>1, <1>2, <1>3

\* A write of the state puts one change into what was read (updateState, store.ts).
LEMMA PreparedGood ==
  ASSUME TypeOK, StoreInv, NEW call \in Calls, call.op # "remove", GoodCall(call),
         call.op = "activeUser" => <<call.platform, call.user>> \in Known,
         NEW write, write = Prepared(call)
  PROVE  write \in Writes /\ ~write.open /\ WriteOf(call, write, Known)
<1>1. ReadState \in States /\ AllKnown(ReadState, Known)
  BY ReadStateTyped
<1>2. /\ call.platform \in Platforms /\ call.user \in Users \cup {None}
      /\ call.value \in Users \cup {None}
      /\ call.op \in {"token", "config", "activeUser", "activePlatform"}
  BY DEF Calls
<1>3. call.op \in {"token", "activeUser"} => call.user \in Users
  BY <1>2 DEF GoodCall
<1>4. CASE call.op = "token"
  <2>1. PICK file : file = TokenFile(call.platform, call.user)
    OBVIOUS
  <2>2. write = [file |-> file, content |-> call.value, open |-> FALSE]
    BY <1>4, <2>1 DEF Prepared
  <2>3. file \in Files
    BY <1>2, <1>3, <1>4, <2>1, FilesAre
  <2> QED
    BY <1>2, <1>4, <2>1, <2>2, <2>3, WritesWhatItSays
<1>5. CASE call.op = "config"
  <2>1. PICK file : file = ConfigFile(call.platform, ConfigUser(call.platform))
    OBVIOUS
  <2>2. write = [file |-> file, content |-> call.value, open |-> FALSE]
    BY <1>5, <2>1 DEF Prepared
  <2>3. ConfigUser(call.platform) \in Users
    BY <1>2, ReadStateTyped, StoreAssumption DEF ConfigUser
  <2>4. file \in Files
    BY <1>2, <2>1, <2>3, FilesAre
  <2> QED
    BY <1>2, <1>5, <2>1, <2>2, <2>3, <2>4, WritesWhatItSays
<1>6. CASE call.op = "activeUser"
  <2>1. PICK state : state = [ReadState EXCEPT !.active[call.platform] = call.user]
    OBVIOUS
  <2>2. write = [file |-> StateFile, content |-> state, open |-> FALSE]
    BY <1>6, <2>1 DEF Prepared
  <2>3. state \in States
    BY <1>1, <1>2, <2>1 DEF States
  <2>4. \A p \in Platforms :
          state.active[p] = IF p = call.platform THEN call.user ELSE ReadState.active[p]
    BY <1>1, <1>2, <2>1 DEF States
  <2>5. AllKnown(state, Known)
    BY <1>1, <1>6, <2>4 DEF AllKnown
  <2> QED
    BY <1>6, <2>2, <2>3, <2>5, FilesAre, WritesWhatItSays
<1>7. CASE call.op = "activePlatform"
  <2>1. PICK state : state = [ReadState EXCEPT !.platform = call.platform]
    OBVIOUS
  <2>2. write = [file |-> StateFile, content |-> state, open |-> FALSE]
    BY <1>7, <2>1 DEF Prepared
  <2>3. state \in States /\ state.active = ReadState.active
    BY <1>1, <1>2, <2>1 DEF States
  <2>4. AllKnown(state, Known)
    BY <1>1, <2>3 DEF AllKnown
  <2> QED
    BY <1>7, <2>2, <2>3, <2>4, FilesAre, WritesWhatItSays
<1> QED
  BY <1>2, <1>4, <1>5, <1>6, <1>7

\* The call a process comes to first: its user is known.
LEMMA FirstCall ==
  ASSUME NEW calls \in Seq(Calls), calls # <<>>, NEW known, GoodCalls(calls, known)
  PROVE  /\ Head(calls) \in Calls /\ Head(calls) = calls[1] /\ GoodCall(Head(calls))
         /\ Head(calls).op = "activeUser" =>
              <<Head(calls).platform, Head(calls).user>> \in known
<1>1. Len(calls) > 0 /\ Head(calls) = calls[1] /\ calls[1] \in Calls /\ 1 \in 1..Len(calls)
  OBVIOUS
<1> QED
  BY <1>1 DEF GoodCalls, InOrder, Follows

\* A process prepares its next write from what it reads (Prepared, store.ts).
LEMMA PrepareKeeps ==
  ASSUME TypeOK, StoreInv, NEW c \in Procs, Prepare(c)
  PROVE  TypeOK' /\ StoreInv'
<1>1. proc[c] \in Processes /\ GoodProcess(proc[c], Known) /\ proc[c].cmd \in CommandLines
  BY ProcessIs DEF Prepare, Live
<1>2. proc[c].calls \in Seq(Calls) /\ GoodCalls(proc[c].calls, Known)
  BY <1>1 DEF Processes, GoodProcess
<1>3. PICK write : write = Prepared(Head(proc[c].calls))
  OBVIOUS
<1>4. write \in Writes /\ ~write.open /\ WriteOf(Head(proc[c].calls), write, Known)
  <2>1. PICK call : call = Head(proc[c].calls)
    OBVIOUS
  <2>2. /\ call \in Calls /\ GoodCall(call)
        /\ call.op = "activeUser" => <<call.platform, call.user>> \in Known
    BY <1>2, <2>1, FirstCall DEF Prepare
  <2>3. call.op # "remove" /\ write = Prepared(call)
    BY <1>3, <2>1 DEF Prepare
  <2> QED
    BY <2>1, <2>2, <2>3, PreparedGood
<1>5. PICK x : x = [proc[c] EXCEPT !.write = write]
  OBVIOUS
<1>6. /\ x \in Processes /\ x.pc = "running" /\ x.platform = proc[c].platform
      /\ x.user = proc[c].user /\ x.cmd = proc[c].cmd /\ x.calls = proc[c].calls /\ x.write = write
  BY <1>1, <1>4, <1>5 DEF Processes, Prepare
<1>7. GoodProcess(x, Known)
  BY <1>1, <1>4, <1>6 DEF GoodProcess, GoodWrite, RunsAs, Prepare
<1>8. proc' = [proc EXCEPT ![c] = x]
  BY <1>3, <1>5 DEF Prepare, TypeOK
<1> QED
  BY <1>1, <1>6, <1>7, <1>8, ProcessMoves DEF Prepare

----------------------------------------------------------------------------
\* Steps that change a file.

\* A file that changes leaves the invariant as it is when what it then holds is what
\* its readers expect, and no user is forgotten.
LEMMA FileMoves ==
  ASSUME TypeOK, StoreInv, NEW c \in Procs, NEW x \in Processes, NEW f \in Files, NEW v,
         proc' = [proc EXCEPT ![c] = x], disk' = [disk EXCEPT ![f] = v], limit' = limit,
         chosen' \in States \cup {Torn}, removed \subseteq removed',
         removed' \subseteq Platforms \X Users, x.cmd \in CommandLines,
         f = StateFile => v \in States \cup {Torn} /\ (v # Torn => AllKnown(v, Known)),
         f # StateFile => v \in Users \cup {None, Torn},
         \A p \in Platforms, u \in Users : f = TokenFile(p, u) =>
           v \in {u, None, Torn} /\ (v = None => disk[f] = None \/ <<p, u>> \in removed'),
         GoodProcess(x, Known')
  PROVE  TypeOK' /\ StoreInv'
<1>1. /\ proc' \in [Procs -> Processes]
      /\ \A d \in Procs : proc'[d] = IF d = c THEN x ELSE proc[d]
  BY DEF TypeOK
<1>2. \A g \in Files : disk'[g] = IF g = f THEN v ELSE disk[g]
  BY DEF TypeOK
<1>3. Known \subseteq Known'
  <2>1. ASSUME NEW login \in Platforms \X Users, login \in Known PROVE login \in Known'
    <3>1. PICK p \in Platforms, u \in Users : login = <<p, u>>
      BY <2>1
    <3>2. TokenFile(p, u) \in Files
      BY FilesAre
    <3>3. disk[TokenFile(p, u)] # None \/ <<p, u>> \in removed
      BY <2>1, <3>1 DEF Known
    <3>4. disk'[TokenFile(p, u)] # None \/ <<p, u>> \in removed'
      BY <1>2, <3>2, <3>3
    <3> QED
      BY <3>1, <3>4 DEF Known
  <2> QED
    BY <2>1 DEF Known
<1>4. TypeOK'
  <2>1. v \in States \cup Users \cup {None, Torn}
    OBVIOUS
  <2>2. disk' \in [Files -> States \cup Users \cup {None, Torn}]
    BY <2>1 DEF TypeOK
  <2>3. disk'[StateFile] \in States \cup {Torn}
    BY <1>2, FilesAre DEF TypeOK
  <2>4. \A g \in TokenFiles \cup ConfigFiles : g # StateFile /\ g \in Files
    BY FilesDiffer, FilesAre DEF TokenFiles, ConfigFiles
  <2>5. \A g \in TokenFiles \cup ConfigFiles : disk'[g] \in Users \cup {None, Torn}
    BY <1>2, <2>4 DEF TypeOK
  <2>6. \A d \in Procs : proc'[d].pc \notin {"idle", "over"} => proc'[d].cmd \in CommandLines
    BY <1>1 DEF TypeOK, Live
  <2> QED
    BY <1>1, <2>2, <2>3, <2>5, <2>6 DEF TypeOK, Live
<1>5. StoreInv'
  <2>1. TokenOfUser'
    BY <1>2, FilesAre DEF StoreInv, TokenOfUser
  <2>2. disk'[StateFile] # Torn => AllKnown(disk'[StateFile], Known')
    BY <1>2, <1>3, FilesAre DEF StoreInv, AllKnown
  <2>3. \A d \in Procs : GoodProcess(proc'[d], Known')
    BY <1>1, <1>3, KnowsMore DEF StoreInv
  <2> QED
    BY <2>1, <2>2, <2>3 DEF StoreInv
<1> QED
  BY <1>4, <1>5

\* A process in a write has the call for it, and keeps to it.
LEMMA InWrite ==
  ASSUME TypeOK, StoreInv, NEW c \in Procs, proc[c].pc = "running", proc[c].write # None
  PROVE  /\ proc[c] \in Processes /\ GoodProcess(proc[c], Known) /\ proc[c].cmd \in CommandLines
         /\ proc[c].write \in Writes /\ proc[c].calls \in Seq(Calls) /\ proc[c].calls # <<>>
         /\ WriteOf(Head(proc[c].calls), proc[c].write, Known)
<1>1. proc[c] \in Processes /\ GoodProcess(proc[c], Known) /\ proc[c].cmd \in CommandLines
  BY ProcessIs DEF Live
<1>2. proc[c].write \in Writes /\ proc[c].calls \in Seq(Calls)
  BY <1>1 DEF Processes
<1> QED
  BY <1>1, <1>2 DEF GoodProcess, GoodWrite

\* writeFileSync empties the file: a login that is being saved counts as one from then on.
LEMMA EmptyFileKeeps ==
  ASSUME TypeOK, StoreInv, NEW c \in Procs, EmptyFile(c)
  PROVE  TypeOK' /\ StoreInv'
<1>1. /\ proc[c] \in Processes /\ GoodProcess(proc[c], Known) /\ proc[c].cmd \in CommandLines
      /\ proc[c].write \in Writes /\ proc[c].calls # <<>>
      /\ WriteOf(Head(proc[c].calls), proc[c].write, Known)
  BY InWrite DEF EmptyFile
<1>2. PICK f : f = proc[c].write.file
  OBVIOUS
<1>3. f \in Files /\ disk' = [disk EXCEPT ![f] = Torn]
  BY <1>1, <1>2 DEF EmptyFile, Writes
<1>4. PICK write : write = [proc[c].write EXCEPT !.open = TRUE]
  OBVIOUS
<1>5. /\ write \in Writes /\ write.file = f /\ write.content = proc[c].write.content
      /\ write.open = TRUE
  BY <1>1, <1>2, <1>4 DEF Writes
<1>6. PICK x : x = [proc[c] EXCEPT !.write = write]
  OBVIOUS
<1>7. /\ x \in Processes /\ x.pc = proc[c].pc /\ x.platform = proc[c].platform
      /\ x.user = proc[c].user /\ x.cmd = proc[c].cmd /\ x.calls = proc[c].calls
      /\ x.write = write
  BY <1>1, <1>5, <1>6 DEF Processes
<1>8. proc' = [proc EXCEPT ![c] = x]
  BY <1>1, <1>4, <1>6 DEF EmptyFile, TypeOK, Processes
<1>9. \A p \in Platforms, u \in Users :
        <<p, u>> \in Known \/ f = TokenFile(p, u) => <<p, u>> \in Known'
  <2> SUFFICES ASSUME NEW p \in Platforms, NEW u \in Users,
                      <<p, u>> \in Known \/ f = TokenFile(p, u)
               PROVE  <<p, u>> \in Known'
    OBVIOUS
  <2>1. disk'[TokenFile(p, u)] = IF f = TokenFile(p, u) THEN Torn ELSE disk[TokenFile(p, u)]
    BY <1>3, FilesAre DEF TypeOK
  <2>2. None # Torn /\ removed' = removed
    BY StoreAssumption DEF EmptyFile
  <2>3. disk[TokenFile(p, u)] # None \/ <<p, u>> \in removed \/ f = TokenFile(p, u)
    BY DEF Known
  <2>4. disk'[TokenFile(p, u)] # None \/ <<p, u>> \in removed'
    BY <2>1, <2>2, <2>3
  <2> QED
    BY <2>4 DEF Known
<1>10. Known \subseteq Known'
  BY <1>9 DEF Known
<1>11. WriteOf(Head(x.calls), x.write, Known)
  BY <1>1, <1>2, <1>5, <1>7 DEF WriteOf
<1>12. GoodCalls(x.calls, Known) /\ RunsAs(x)
  BY <1>1, <1>7 DEF GoodProcess, RunsAs
<1>13. WriteOf(Head(x.calls), x.write, Known') /\ GoodCalls(x.calls, Known')
  BY <1>10, <1>11, <1>12 DEF WriteOf, AllKnown, GoodCalls, InOrder
<1>14. GoodProcess(x, Known')
  BY <1>1, <1>5, <1>7, <1>9, <1>12, <1>13 DEF GoodProcess, GoodWrite
<1>15. PICK v : v = Torn
  OBVIOUS
<1>16. \A p \in Platforms, u \in Users : f = TokenFile(p, u) =>
         v \in {u, None, Torn} /\ (v = None => disk[f] = None \/ <<p, u>> \in removed')
  BY <1>15, StoreAssumption
<1>17. /\ limit' = limit /\ removed \subseteq removed' /\ removed' \subseteq Platforms \X Users
       /\ chosen' \in States \cup {Torn}
  BY DEF EmptyFile, TypeOK
<1>18. /\ f = StateFile => v \in States \cup {Torn} /\ (v # Torn => AllKnown(v, Known))
       /\ f # StateFile => v \in Users \cup {None, Torn}
       /\ x \in Processes /\ x.cmd \in CommandLines
  BY <1>1, <1>7, <1>15
<1>19. f \in Files /\ disk' = [disk EXCEPT ![f] = v]
  BY <1>3, <1>15
<1> QED
  BY <1>8, <1>14, <1>16, <1>17, <1>18, <1>19, FileMoves

\* With its first call done, a process still makes only known users active.
LEMMA TailGood ==
  ASSUME NEW calls \in Seq(Calls), calls # <<>>, NEW known, GoodCalls(calls, known),
         Head(calls).op = "token" => <<Head(calls).platform, Head(calls).user>> \in known
  PROVE  Tail(calls) \in Seq(Calls) /\ GoodCalls(Tail(calls), known)
<1>1. /\ Tail(calls) \in Seq(Calls) /\ Len(Tail(calls)) = Len(calls) - 1 /\ Len(calls) \in Nat
      /\ \A i \in 1..Len(Tail(calls)) : Tail(calls)[i] = calls[i + 1] /\ i + 1 \in 1..Len(calls)
  OBVIOUS
<1>2. \A i \in 1..Len(Tail(calls)) : GoodCall(Tail(calls)[i])
  BY <1>1 DEF GoodCalls
<1>3. ASSUME NEW i \in 1..Len(Tail(calls)), Tail(calls)[i].op = "activeUser"
      PROVE  <<Tail(calls)[i].platform, Tail(calls)[i].user>> \in known \/ Follows(Tail(calls), i)
  <2>1. Tail(calls)[i] = calls[i + 1] /\ i + 1 \in 1..Len(calls)
    BY <1>1
  <2>2. <<calls[i + 1].platform, calls[i + 1].user>> \in known \/ Follows(calls, i + 1)
    BY <1>3, <2>1 DEF GoodCalls, InOrder
  <2>3. CASE i = 1
    BY <2>1, <2>2, <2>3 DEF Follows
  <2>4. CASE i > 1
    <3>1. Tail(calls)[i - 1] = calls[i] /\ (i + 1) - 1 = i
      BY <1>1, <2>4
    <3> QED
      BY <2>1, <2>2, <2>4, <3>1 DEF Follows
  <2> QED
    BY <2>3, <2>4
<1> QED
  BY <1>1, <1>2, <1>3 DEF GoodCalls, InOrder

\* A filled file holds what was written, or still nothing readable, or none when the login
\* was removed meanwhile.
LEMMA FillFileKeeps ==
  ASSUME TypeOK, StoreInv, NEW c \in Procs, FillFile(c)
  PROVE  TypeOK' /\ StoreInv'
<1>1. /\ proc[c] \in Processes /\ GoodProcess(proc[c], Known) /\ proc[c].cmd \in CommandLines
      /\ proc[c].write \in Writes /\ proc[c].calls \in Seq(Calls) /\ proc[c].calls # <<>>
      /\ WriteOf(Head(proc[c].calls), proc[c].write, Known)
  BY InWrite DEF FillFile
<1>2. PICK f : f = proc[c].write.file
  OBVIOUS
<1>3. PICK content : content = proc[c].write.content
  OBVIOUS
<1>4. PICK v \in Filled(f, content) : disk' = [disk EXCEPT ![f] = v]
  BY <1>2, <1>3 DEF FillFile
<1>5. f \in Files /\ removed' = removed /\ limit' = limit
  BY <1>1, <1>2 DEF FillFile, Writes
<1>6. v \in {content, Torn} \/ (f \in TokenFiles /\ v = None /\ disk[f] = None)
  BY <1>4 DEF Filled
<1>7. PICK call : call = Head(proc[c].calls)
  OBVIOUS
<1>8. /\ call \in Calls /\ GoodCall(call)
      /\ call.op = "activeUser" => <<call.platform, call.user>> \in Known
  BY <1>1, <1>7, FirstCall DEF GoodProcess
<1>9. /\ call.op \in {"token", "config", "activeUser", "activePlatform"}
      /\ call.platform \in Platforms
      /\ call.user \in Users \cup {None} /\ call.value \in Users \cup {None}
  BY <1>1, <1>7, <1>8 DEF Calls, WriteOf
<1>10. /\ call.op = "token" => f = TokenFile(call.platform, call.user) /\ content = call.user
       /\ call.op = "config" =>
            (\E u \in Users : f = ConfigFile(call.platform, u)) /\ content = call.value
       /\ call.op \in {"activeUser", "activePlatform"} =>
            f = StateFile /\ content \in States /\ AllKnown(content, Known)
  BY <1>1, <1>2, <1>3, <1>7 DEF WriteOf
<1>11. call.op = "token" => call.user \in Users
  BY <1>8, <1>9 DEF GoodCall
<1>12. \A p \in Platforms, u \in Users : TokenFile(p, u) # StateFile /\ ConfigFile(p, u) # StateFile
  BY FilesDiffer
<1>13. StateFile \notin TokenFiles
  BY <1>12 DEF TokenFiles
<1>14. f = StateFile => v \in States \cup {Torn} /\ (v # Torn => AllKnown(v, Known))
  BY <1>6, <1>9, <1>10, <1>11, <1>12, <1>13
<1>15. f # StateFile => v \in Users \cup {None, Torn}
  BY <1>6, <1>9, <1>10, <1>11
<1>16. ASSUME NEW p \in Platforms, NEW u \in Users, f = TokenFile(p, u)
       PROVE  /\ v \in {u, None, Torn} /\ (v = None => disk[f] = None \/ <<p, u>> \in removed')
              /\ <<p, u>> \in Known
  <2>1. call.op = "token"
    BY <1>9, <1>10, <1>16, FilesDiffer
  <2>2. call.user = u
    BY <1>10, <1>16, <2>1, FilesDiffer
  <2>3. <<p, u>> \in Known
    BY <1>1, <1>2, <1>16 DEF GoodProcess, GoodWrite, FillFile
  <2>4. None # u /\ None # Torn
    BY StoreAssumption
  <2> QED
    BY <1>6, <1>10, <2>1, <2>2, <2>3, <2>4
<1>17. PICK calls : calls = Tail(proc[c].calls)
  OBVIOUS
<1>18. PICK x : x = [proc[c] EXCEPT !.calls = calls, !.write = None]
  OBVIOUS
<1>19. calls \in Seq(Calls) /\ GoodCalls(calls, Known)
  <2>1. call.op = "token" => <<call.platform, call.user>> \in Known
    BY <1>9, <1>10, <1>11, <1>16
  <2> QED
    BY <1>1, <1>7, <1>17, <2>1, TailGood DEF GoodProcess
<1>20. /\ x \in Processes /\ x.pc = proc[c].pc /\ x.platform = proc[c].platform
       /\ x.user = proc[c].user /\ x.cmd = proc[c].cmd /\ x.calls = calls /\ x.write = None
  BY <1>1, <1>18, <1>19 DEF Processes
<1>21. GoodProcess(x, Known)
  BY <1>1, <1>19, <1>20 DEF GoodProcess, GoodWrite, RunsAs
<1>22. proc' = [proc EXCEPT ![c] = x]
  BY <1>1, <1>17, <1>18 DEF FillFile, TypeOK, Processes
<1>23. Known \subseteq Known'
  <2>1. ASSUME NEW p \in Platforms, NEW u \in Users, <<p, u>> \in Known
        PROVE  <<p, u>> \in Known'
    <3>1. disk'[TokenFile(p, u)] = IF f = TokenFile(p, u) THEN v ELSE disk[TokenFile(p, u)]
      BY <1>4, <1>5, FilesAre DEF TypeOK
    <3>2. disk[TokenFile(p, u)] # None \/ <<p, u>> \in removed
      BY <2>1 DEF Known
    <3>3. disk'[TokenFile(p, u)] # None \/ <<p, u>> \in removed'
      BY <1>5, <1>16, <3>1, <3>2
    <3> QED
      BY <3>3 DEF Known
  <2> QED
    BY <2>1 DEF Known
<1>24. GoodProcess(x, Known')
  BY <1>21, <1>23, KnowsMore
<1>25. chosen' \in States \cup {Torn}
  <2>1. f = StateFile => disk'[StateFile] = v
    BY <1>4, <1>5 DEF TypeOK
  <2> QED
    BY <1>2, <1>14, <2>1 DEF FillFile, TypeOK
<1>26. removed' \subseteq Platforms \X Users /\ removed \subseteq removed'
  BY <1>5 DEF TypeOK
<1>27. \A p \in Platforms, u \in Users : f = TokenFile(p, u) =>
         v \in {u, None, Torn} /\ (v = None => disk[f] = None \/ <<p, u>> \in removed')
  BY <1>16
<1>28. disk' = [disk EXCEPT ![f] = v] /\ x \in Processes /\ x.cmd \in CommandLines
  BY <1>1, <1>4, <1>20
<1> QED
  BY <1>5, <1>14, <1>15, <1>22, <1>24, <1>25, <1>26, <1>27, <1>28, FileMoves

\* A login that is removed was one (deleteToken).
LEMMA RemoveKeeps ==
  ASSUME TypeOK, StoreInv, NEW c \in Procs, Remove(c)
  PROVE  TypeOK' /\ StoreInv'
<1>1. proc[c] \in Processes /\ GoodProcess(proc[c], Known) /\ proc[c].cmd \in CommandLines
  BY ProcessIs DEF Remove, Live
<1>2. PICK call : call = Head(proc[c].calls)
  OBVIOUS
<1>3. proc[c].calls \in Seq(Calls) /\ proc[c].calls # <<>> /\ call.op = "remove"
  BY <1>1, <1>2 DEF Remove, Processes
<1>4. call \in Calls /\ GoodCall(call)
  BY <1>1, <1>2, <1>3, FirstCall DEF GoodProcess
<1>5. call.platform \in Platforms /\ call.user \in Users
  BY <1>3, <1>4 DEF Calls, GoodCall
<1>6. PICK f : f = TokenFile(call.platform, call.user)
  OBVIOUS
<1>7. disk' = [disk EXCEPT ![f] = None] /\ removed' = removed \cup {<<call.platform, call.user>>}
  BY <1>2, <1>6 DEF Remove
<1>8. f \in Files /\ f # StateFile
  BY <1>5, <1>6, FilesAre, FilesDiffer
<1>9. proc[c].write = None
  BY <1>1, <1>2, <1>3 DEF GoodProcess, GoodWrite, WriteOf
<1>10. PICK calls : calls = Tail(proc[c].calls)
  OBVIOUS
<1>11. calls \in Seq(Calls) /\ GoodCalls(calls, Known)
  BY <1>1, <1>2, <1>3, <1>10, TailGood DEF GoodProcess
<1>12. PICK x : x = [proc[c] EXCEPT !.calls = calls]
  OBVIOUS
<1>13. /\ x \in Processes /\ x.pc = proc[c].pc /\ x.platform = proc[c].platform
       /\ x.user = proc[c].user /\ x.cmd = proc[c].cmd /\ x.calls = calls /\ x.write = None
  BY <1>1, <1>9, <1>11, <1>12 DEF Processes
<1>14. GoodProcess(x, Known)
  BY <1>1, <1>11, <1>13 DEF GoodProcess, GoodWrite, RunsAs
<1>15. proc' = [proc EXCEPT ![c] = x]
  BY <1>1, <1>10, <1>12 DEF Remove, TypeOK, Processes
<1>16. \A p \in Platforms, u \in Users :
         f = TokenFile(p, u) => <<p, u>> \in removed'
  BY <1>5, <1>6, <1>7, FilesDiffer
<1>17. Known \subseteq Known'
  <2>1. ASSUME NEW p \in Platforms, NEW u \in Users, <<p, u>> \in Known
        PROVE  <<p, u>> \in Known'
    <3>1. f # TokenFile(p, u) => disk'[TokenFile(p, u)] = disk[TokenFile(p, u)]
      BY <1>7, <1>8, FilesAre DEF TypeOK
    <3>2. disk[TokenFile(p, u)] # None \/ <<p, u>> \in removed
      BY <2>1 DEF Known
    <3>3. disk'[TokenFile(p, u)] # None \/ <<p, u>> \in removed'
      BY <1>7, <1>16, <3>1, <3>2
    <3> QED
      BY <3>3 DEF Known
  <2> QED
    BY <2>1 DEF Known
<1>18. GoodProcess(x, Known')
  BY <1>14, <1>17, KnowsMore
<1>19. /\ removed' \subseteq Platforms \X Users /\ removed \subseteq removed'
       /\ limit' = limit /\ chosen' = chosen /\ chosen' \in States \cup {Torn}
  BY <1>5, <1>7 DEF Remove, TypeOK
<1>20. \A p \in Platforms, u \in Users : f = TokenFile(p, u) =>
         None \in {u, None, Torn} /\ (None = None => disk[f] = None \/ <<p, u>> \in removed')
  BY <1>16
<1>21. /\ f = StateFile => None \in States \cup {Torn} /\ (None # Torn => AllKnown(None, Known))
       /\ f # StateFile => None \in Users \cup {None, Torn}
       /\ x \in Processes /\ x.cmd \in CommandLines
  BY <1>1, <1>8, <1>13
<1> QED
  BY <1>7, <1>8, <1>15, <1>18, <1>19, <1>20, <1>21, FileMoves

----------------------------------------------------------------------------
\* The first state: the logins that were saved before, one of them the active one.
LEMMA InitStore ==
  ASSUME Init
  PROVE  TypeOK /\ StoreInv
<1>1. PICK login \in Saved :
        disk = [f \in Files |->
          IF f = StateFile
          THEN [platform |-> login[1], active |-> [Empty.active EXCEPT ![login[1]] = login[2]]]
          ELSE IF f \in TokenFiles /\ <<f[2], f[3]>> \in Saved THEN f[3] ELSE None]
  BY DEF Init
<1>2. login[1] \in Platforms /\ login[2] \in Users /\ <<login[1], login[2]>> = login
  BY <1>1, StoreAssumption
<1>3. PICK state :
        state = [platform |-> login[1], active |-> [Empty.active EXCEPT ![login[1]] = login[2]]]
  OBVIOUS
<1>4. /\ state \in States
      /\ \A p \in Platforms : state.active[p] = IF p = login[1] THEN login[2] ELSE None
  BY <1>2, <1>3 DEF States, Empty
<1>5. disk[StateFile] = state
  BY <1>1, <1>3, FilesAre
<1>6. \A p \in Platforms, u \in Users :
        disk[TokenFile(p, u)] = IF <<p, u>> \in Saved THEN u ELSE None
  <2> SUFFICES ASSUME NEW p \in Platforms, NEW u \in Users
               PROVE  disk[TokenFile(p, u)] = IF <<p, u>> \in Saved THEN u ELSE None
    OBVIOUS
  <2>1. TokenFile(p, u) \in Files /\ TokenFile(p, u) \in TokenFiles /\ TokenFile(p, u) # StateFile
    BY FilesAre, FilesDiffer
  <2>2. TokenFile(p, u)[2] = p /\ TokenFile(p, u)[3] = u
    BY DEF TokenFile
  <2> QED
    BY <1>1, <2>1, <2>2
<1>7. \A p \in Platforms, u \in Users : disk[ConfigFile(p, u)] = None
  <2> SUFFICES ASSUME NEW p \in Platforms, NEW u \in Users PROVE disk[ConfigFile(p, u)] = None
    OBVIOUS
  <2>1. ConfigFile(p, u) \in Files /\ ConfigFile(p, u) # StateFile
    BY FilesAre, FilesDiffer
  <2>2. ConfigFile(p, u) \notin TokenFiles
    BY FilesDiffer DEF TokenFiles
  <2> QED
    BY <1>1, <2>1, <2>2
<1>8. \A f \in TokenFiles \cup ConfigFiles : disk[f] \in Users \cup {None, Torn}
  <2>1. ASSUME NEW f \in TokenFiles PROVE disk[f] \in Users \cup {None}
    <3>1. PICK p \in Platforms, u \in Users : f = TokenFile(p, u)
      BY DEF TokenFiles
    <3> QED
      BY <1>6, <3>1
  <2>2. ASSUME NEW f \in ConfigFiles PROVE disk[f] = None
    <3>1. PICK p \in Platforms, u \in Users : f = ConfigFile(p, u)
      BY DEF ConfigFiles
    <3> QED
      BY <1>7, <3>1
  <2> QED
    BY <2>1, <2>2
<1>9. disk \in [Files -> States \cup Users \cup {None, Torn}]
  <2>1. disk = [f \in Files |-> disk[f]]
    BY <1>1
  <2>2. \A f \in Files : disk[f] \in States \cup Users \cup {None, Torn}
    BY <1>4, <1>5, <1>8 DEF Files
  <2> QED
    BY <2>1, <2>2
<1>10. Process("idle", None) \in Processes /\ Process("idle", None).pc = "idle"
  BY NewProcess DEF Process
<1>11. proc = [c \in Procs |-> Process("idle", None)]
  BY DEF Init
<1>12. proc \in [Procs -> Processes] /\ \A c \in Procs : proc[c].pc = "idle"
  BY <1>10, <1>11
<1>13. TypeOK
  BY <1>4, <1>5, <1>8, <1>9, <1>12, StoreAssumption DEF TypeOK, Init, Live
<1>14. AllKnown(state, Known)
  <2>1. disk[TokenFile(login[1], login[2])] = login[2]
    BY <1>1, <1>2, <1>6
  <2>2. <<login[1], login[2]>> \in Known
    BY <1>2, <2>1, StoreAssumption DEF Known
  <2> QED
    BY <1>4, <2>2 DEF AllKnown
<1>15. \A c \in Procs : GoodProcess(proc[c], Known)
  <2>1. GoodProcess(Process("idle", None), Known)
    BY NewProcess
  <2> QED
    BY <1>11, <2>1
<1>16. TokenOfUser
  BY <1>6 DEF TokenOfUser
<1>17. StoreInv
  BY <1>5, <1>14, <1>15, <1>16 DEF StoreInv
<1> QED
  BY <1>13, <1>17

\* Every step of a process keeps what the store and the processes are.
LEMMA StepKeepsStore ==
  ASSUME TypeOK, StoreInv, [Next]_vars
  PROVE  TypeOK' /\ StoreInv'
<1>1. CASE UNCHANGED vars
  <2>1. Known' = Known
    BY <1>1 DEF Known, vars
  <2>2. StoreInv'
    BY <1>1, <2>1 DEF StoreInv, TokenOfUser, vars
  <2>3. TypeOK'
    BY <1>1 DEF TypeOK, Live, vars
  <2> QED
    BY <2>2, <2>3
<1>2. ASSUME NEW c \in Procs, Start(c) PROVE TypeOK' /\ StoreInv'
  BY <1>2, StartKeeps
<1>3. ASSUME NEW c \in Procs, ReadThread(c) PROVE TypeOK' /\ StoreInv'
  BY <1>3, ReadThreadKeeps
<1>4. ASSUME NEW c \in Procs, Resolve(c) PROVE TypeOK' /\ StoreInv'
  BY <1>4, ResolveKeeps
<1>5. ASSUME NEW c \in Procs, Renew(c) PROVE TypeOK' /\ StoreInv'
  BY <1>5, RenewKeeps
<1>6. ASSUME NEW c \in Procs, OpenConversation(c) PROVE TypeOK' /\ StoreInv'
  BY <1>6, OpenConversationKeeps
<1>7. ASSUME NEW c \in Procs, Finish(c) \/ Kill(c) PROVE TypeOK' /\ StoreInv'
  BY <1>7, OverKeeps
<1>8. ASSUME NEW c \in Procs, Prepare(c) PROVE TypeOK' /\ StoreInv'
  BY <1>8, PrepareKeeps
<1>9. ASSUME NEW c \in Procs, EmptyFile(c) PROVE TypeOK' /\ StoreInv'
  BY <1>9, EmptyFileKeeps
<1>10. ASSUME NEW c \in Procs, FillFile(c) PROVE TypeOK' /\ StoreInv'
  BY <1>10, FillFileKeeps
<1>11. ASSUME NEW c \in Procs, Remove(c) PROVE TypeOK' /\ StoreInv'
  BY <1>11, RemoveKeeps
<1> QED
  BY <1>1, <1>2, <1>3, <1>4, <1>5, <1>6, <1>7, <1>8, <1>9, <1>10, <1>11 DEF Next

----------------------------------------------------------------------------
\* Commands that run one after another.

\* What a command looks up is what state.json holds (readState, platformOf).
LEMMA ReadsState ==
  /\ ReadState = Reading(disk[StateFile])
  /\ \A p : ActiveUser(p) = ActiveIn(disk[StateFile], p)
  /\ \A cmd : PlatformOf(cmd) = PlatformIn(disk[StateFile], cmd)
BY DEF ReadState, Reading, ActiveUser, ActiveIn, PlatformOf, PlatformIn

\* The one process that lives is as it should be.
LEMMA AloneIs ==
  ASSUME AloneInv, limit = 1, NEW c \in Procs, Live(c)
  PROVE  /\ \A d \in Procs : Live(d) => d = c
         /\ AloneProcess(proc[c], disk[StateFile], chosen)
         /\ disk[StateFile] # Torn => disk[StateFile] = chosen
         /\ \A p \in Platforms, u \in Users : disk[ConfigFile(p, u)] \in {u, None, Torn}
BY DEF AloneInv

\* A step of the one process that lives, or of the first one to live.
LEMMA AloneMoves ==
  ASSUME TypeOK, limit' = limit, NEW c \in Procs, NEW x, proc' = [proc EXCEPT ![c] = x],
         \A d \in Procs : Live(d) => d = c,
         disk'[StateFile] # Torn => disk'[StateFile] = chosen',
         \A p \in Platforms, u \in Users : disk'[ConfigFile(p, u)] \in {u, None, Torn},
         x.pc \notin {"idle", "over"} => AloneProcess(x, disk'[StateFile], chosen')
  PROVE  AloneInv'
<1>1. \A d \in Procs : proc'[d] = IF d = c THEN x ELSE proc[d]
  BY DEF TypeOK
<1>2. \A d \in Procs : proc'[d].pc \notin {"idle", "over"} => d = c
  BY <1>1 DEF Live
<1>3. \A d \in Procs : proc'[d].pc \notin {"idle", "over"} =>
        AloneProcess(proc'[d], disk'[StateFile], chosen')
  BY <1>1, <1>2
<1> QED
  BY <1>2, <1>3 DEF AloneInv, Live

\* The same of a step that touches no file.
LEMMA AloneWaits ==
  ASSUME TypeOK, AloneInv, limit = 1, NEW c \in Procs, NEW x, proc' = [proc EXCEPT ![c] = x],
         UNCHANGED <<disk, limit, chosen, removed>>, \A d \in Procs : Live(d) => d = c,
         x.pc \notin {"idle", "over"} => AloneProcess(x, disk[StateFile], chosen)
  PROVE  AloneInv'
<1>1. /\ disk[StateFile] # Torn => disk[StateFile] = chosen
      /\ \A p \in Platforms, u \in Users : disk[ConfigFile(p, u)] \in {u, None, Torn}
  BY DEF AloneInv
<1>2. disk' = disk /\ chosen' = chosen /\ limit' = limit
  OBVIOUS
<1> QED
  BY <1>1, <1>2, AloneMoves

\* No command but a run remembers a conversation, and forget remembers none.
LEMMA AsksOther ==
  ASSUME TypeOK, NEW cmd \in Commands, cmd.kind \notin Runs, NEW x, x.cmd = cmd
  PROVE  \A i \in 1..Len(Asks(cmd)) : OtherCall(x, Asks(cmd)[i])
<1> DEFINE p == PlatformOf(cmd)
           calls == Asks(cmd)
<1>1. cmd \in CommandLines /\ (cmd.kind = "login" => cmd.user # None)
  BY CommandsAssumption
<1>2. \A q, u, owner : /\ SaveToken(q, u, owner).op # "config" /\ SetActiveUser(q, u).op # "config"
                       /\ SetActivePlatform(q).op # "config" /\ RemoveToken(q, u).op # "config"
                       /\ UpdateConfig(q, owner).op = "config" /\ UpdateConfig(q, owner).value = owner
  BY DEF SaveToken, SetActiveUser, SetActivePlatform, RemoveToken, UpdateConfig, Call
<1>3. p \in Platforms \cup {None}
  BY <1>1, LooksUp
<1>4. CASE p = None
  BY <1>4 DEF Asks
<1>5. CASE cmd.kind = "login" /\ p # None
  <2>1. p \in Platforms /\ cmd.user \in Users
    BY <1>1, <1>3, <1>5 DEF CommandLines
  <2>2. calls = AttachToken(p, cmd.user)
    BY <1>5 DEF Asks
  <2>3. calls = <<SaveToken(p, cmd.user, cmd.user), SetActiveUser(p, cmd.user), SetActivePlatform(p)>>
    BY <2>1, <2>2, AttachTokenGood
  <2> QED
    BY <1>2, <1>5, <2>3 DEF OtherCall
<1>6. CASE cmd.kind = "switch" /\ p # None
  <2>1. calls \in {<<>>, <<SetActiveUser(p, cmd.user), SetActivePlatform(p)>>}
    BY <1>6 DEF Asks, SwitchUser
  <2> QED
    BY <1>2, <1>6, <2>1 DEF OtherCall
<1>7. CASE cmd.kind \in {"use", "set"} /\ p # None
  <2>1. calls \in {<<>>, <<SetActivePlatform(p)>>}
    BY <1>7 DEF Asks, Use
  <2> QED
    BY <1>2, <1>7, <2>1 DEF OtherCall
<1>8. CASE cmd.kind \in {"logout", "delete"} /\ p # None
  <2>1. calls \in {<<>>, <<RemoveToken(p, ActiveUser(p))>>}
    BY <1>8 DEF Asks, DeletePlatform
  <2> QED
    BY <1>2, <1>8, <2>1 DEF OtherCall
<1>9. CASE cmd.kind = "forget" /\ p # None
  <2>1. calls = <<UpdateConfig(p, None)>>
    BY <1>9 DEF Asks
  <2> QED
    BY <1>2, <1>9, <2>1 DEF OtherCall
<1> QED
  BY <1>1, <1>4, <1>5, <1>6, <1>7, <1>8, <1>9 DEF CommandLines, SignIn

\* A renewal touches the login of the command's own user, and makes active nobody but the
\* user who is (persist, currentTokenFresh, write_refreshed_token).
LEMMA PersistRuns ==
  ASSUME NEW x, x.cmd.kind \in Runs \ {"runToken"}, NEW p \in Platforms, NEW u \in Users,
         x.platform = p, x.user = u
  PROVE  \A i \in 1..Len(Persist(x.cmd.kind, p, u)) : RunCall(x, Persist(x.cmd.kind, p, u)[i])
<1> DEFINE calls == Persist(x.cmd.kind, p, u)
<1>1. /\ SaveToken(p, u, u).op = "token" /\ SetActiveUser(p, u).op = "activeUser"
      /\ SetActiveUser(p, u).platform = p /\ SetActiveUser(p, u).user = u
  BY DEF SaveToken, SetActiveUser, Call
<1>2. CASE x.cmd.kind \in {"python", "pythonAs"}
  <2>1. calls \in {<<>>, <<SaveToken(p, u, u)>>}
    BY <1>2 DEF Persist, WriteRefreshedToken
  <2> QED
    BY <1>1, <2>1 DEF RunCall
<1>3. CASE x.cmd.kind = "runAs"
  <2>1. calls = <<SaveToken(p, u, u)>>
    BY <1>3, WriteTokenGood DEF Persist
  <2> QED
    BY <1>1, <2>1 DEF RunCall
<1>4. CASE x.cmd.kind \in {"run", "runNew"}
  <2>1. calls = <<SaveToken(p, u, u), SetActiveUser(p, u)>>
    BY <1>4, WriteTokenGood DEF Persist
  <2> QED
    BY <1>1, <1>4, <2>1 DEF RunCall
<1> QED
  BY <1>2, <1>3, <1>4 DEF Runs

\* The one process starts when no other lives.
LEMMA StartAlone ==
  ASSUME TypeOK, StoreInv, AloneInv, limit = 1, NEW c \in Procs, Start(c)
  PROVE  AloneInv'
<1>1. PICK cmd \in Commands :
        proc' = [proc EXCEPT ![c] =
          IF cmd.kind \in Runs THEN Process("thread", cmd)
          ELSE [Process("running", cmd) EXCEPT !.calls = Asks(cmd)]]
  BY DEF Start
<1>2. \A d \in Procs : ~Live(d)
  <2>1. PICK live : live = {d \in Procs : Live(d)}
    OBVIOUS
  <2>2. live \subseteq Procs
    BY <2>1
  <2>3. IsFiniteSet(live)
    BY <2>2, StoreAssumption, FS_Subset
  <2>4. Cardinality(live) \in Nat /\ (Cardinality(live) = 0 <=> live = {})
    BY <2>3, FS_CardinalityType, FS_EmptySet
  <2>5. Cardinality(live) < 1
    BY <2>1 DEF Start
  <2> QED
    BY <2>1, <2>4, <2>5
<1>3. cmd \in CommandLines
  BY CommandsAssumption
<1>4. CASE cmd.kind \in Runs
  <2>1. PICK x : x = Process("thread", cmd)
    OBVIOUS
  <2>2. x.pc = "thread" /\ x.calls = <<>> /\ x.cmd = cmd /\ x.joined = None
    BY <2>1 DEF Process
  <2>3. AloneProcess(x, disk[StateFile], chosen)
    BY <1>4, <2>2 DEF AloneProcess
  <2>4. proc' = [proc EXCEPT ![c] = x] /\ UNCHANGED <<disk, limit, chosen, removed>>
    BY <1>1, <1>4, <2>1 DEF Start
  <2> QED
    BY <1>2, <2>3, <2>4, AloneWaits
<1>5. CASE cmd.kind \notin Runs
  <2>1. PICK x : x = [Process("running", cmd) EXCEPT !.calls = Asks(cmd)]
    OBVIOUS
  <2>2. x.pc = "running" /\ x.calls = Asks(cmd) /\ x.cmd = cmd /\ x.joined = None
    BY <2>1 DEF Process
  <2>3. AloneOther(x)
    BY <1>5, <2>2, AsksOther DEF AloneOther
  <2>4. AloneProcess(x, disk[StateFile], chosen)
    BY <1>5, <2>2, <2>3 DEF AloneProcess
  <2>5. proc' = [proc EXCEPT ![c] = x] /\ UNCHANGED <<disk, limit, chosen, removed>>
    BY <1>1, <1>5, <2>1 DEF Start
  <2> QED
    BY <1>2, <2>4, <2>5, AloneWaits
<1> QED
  BY <1>4, <1>5

\* When the one process is over, none lives.
LEMMA OverAlone ==
  ASSUME TypeOK, AloneInv, limit = 1, NEW c \in Procs, Finish(c) \/ Kill(c)
  PROVE  AloneInv'
<1>1. Over.pc = "over"
  BY DEF Over, Process
<1>2. proc' = [proc EXCEPT ![c] = Over] /\ UNCHANGED <<disk, limit, chosen, removed>>
  BY DEF Finish, Kill
<1>3. Live(c)
  BY DEF Finish, Kill, AtRest, Live
<1> QED
  BY <1>1, <1>2, <1>3, AloneIs, AloneWaits

\* The conversation that is joined is the one remembered for the active user.
LEMMA ReadThreadAlone ==
  ASSUME TypeOK, StoreInv, AloneInv, limit = 1, NEW c \in Procs, ReadThread(c)
  PROVE  AloneInv'
<1>1. PICK store : store = PlatformOf(proc[c].cmd)
  OBVIOUS
<1>2. PICK joined : joined = IF KeepsThread(proc[c].cmd) THEN Remembered(store) ELSE None
  OBVIOUS
<1>3. proc' = [proc EXCEPT ![c].pc = "resolve", ![c].store = store, ![c].joined = joined]
  BY <1>1, <1>2 DEF ReadThread
<1>4. Live(c) /\ proc[c].pc = "thread"
  BY DEF ReadThread, Live
<1>5. proc[c] \in Processes /\ proc[c].cmd \in CommandLines
  BY <1>4, ProcessIs
<1>6. proc[c].calls = <<>> /\ proc[c].cmd.kind \in Runs
  BY <1>4, AloneIs DEF AloneProcess
<1>7. joined # None => proc[c].cmd.kind = "run" /\ joined = ActiveUser(store)
  <2>1. CASE joined # None
    <3>1. KeepsThread(proc[c].cmd) /\ joined = Remembered(store)
      BY <1>2, <2>1
    <3>2. ActiveUser(store) # None /\ joined = disk[ConfigFile(store, ActiveUser(store))]
          /\ disk[ConfigFile(store, ActiveUser(store))] # Torn
      BY <2>1, <3>1 DEF Remembered
    <3>3. store \in Platforms /\ ActiveUser(store) \in Users
      BY <1>1, <1>5, <3>2, LooksUp DEF ActiveUser
    <3>4. disk[ConfigFile(store, ActiveUser(store))] \in {ActiveUser(store), None, Torn}
      BY <1>4, <3>3, AloneIs
    <3> QED
      BY <2>1, <3>1, <3>2, <3>4 DEF KeepsThread
  <2> QED
    BY <2>1
<1>8. PICK x : x = [proc[c] EXCEPT !.pc = "resolve", !.store = store, !.joined = joined]
  OBVIOUS
<1>9. /\ x.pc = "resolve" /\ x.store = store /\ x.joined = joined
      /\ x.cmd = proc[c].cmd /\ x.calls = proc[c].calls
  BY <1>5, <1>8 DEF Processes
<1>10. AloneProcess(x, disk[StateFile], chosen)
  BY <1>1, <1>6, <1>7, <1>9, ReadsState DEF AloneProcess
<1>11. proc' = [proc EXCEPT ![c] = x] /\ UNCHANGED <<disk, limit, chosen, removed>>
  BY <1>3, <1>8 DEF TypeOK, ReadThread
<1> QED
  BY <1>4, <1>10, <1>11, AloneIs, AloneWaits

\* Between the look at the conversation and the look at the login nothing has changed.
LEMMA ResolveAlone ==
  ASSUME TypeOK, StoreInv, AloneInv, limit = 1, NEW c \in Procs, Resolve(c)
  PROVE  AloneInv'
<1> DEFINE p == PlatformOf(proc[c].cmd)
           u == IF proc[c].cmd.kind \in Named THEN proc[c].cmd.user ELSE ActiveUser(p)
           stands == p # None /\ (proc[c].cmd.kind # "runToken" => HasLogin(p, u))
<1>1. proc' = IF stands
              THEN [proc EXCEPT ![c].pc = "running", ![c].platform = p, ![c].user = u]
              ELSE [proc EXCEPT ![c] = Over]
  BY DEF Resolve
<1>2. Live(c) /\ proc[c].pc = "resolve"
  BY DEF Resolve, Live
<1>3. proc[c] \in Processes /\ GoodProcess(proc[c], Known)
  BY ProcessIs
<1>4. /\ proc[c].calls = <<>> /\ proc[c].cmd.kind \in Runs /\ proc[c].store = p
      /\ proc[c].joined # None => proc[c].cmd.kind = "run" /\ proc[c].joined = ActiveUser(p)
  BY <1>2, AloneIs, ReadsState DEF AloneProcess
<1>5. proc[c].write = None
  BY <1>3, <1>4 DEF GoodProcess, GoodWrite
<1>6. proc[c].cmd.kind \in {"run", "runNew"} => u = ActiveUser(p)
  BY DEF Named
<1> HIDE DEF p, u, stands
<1>7. CASE stands
  <2>1. PICK x : x = [proc[c] EXCEPT !.pc = "running", !.platform = p, !.user = u]
    OBVIOUS
  <2>2. /\ x.pc = "running" /\ x.platform = p /\ x.user = u /\ x.joined = proc[c].joined
        /\ x.cmd = proc[c].cmd /\ x.calls = <<>> /\ x.write = None /\ x.store = proc[c].store
    BY <1>3, <1>4, <1>5, <2>1 DEF Processes
  <2>3. FindsItself(x, disk[StateFile])
    BY <1>6, <2>2, ReadsState DEF FindsItself, InState
  <2>4. AloneRun(x, disk[StateFile], chosen)
    BY <1>4, <1>6, <2>2, <2>3 DEF AloneRun, RunWrite
  <2>5. AloneProcess(x, disk[StateFile], chosen)
    BY <1>4, <2>2, <2>4 DEF AloneProcess
  <2>6. proc' = [proc EXCEPT ![c] = x] /\ UNCHANGED <<disk, limit, chosen, removed>>
    BY <1>1, <1>7, <2>1 DEF TypeOK, Resolve
  <2> QED
    BY <1>2, <2>5, <2>6, AloneIs, AloneWaits
<1>8. CASE ~stands
  <2>1. Over.pc = "over"
    BY DEF Over, Process
  <2>2. proc' = [proc EXCEPT ![c] = Over] /\ UNCHANGED <<disk, limit, chosen, removed>>
    BY <1>1, <1>8 DEF Resolve
  <2> QED
    BY <1>2, <2>1, <2>2, AloneIs, AloneWaits
<1> QED
  BY <1>7, <1>8

\* The one process is a run between two writes, and makes calls of its own user.
LEMMA CallsAlone ==
  ASSUME TypeOK, StoreInv, AloneInv, limit = 1, NEW c \in Procs, AtRest(c),
         proc[c].cmd.kind \in Runs \ {"runToken"},
         NEW x, NEW calls \in Seq(Calls), NEW renewed \in BOOLEAN, NEW opened \in BOOLEAN,
         x = [proc[c] EXCEPT !.renewed = renewed, !.opened = opened, !.calls = calls],
         proc' = [proc EXCEPT ![c] = x], UNCHANGED <<disk, limit, chosen, removed>>,
         \A i \in 1..Len(calls) : RunCall(proc[c], calls[i])
  PROVE  AloneInv'
<1>1. Live(c) /\ proc[c].pc = "running" /\ proc[c].calls = <<>>
  BY DEF AtRest, Live
<1>2. proc[c] \in Processes /\ GoodProcess(proc[c], Known)
  BY ProcessIs
<1>3. proc[c].write = None
  BY <1>1, <1>2 DEF GoodProcess, GoodWrite
<1>4. AloneRun(proc[c], disk[StateFile], chosen)
  BY <1>1, AloneIs DEF AloneProcess
<1>5. /\ x.pc = "running" /\ x.cmd = proc[c].cmd /\ x.platform = proc[c].platform
      /\ x.user = proc[c].user /\ x.store = proc[c].store /\ x.joined = proc[c].joined
      /\ x.write = None /\ x.calls = calls
  BY <1>1, <1>2, <1>3 DEF Processes
<1>6. FindsItself(x, disk[StateFile])
  BY <1>3, <1>4, <1>5 DEF AloneRun, FindsItself, InState
<1>7. \A i \in 1..Len(x.calls) : RunCall(x, x.calls[i])
  BY <1>5 DEF RunCall
<1>8. AloneRun(x, disk[StateFile], chosen)
  BY <1>4, <1>5, <1>6, <1>7 DEF AloneRun, RunWrite
<1>9. AloneProcess(x, disk[StateFile], chosen)
  BY <1>5, <1>8 DEF AloneProcess
<1> QED
  BY <1>1, <1>9, AloneIs, AloneWaits

\* A run renews the login it runs as.
LEMMA RenewAlone ==
  ASSUME TypeOK, StoreInv, AloneInv, limit = 1, NEW c \in Procs, Renew(c)
  PROVE  AloneInv'
<1>1. /\ proc[c] \in Processes /\ GoodProcess(proc[c], Known) /\ AtRest(c)
      /\ proc[c].pc = "running" /\ proc[c].cmd.kind \in Runs \ {"runToken"}
  BY ProcessIs DEF Renew, AtRest
<1>2. proc[c].platform \in Platforms /\ proc[c].user \in Users
  BY <1>1 DEF GoodProcess, RunsAs, Processes
<1>3. PICK calls : calls = Persist(proc[c].cmd.kind, proc[c].platform, proc[c].user)
  OBVIOUS
<1>4. calls \in Seq(Calls) /\ \A i \in 1..Len(calls) : RunCall(proc[c], calls[i])
  BY <1>1, <1>2, <1>3, PersistGood, PersistRuns
<1>5. PICK x : x = [proc[c] EXCEPT !.renewed = TRUE, !.opened = proc[c].opened, !.calls = calls]
  OBVIOUS
<1>6. proc' = [proc EXCEPT ![c].renewed = TRUE, ![c].calls = calls]
  BY <1>3 DEF Renew
<1>7. proc' = [proc EXCEPT ![c] = x]
  BY <1>1, <1>5, <1>6 DEF TypeOK, Processes
<1>8. proc[c].opened \in BOOLEAN /\ UNCHANGED <<disk, limit, chosen, removed>>
  BY <1>1 DEF Processes, Renew
<1> QED
  BY <1>1, <1>4, <1>5, <1>7, <1>8, CallsAlone

\* A run remembers the conversation it opened for the user it runs as.
LEMMA OpenConversationAlone ==
  ASSUME TypeOK, StoreInv, AloneInv, limit = 1, NEW c \in Procs, OpenConversation(c)
  PROVE  AloneInv'
<1>1. /\ proc[c] \in Processes /\ AtRest(c) /\ Live(c) /\ proc[c].pc = "running"
      /\ proc[c].cmd.kind = "run"
  BY ProcessIs DEF OpenConversation, AtRest, Live, KeepsThread
<1>2. proc[c].store \in Platforms /\ proc[c].user \in Users \cup {None}
  BY <1>1 DEF OpenConversation, Processes
<1>3. proc[c].store = proc[c].platform
  BY <1>1, AloneIs DEF AloneProcess, AloneRun, Runs
<1>4. PICK a : a = UpdateConfig(proc[c].store, proc[c].user)
  OBVIOUS
<1>5. /\ a \in Calls /\ a.op = "config" /\ a.platform = proc[c].platform
      /\ a.value = proc[c].user
  BY <1>2, <1>3, <1>4 DEF UpdateConfig, Call, Calls
<1>6. PICK calls : calls = <<a>>
  OBVIOUS
<1>7. calls \in Seq(Calls) /\ Len(calls) = 1 /\ calls[1] = a
  BY <1>5, <1>6
<1>8. \A i \in 1..Len(calls) : RunCall(proc[c], calls[i])
  BY <1>1, <1>5, <1>7 DEF RunCall
<1>9. PICK x : x = [proc[c] EXCEPT !.renewed = proc[c].renewed, !.opened = TRUE, !.calls = calls]
  OBVIOUS
<1>10. proc' = [proc EXCEPT ![c].opened = TRUE, ![c].calls = calls]
  BY <1>4, <1>6 DEF OpenConversation
<1>11. proc' = [proc EXCEPT ![c] = x]
  BY <1>1, <1>9, <1>10 DEF TypeOK, Processes
<1>12. proc[c].renewed \in BOOLEAN /\ UNCHANGED <<disk, limit, chosen, removed>>
  BY <1>1 DEF Processes, OpenConversation
<1>13. proc[c].cmd.kind \in Runs \ {"runToken"}
  BY <1>1 DEF Runs
<1> QED
  BY <1>1, <1>7, <1>8, <1>9, <1>11, <1>12, <1>13, CallsAlone

\* A run that makes its user active finds that it is, and one that remembers a conversation
\* finds the file of its own user.
LEMMA RunPrepares ==
  ASSUME TypeOK, NEW x \in Processes, NEW call \in Calls, RunCall(x, call), RunsAs(x),
         x.pc = "running", x.cmd.kind \in Runs, x.write = None, x.calls # <<>>,
         AloneRun(x, disk[StateFile], chosen),
         disk[StateFile] # Torn => disk[StateFile] = chosen,
         NEW write, write = Prepared(call)
  PROVE  /\ write.file = StateFile =>
              write.content = chosen /\ chosen # Torn /\ chosen.active[x.platform] = x.user
         /\ write.file \in ConfigFiles =>
              write.file = ConfigFile(x.platform, x.user) /\ write.content = x.user
<1>1. x.cmd.kind \in {"run", "runNew"} => ActiveUser(x.platform) = x.user
  BY ReadsState DEF AloneRun, FindsItself, InState
<1>2. x.cmd.kind # "runToken" /\ x.platform \in Platforms /\ x.user \in Users
  BY DEF AloneRun, RunsAs, Processes
<1>3. \A p, u : ConfigFile(p, u) # StateFile /\ TokenFile(p, u) # StateFile
  BY FilesDiffer
<1>4. \A p, u : TokenFile(p, u) \notin ConfigFiles
  BY FilesDiffer DEF ConfigFiles
<1>5. StateFile \notin ConfigFiles
  BY <1>3 DEF ConfigFiles
<1>6. CASE call.op = "token"
  <2>1. write.file = TokenFile(call.platform, call.user)
    BY <1>6 DEF Prepared
  <2> QED
    BY <1>3, <1>4, <2>1
<1>7. CASE call.op = "config"
  <2>1. /\ x.cmd.kind = "run" /\ call.platform = x.platform /\ call.value = x.user
    BY <1>7 DEF RunCall
  <2>2. ConfigUser(x.platform) = x.user
    BY <1>1, <1>2, <2>1, StoreAssumption DEF ConfigUser
  <2>3. write.file = ConfigFile(x.platform, x.user) /\ write.content = x.user
    BY <1>7, <2>1, <2>2 DEF Prepared
  <2> QED
    BY <1>3, <2>3
<1>8. CASE call.op = "activeUser"
  <2>1. call.platform = x.platform /\ call.user = x.user /\ ActiveUser(x.platform) = x.user
    BY <1>1, <1>8 DEF RunCall
  <2>2. x.user # None /\ x.platform # None
    BY <1>2, StoreAssumption
  <2>3. ReadState.active[x.platform] = x.user
    BY <2>1, <2>2 DEF ActiveUser
  <2>4. disk[StateFile] # Torn
    BY <1>2, <2>2, <2>3 DEF ReadState, Empty
  <2>5. ReadState = chosen /\ chosen # Torn
    BY <2>4 DEF ReadState
  <2>6. PICK state : state = [ReadState EXCEPT !.active[x.platform] = x.user]
    OBVIOUS
  <2>7. ReadState \in States
    BY ReadStateTyped
  <2>8. state = ReadState
    BY <1>2, <2>3, <2>6, <2>7 DEF States
  <2>9. write.file = StateFile /\ write.content = state
    BY <1>8, <2>1, <2>6 DEF Prepared
  <2> QED
    BY <1>5, <2>3, <2>5, <2>8, <2>9
<1> QED
  BY <1>6, <1>7, <1>8 DEF RunCall

\* The one process prepares a write.
LEMMA PrepareAlone ==
  ASSUME TypeOK, StoreInv, AloneInv, limit = 1, NEW c \in Procs, Prepare(c)
  PROVE  AloneInv'
<1>1. /\ proc[c] \in Processes /\ GoodProcess(proc[c], Known) /\ Live(c)
      /\ proc[c].pc = "running" /\ proc[c].write = None /\ proc[c].calls # <<>>
  BY ProcessIs DEF Prepare, Live
<1>2. PICK call : call = Head(proc[c].calls)
  OBVIOUS
<1>3. call \in Calls /\ call = proc[c].calls[1] /\ 1 \in 1..Len(proc[c].calls)
  <2>1. proc[c].calls \in Seq(Calls)
    BY <1>1 DEF Processes
  <2> QED
    BY <1>1, <1>2, <2>1
<1>4. PICK write : write = Prepared(call)
  OBVIOUS
<1>5. PICK x : x = [proc[c] EXCEPT !.write = write]
  OBVIOUS
<1>6. /\ x.pc = "running" /\ x.cmd = proc[c].cmd /\ x.platform = proc[c].platform
      /\ x.user = proc[c].user /\ x.store = proc[c].store /\ x.joined = proc[c].joined
      /\ x.calls = proc[c].calls /\ x.write = write
  BY <1>1, <1>5 DEF Processes
<1>7. proc' = [proc EXCEPT ![c] = x] /\ UNCHANGED <<disk, limit, chosen, removed>>
  BY <1>2, <1>4, <1>5 DEF Prepare, TypeOK
<1>8. /\ AloneProcess(proc[c], disk[StateFile], chosen)
      /\ disk[StateFile] # Torn => disk[StateFile] = chosen
  BY <1>1, AloneIs
<1>9. CASE proc[c].cmd.kind \in Runs
  <2>1. AloneRun(proc[c], disk[StateFile], chosen)
    BY <1>1, <1>8, <1>9 DEF AloneProcess
  <2>2. RunCall(proc[c], call) /\ RunsAs(proc[c])
    BY <1>1, <1>3, <2>1 DEF AloneRun, GoodProcess
  <2>3. /\ write.file = StateFile =>
             write.content = chosen /\ chosen # Torn /\ chosen.active[proc[c].platform] = proc[c].user
        /\ write.file \in ConfigFiles =>
             write.file = ConfigFile(proc[c].platform, proc[c].user) /\ write.content = proc[c].user
    BY <1>1, <1>3, <1>4, <1>8, <1>9, <2>1, <2>2, RunPrepares
  <2>4. RunWrite(x, chosen)
    BY <1>6, <2>3 DEF RunWrite, OwnConfig
  <2>5. ~write.open
    BY <1>3, <1>4, <2>2 DEF Prepared, RunCall
  <2>6. FindsItself(x, disk[StateFile])
    BY <1>1, <1>6, <2>1, <2>5 DEF AloneRun, FindsItself, InState
  <2>7. \A i \in 1..Len(x.calls) : RunCall(x, x.calls[i])
    BY <1>6, <2>1 DEF AloneRun, RunCall
  <2>8. AloneRun(x, disk[StateFile], chosen)
    BY <1>6, <2>1, <2>4, <2>6, <2>7 DEF AloneRun
  <2>9. AloneProcess(x, disk[StateFile], chosen)
    BY <1>6, <1>9, <2>8 DEF AloneProcess
  <2> QED
    BY <1>1, <1>7, <2>9, AloneIs, AloneWaits
<1>10. CASE proc[c].cmd.kind \notin Runs
  <2>1. AloneOther(x)
    BY <1>1, <1>6, <1>8, <1>10 DEF AloneProcess, AloneOther, OtherCall
  <2>2. AloneProcess(x, disk[StateFile], chosen)
    BY <1>6, <1>10, <2>1 DEF AloneProcess
  <2> QED
    BY <1>1, <1>7, <2>2, AloneIs, AloneWaits
<1> QED
  BY <1>9, <1>10

\* The one process empties a file: only of the state is it then true that it cannot be read.
LEMMA EmptyFileAlone ==
  ASSUME TypeOK, StoreInv, AloneInv, limit = 1, NEW c \in Procs, EmptyFile(c)
  PROVE  AloneInv'
<1>1. /\ proc[c] \in Processes /\ proc[c].write \in Writes /\ Live(c)
      /\ proc[c].pc = "running" /\ proc[c].write # None /\ ~proc[c].write.open
  BY InWrite DEF EmptyFile, Live
<1>2. PICK f : f = proc[c].write.file
  OBVIOUS
<1>3. /\ f \in Files /\ disk' = [disk EXCEPT ![f] = Torn]
      /\ limit' = limit /\ chosen' = chosen
  BY <1>1, <1>2 DEF EmptyFile, Writes
<1>4. PICK write : write = [proc[c].write EXCEPT !.open = TRUE]
  OBVIOUS
<1>5. write.file = f /\ write.content = proc[c].write.content /\ write # None
  <2>1. write \in Writes /\ write.file = f /\ write.content = proc[c].write.content
    BY <1>1, <1>2, <1>4 DEF Writes
  <2> QED
    BY <2>1, WritesAssumption
<1>6. PICK x : x = [proc[c] EXCEPT !.write = write]
  OBVIOUS
<1>7. /\ x.pc = "running" /\ x.cmd = proc[c].cmd /\ x.platform = proc[c].platform
      /\ x.user = proc[c].user /\ x.store = proc[c].store /\ x.joined = proc[c].joined
      /\ x.calls = proc[c].calls /\ x.write = write
  BY <1>1, <1>6 DEF Processes
<1>8. proc' = [proc EXCEPT ![c] = x]
  BY <1>1, <1>4, <1>6 DEF EmptyFile, TypeOK, Processes
<1>9. disk'[StateFile] = IF f = StateFile THEN Torn ELSE disk[StateFile]
  BY <1>3, FilesAre DEF TypeOK
<1>10. /\ AloneProcess(proc[c], disk[StateFile], chosen)
       /\ disk[StateFile] # Torn => disk[StateFile] = chosen
       /\ \A p \in Platforms, u \in Users : disk[ConfigFile(p, u)] \in {u, None, Torn}
       /\ \A d \in Procs : Live(d) => d = c
  BY <1>1, AloneIs
<1>11. \A p \in Platforms, u \in Users : disk'[ConfigFile(p, u)] \in {u, None, Torn}
  BY <1>3, <1>10, FilesAre DEF TypeOK
<1>12. AloneProcess(x, disk'[StateFile], chosen')
  <2>1. CASE proc[c].cmd.kind \in Runs
    <3>1. AloneRun(proc[c], disk[StateFile], chosen)
      BY <1>1, <1>10, <2>1 DEF AloneProcess
    <3>2. FindsItself(x, disk'[StateFile])
      <4>1. CASE f = StateFile
        <5>1. InState(x)
          BY <1>1, <1>4, <1>5, <1>7, <4>1 DEF InState, Writes
        <5> QED
          BY <1>9, <4>1, <5>1 DEF FindsItself
      <4>2. CASE f # StateFile
        <5>1. ~InState(x) /\ ~InState(proc[c])
          BY <1>1, <1>5, <1>7, <4>2 DEF InState
        <5> QED
          BY <1>7, <1>9, <3>1, <4>2, <5>1 DEF FindsItself, AloneRun
      <4> QED
        BY <4>1, <4>2
    <3>3. RunWrite(x, chosen')
      BY <1>1, <1>2, <1>3, <1>5, <1>7, <3>1 DEF RunWrite, AloneRun, OwnConfig
    <3>4. \A i \in 1..Len(x.calls) : RunCall(x, x.calls[i])
      BY <1>7, <3>1 DEF AloneRun, RunCall
    <3>5. AloneRun(x, disk'[StateFile], chosen')
      BY <1>7, <3>1, <3>2, <3>3, <3>4 DEF AloneRun
    <3> QED
      BY <1>7, <2>1, <3>5 DEF AloneProcess
  <2>2. CASE proc[c].cmd.kind \notin Runs
    <3>1. AloneOther(x)
      BY <1>1, <1>7, <1>10, <2>2 DEF AloneProcess, AloneOther, OtherCall
    <3> QED
      BY <1>7, <2>2, <3>1 DEF AloneProcess
  <2> QED
    BY <2>1, <2>2
<1>13. disk'[StateFile] # Torn => disk'[StateFile] = chosen'
  BY <1>3, <1>9, <1>10
<1> QED
  BY <1>3, <1>8, <1>10, <1>11, <1>12, <1>13, AloneMoves

\* A run fills in what was chosen last, and its own user's conversation.
LEMMA RunFills ==
  ASSUME TypeOK, NEW x \in Processes, x.pc = "running", x.write # None, x.write.open,
         x.cmd.kind \in Runs, x.calls # <<>>, RunsAs(x), AloneRun(x, disk[StateFile], chosen),
         WriteOf(Head(x.calls), x.write, Known), x.write \in Writes,
         NEW v, v \in Filled(x.write.file, x.write.content)
  PROVE  /\ x.write.file = StateFile =>
              v = chosen /\ chosen # Torn /\ chosen.active[x.platform] = x.user
         /\ x.write.file \in ConfigFiles =>
              x.write.file = ConfigFile(x.platform, x.user) /\ v \in {x.user, Torn}
<1>1. StateFile \notin TokenFiles
  BY FilesDiffer DEF TokenFiles
<1>2. \A f \in ConfigFiles : f \notin TokenFiles
  BY FilesDiffer DEF TokenFiles, ConfigFiles
<1>3. PICK call : call = Head(x.calls)
  OBVIOUS
<1>4. call \in Calls /\ RunCall(x, call)
  <2>1. x.calls \in Seq(Calls)
    BY DEF Processes
  <2>2. call = x.calls[1] /\ 1 \in 1..Len(x.calls) /\ call \in Calls
    BY <1>3, <2>1
  <2> QED
    BY <2>2 DEF AloneRun
<1>5. CASE x.write.file = StateFile
  <2>1. x.write.content = chosen /\ chosen # Torn /\ chosen.active[x.platform] = x.user
    BY <1>5 DEF AloneRun, RunWrite
  <2>2. call.op = "activeUser"
    BY <1>3, <1>4, <1>5, FilesDiffer DEF WriteOf, RunCall
  <2>3. x.cmd.kind \in {"run", "runNew"}
    BY <1>4, <2>2 DEF RunCall
  <2>4. disk[StateFile] = Torn
    BY <1>5, <2>3 DEF AloneRun, FindsItself, InState
  <2>5. v = chosen
    BY <1>1, <1>5, <2>1, <2>4 DEF Filled
  <2>6. x.write.file \notin ConfigFiles
    BY <1>5, FilesDiffer DEF ConfigFiles
  <2> QED
    BY <2>1, <2>5, <2>6
<1>6. CASE x.write.file \in ConfigFiles
  <2>1. x.write.file = ConfigFile(x.platform, x.user) /\ x.write.content = x.user
    BY <1>6 DEF AloneRun, RunWrite, OwnConfig
  <2>2. v \in {x.user, Torn}
    BY <1>2, <1>6, <2>1 DEF Filled
  <2>3. x.write.file # StateFile
    BY <2>1, FilesDiffer
  <2> QED
    BY <2>1, <2>2, <2>3
<1> QED
  BY <1>5, <1>6

\* A command that is not a run fills in no conversation.
LEMMA OtherFills ==
  ASSUME TypeOK, NEW x \in Processes, x.write # None, x.cmd.kind \notin Runs,
         x.cmd \in CommandLines, x.calls # <<>>, AloneOther(x),
         WriteOf(Head(x.calls), x.write, Known),
         NEW v, v \in Filled(x.write.file, x.write.content)
  PROVE  /\ x.write.file = StateFile => x.cmd.kind \in SignIn
         /\ x.write.file \in ConfigFiles => v \in {None, Torn}
<1>1. PICK call : call = Head(x.calls)
  OBVIOUS
<1>2. call \in Calls /\ OtherCall(x, call)
  <2>1. x.calls \in Seq(Calls)
    BY DEF Processes
  <2>2. call = x.calls[1] /\ 1 \in 1..Len(x.calls) /\ call \in Calls
    BY <1>1, <2>1
  <2> QED
    BY <2>2 DEF AloneOther
<1>3. call.op \in {"token", "config", "activeUser", "activePlatform"}
  BY <1>1, <1>2 DEF Calls, WriteOf
<1>4. x.cmd.kind \in SignIn \cup {"forget"}
  BY DEF CommandLines
<1>5. x.write.file = StateFile => x.cmd.kind \in SignIn
  <2>1. x.write.file = StateFile => call.op # "config"
    BY <1>1, FilesDiffer DEF WriteOf
  <2> QED
    BY <1>2, <1>4, <2>1 DEF OtherCall
<1>6. CASE x.write.file \in ConfigFiles
  <2>1. PICK p \in Platforms, u \in Users : x.write.file = ConfigFile(p, u)
    BY <1>6 DEF ConfigFiles
  <2>2. call.op = "config"
    BY <1>1, <1>3, <2>1, FilesDiffer DEF WriteOf
  <2>3. x.write.content = None
    BY <1>1, <1>2, <2>2 DEF OtherCall, WriteOf
  <2>4. v \in {None, Torn}
    BY <2>3 DEF Filled
  <2> QED
    BY <1>5, <2>4
<1> QED
  BY <1>5, <1>6

\* What holds of all calls holds of those that are left.
LEMMA TailHas ==
  ASSUME NEW calls \in Seq(Calls), calls # <<>>
  PROVE  \A i \in 1..Len(Tail(calls)) : \E j \in 1..Len(calls) : Tail(calls)[i] = calls[j]
<1>1. \A i \in 1..Len(Tail(calls)) : Tail(calls)[i] = calls[i + 1] /\ i + 1 \in 1..Len(calls)
  OBVIOUS
<1> QED
  BY <1>1

\* The one process fills a file.
LEMMA FillFileAlone ==
  ASSUME TypeOK, StoreInv, AloneInv, limit = 1, NEW c \in Procs, FillFile(c)
  PROVE  AloneInv'
<1>1. /\ proc[c] \in Processes /\ GoodProcess(proc[c], Known) /\ proc[c].cmd \in CommandLines
      /\ proc[c].write \in Writes /\ proc[c].calls \in Seq(Calls) /\ proc[c].calls # <<>>
      /\ WriteOf(Head(proc[c].calls), proc[c].write, Known)
      /\ Live(c) /\ proc[c].pc = "running" /\ proc[c].write # None /\ proc[c].write.open
  BY InWrite DEF FillFile, Live
<1>2. PICK f : f = proc[c].write.file
  OBVIOUS
<1>3. PICK v \in Filled(f, proc[c].write.content) : disk' = [disk EXCEPT ![f] = v]
  BY <1>2 DEF FillFile
<1>4. /\ f \in Files /\ limit' = limit
      /\ chosen' = IF f = StateFile /\ proc[c].cmd.kind \in SignIn
                   THEN disk'[StateFile] ELSE chosen
  BY <1>1, <1>2 DEF FillFile, Writes
<1>5. disk'[StateFile] = IF f = StateFile THEN v ELSE disk[StateFile]
  BY <1>3, <1>4, FilesAre DEF TypeOK
<1>6. PICK calls : calls = Tail(proc[c].calls)
  OBVIOUS
<1>7. calls \in Seq(Calls)
  BY <1>1, <1>6
<1>8. PICK x : x = [proc[c] EXCEPT !.calls = calls, !.write = None]
  OBVIOUS
<1>9. /\ x.pc = "running" /\ x.cmd = proc[c].cmd /\ x.platform = proc[c].platform
      /\ x.user = proc[c].user /\ x.store = proc[c].store /\ x.joined = proc[c].joined
      /\ x.calls = calls /\ x.write = None
  BY <1>1, <1>8 DEF Processes
<1>10. proc' = [proc EXCEPT ![c] = x]
  BY <1>1, <1>6, <1>8 DEF FillFile, TypeOK, Processes
<1>11. /\ AloneProcess(proc[c], disk[StateFile], chosen)
       /\ disk[StateFile] # Torn => disk[StateFile] = chosen
       /\ \A p \in Platforms, u \in Users : disk[ConfigFile(p, u)] \in {u, None, Torn}
       /\ \A d \in Procs : Live(d) => d = c
  BY <1>1, AloneIs
<1>12. \A i \in 1..Len(calls) : \E j \in 1..Len(proc[c].calls) : calls[i] = proc[c].calls[j]
  BY <1>1, <1>6, TailHas
<1>13. \A p \in Platforms, u \in Users :
         /\ ConfigFile(p, u) \in Files /\ ConfigFile(p, u) \in ConfigFiles
         /\ disk'[ConfigFile(p, u)] = IF f = ConfigFile(p, u) THEN v ELSE disk[ConfigFile(p, u)]
  BY <1>3, <1>4, FilesAre DEF TypeOK
<1>14. CASE proc[c].cmd.kind \in Runs
  <2>1. AloneRun(proc[c], disk[StateFile], chosen) /\ RunsAs(proc[c])
    BY <1>1, <1>11, <1>14 DEF AloneProcess, GoodProcess
  <2>2. /\ f = StateFile =>
             v = chosen /\ chosen # Torn /\ chosen.active[proc[c].platform] = proc[c].user
        /\ f \in ConfigFiles =>
             f = ConfigFile(proc[c].platform, proc[c].user) /\ v \in {proc[c].user, Torn}
    BY <1>1, <1>2, <1>3, <1>14, <2>1, RunFills
  <2>3. chosen' = chosen
    BY <1>4, <1>14 DEF Runs, SignIn
  <2>4. disk'[StateFile] # Torn => disk'[StateFile] = chosen'
    BY <1>5, <1>11, <2>2, <2>3
  <2>5. \A p \in Platforms, u \in Users : disk'[ConfigFile(p, u)] \in {u, None, Torn}
    BY <1>11, <1>13, <2>2, FilesDiffer
  <2>6. FindsItself(x, disk'[StateFile])
    <3>1. CASE f = StateFile
      <4>1. disk'[StateFile] = chosen /\ chosen # Torn
            /\ chosen.active[proc[c].platform] = proc[c].user
        BY <1>5, <2>2, <3>1
      <4>2. proc[c].platform # None
        BY <1>1, <1>14, <2>1 DEF RunsAs
      <4> QED
        BY <1>9, <4>1, <4>2 DEF FindsItself, InState, ActiveIn, Reading
    <3>2. CASE f # StateFile
      <4>1. ~InState(x) /\ ~InState(proc[c])
        BY <1>2, <1>9, <3>2 DEF InState
      <4> QED
        BY <1>5, <1>9, <2>1, <3>2, <4>1 DEF FindsItself, AloneRun
    <3> QED
      BY <3>1, <3>2
  <2>7. \A i \in 1..Len(x.calls) : RunCall(x, x.calls[i])
    <3>1. SUFFICES ASSUME NEW i \in 1..Len(calls)
                   PROVE  RunCall(x, calls[i])
      BY <1>9
    <3>2. PICK j \in 1..Len(proc[c].calls) : calls[i] = proc[c].calls[j]
      BY <1>12
    <3>3. RunCall(proc[c], calls[i])
      BY <2>1, <3>2 DEF AloneRun
    <3> QED
      BY <1>9, <3>3 DEF RunCall
  <2>8. proc[c].cmd.kind # "runToken"
    BY <1>1, <2>1 DEF AloneRun
  <2>9. AloneRun(x, disk'[StateFile], chosen')
    BY <1>9, <2>1, <2>6, <2>7, <2>8 DEF AloneRun, RunWrite
  <2>10. AloneProcess(x, disk'[StateFile], chosen')
    BY <1>9, <1>14, <2>9 DEF AloneProcess
  <2> QED
    BY <1>4, <1>10, <1>11, <2>4, <2>5, <2>10, AloneMoves
<1>15. CASE proc[c].cmd.kind \notin Runs
  <2>1. AloneOther(proc[c])
    BY <1>1, <1>11, <1>15 DEF AloneProcess
  <2>2. /\ f = StateFile => proc[c].cmd.kind \in SignIn
        /\ f \in ConfigFiles => v \in {None, Torn}
    BY <1>1, <1>2, <1>3, <1>15, <2>1, OtherFills
  <2>3. disk'[StateFile] # Torn => disk'[StateFile] = chosen'
    BY <1>4, <1>5, <1>11, <2>2
  <2>4. \A p \in Platforms, u \in Users : disk'[ConfigFile(p, u)] \in {u, None, Torn}
    BY <1>11, <1>13, <2>2
  <2>5. AloneOther(x)
    BY <1>9, <1>12, <2>1 DEF AloneOther, OtherCall
  <2>6. AloneProcess(x, disk'[StateFile], chosen')
    BY <1>9, <1>15, <2>5 DEF AloneProcess
  <2> QED
    BY <1>4, <1>10, <1>11, <2>3, <2>4, <2>6, AloneMoves
<1> QED
  BY <1>14, <1>15

\* A login is removed by logout or delete, never by a run.
LEMMA RemoveAlone ==
  ASSUME TypeOK, StoreInv, AloneInv, limit = 1, NEW c \in Procs, Remove(c)
  PROVE  AloneInv'
<1>1. /\ proc[c] \in Processes /\ Live(c) /\ proc[c].pc = "running"
      /\ proc[c].calls # <<>>
  BY ProcessIs DEF Remove, Live
<1>2. PICK call : call = Head(proc[c].calls)
  OBVIOUS
<1>3. /\ proc[c].calls \in Seq(Calls) /\ call.op = "remove"
      /\ call = proc[c].calls[1] /\ 1 \in 1..Len(proc[c].calls)
  <2>1. proc[c].calls \in Seq(Calls)
    BY <1>1 DEF Processes
  <2> QED
    BY <1>1, <1>2, <2>1 DEF Remove
<1>4. PICK f : f = TokenFile(call.platform, call.user)
  OBVIOUS
<1>5. disk' = [disk EXCEPT ![f] = None] /\ limit' = limit /\ chosen' = chosen
  BY <1>2, <1>4 DEF Remove
<1>6. \A p, u : f # ConfigFile(p, u) /\ f # StateFile
  BY <1>4, FilesDiffer
<1>7. /\ disk'[StateFile] = disk[StateFile]
      /\ \A p \in Platforms, u \in Users : disk'[ConfigFile(p, u)] = disk[ConfigFile(p, u)]
  BY <1>5, <1>6, FilesAre DEF TypeOK
<1>8. /\ AloneProcess(proc[c], disk[StateFile], chosen)
      /\ disk[StateFile] # Torn => disk[StateFile] = chosen
      /\ \A p \in Platforms, u \in Users : disk[ConfigFile(p, u)] \in {u, None, Torn}
      /\ \A d \in Procs : Live(d) => d = c
  BY <1>1, AloneIs
<1>9. proc[c].cmd.kind \notin Runs
  <2>1. ~RunCall(proc[c], call)
    BY <1>3 DEF RunCall
  <2> QED
    BY <1>1, <1>3, <1>8, <2>1 DEF AloneProcess, AloneRun
<1>10. PICK calls : calls = Tail(proc[c].calls)
  OBVIOUS
<1>11. PICK x : x = [proc[c] EXCEPT !.calls = calls]
  OBVIOUS
<1>12. /\ x.pc = "running" /\ x.cmd = proc[c].cmd /\ x.joined = proc[c].joined
       /\ x.calls = calls
  BY <1>1, <1>11 DEF Processes
<1>13. proc' = [proc EXCEPT ![c] = x]
  BY <1>1, <1>10, <1>11 DEF Remove, TypeOK, Processes
<1>14. \A i \in 1..Len(calls) : \E j \in 1..Len(proc[c].calls) : calls[i] = proc[c].calls[j]
  BY <1>1, <1>3, <1>10, TailHas
<1>15. AloneOther(x)
  BY <1>1, <1>8, <1>9, <1>12, <1>14 DEF AloneProcess, AloneOther, OtherCall
<1>16. AloneProcess(x, disk'[StateFile], chosen')
  BY <1>9, <1>12, <1>15 DEF AloneProcess
<1>17. /\ disk'[StateFile] # Torn => disk'[StateFile] = chosen'
       /\ \A p \in Platforms, u \in Users : disk'[ConfigFile(p, u)] \in {u, None, Torn}
  BY <1>5, <1>7, <1>8
<1> QED
  BY <1>5, <1>8, <1>13, <1>16, <1>17, AloneMoves

----------------------------------------------------------------------------
\* Nothing is running in the first state, and what is stored there was chosen.
LEMMA InitAlone ==
  ASSUME Init
  PROVE  AloneInv
<1>1. \A c \in Procs : ~Live(c)
  BY DEF Init, Live, Process
<1>2. \A p \in Platforms, u \in Users : disk[ConfigFile(p, u)] = None
  <2> SUFFICES ASSUME NEW p \in Platforms, NEW u \in Users PROVE disk[ConfigFile(p, u)] = None
    OBVIOUS
  <2>1. ConfigFile(p, u) \in Files /\ ConfigFile(p, u) # StateFile
    BY FilesAre, FilesDiffer
  <2>2. ConfigFile(p, u) \notin TokenFiles
    BY FilesDiffer DEF TokenFiles
  <2> QED
    BY <2>1, <2>2 DEF Init
<1>3. chosen = disk[StateFile]
  BY DEF Init
<1> QED
  BY <1>1, <1>2, <1>3 DEF AloneInv

\* One after another, commands keep what they find.
LEMMA StepKeepsAlone ==
  ASSUME TypeOK, StoreInv, AloneInv, [Next]_vars
  PROVE  AloneInv'
<1>1. limit' = limit
  BY DEF Next, vars, Start, ReadThread, Resolve, Renew, OpenConversation, Finish, Kill,
         Prepare, EmptyFile, FillFile, Remove
<1>2. CASE limit # 1
  BY <1>1, <1>2 DEF AloneInv
<1>3. CASE limit = 1
  <2>1. CASE UNCHANGED vars
    BY <2>1 DEF vars, AloneInv, Live
  <2>2. ASSUME NEW c \in Procs, Start(c) PROVE AloneInv'
    BY <1>3, <2>2, StartAlone
  <2>3. ASSUME NEW c \in Procs, ReadThread(c) PROVE AloneInv'
    BY <1>3, <2>3, ReadThreadAlone
  <2>4. ASSUME NEW c \in Procs, Resolve(c) PROVE AloneInv'
    BY <1>3, <2>4, ResolveAlone
  <2>5. ASSUME NEW c \in Procs, Renew(c) PROVE AloneInv'
    BY <1>3, <2>5, RenewAlone
  <2>6. ASSUME NEW c \in Procs, OpenConversation(c) PROVE AloneInv'
    BY <1>3, <2>6, OpenConversationAlone
  <2>7. ASSUME NEW c \in Procs, Finish(c) \/ Kill(c) PROVE AloneInv'
    BY <1>3, <2>7, OverAlone
  <2>8. ASSUME NEW c \in Procs, Prepare(c) PROVE AloneInv'
    BY <1>3, <2>8, PrepareAlone
  <2>9. ASSUME NEW c \in Procs, EmptyFile(c) PROVE AloneInv'
    BY <1>3, <2>9, EmptyFileAlone
  <2>10. ASSUME NEW c \in Procs, FillFile(c) PROVE AloneInv'
    BY <1>3, <2>10, FillFileAlone
  <2>11. ASSUME NEW c \in Procs, Remove(c) PROVE AloneInv'
    BY <1>3, <2>11, RemoveAlone
  <2> QED
    BY <2>1, <2>2, <2>3, <2>4, <2>5, <2>6, <2>7, <2>8, <2>9, <2>10, <2>11 DEF Next
<1> QED
  BY <1>2, <1>3

----------------------------------------------------------------------------
\* The invariant is kept by every command line, process and crash of the model
\* (src/config/store.ts and the commands over it).
THEOREM InvHolds == Spec => []Inv
<1>1. Init => Inv
  BY InitStore, InitAlone DEF Inv
<1>2. Inv /\ [Next]_vars => Inv'
  BY StepKeepsStore, StepKeepsAlone DEF Inv
<1> QED
  BY <1>1, <1>2, PTL DEF Spec

\* Each file holds what its readers expect of it (readState, readToken,
\* readPlatformConfig), and a process works on platforms and users there are.
THEOREM TypeCorrect == Spec => []TypeOK
<1>1. Inv => TypeOK
  BY DEF Inv
<1> QED
  BY <1>1, InvHolds, PTL

\* What is saved under a user is that user's token, however many commands run at once
\* and wherever they are killed (writeToken).
THEOREM TokenSavedForUser == Spec => []TokenOfUser
<1>1. Inv => TokenOfUser
  BY DEF Inv, StoreInv
<1> QED
  BY <1>1, InvHolds, PTL

\* An active user has a login, or had one that was removed, however many commands run at
\* once and wherever they are killed (attachToken, switchUser, writeToken).
THEOREM ActiveUsersSignedIn == Spec => []ActiveHasLogin
<1>1. ASSUME Inv PROVE ActiveHasLogin
  <2> SUFFICES ASSUME disk[StateFile] # Torn, NEW p \in Platforms,
                      disk[StateFile].active[p] # None,
                      <<p, disk[StateFile].active[p]>> \notin removed
               PROVE  disk[TokenFile(p, disk[StateFile].active[p])] # None
    BY DEF ActiveHasLogin
  <2>1. <<p, disk[StateFile].active[p]>> \in Known
    BY <1>1 DEF Inv, StoreInv, AllKnown
  <2> QED
    BY <2>1 DEF Known
<1> QED
  BY <1>1, InvHolds, PTL

\* Commands that run one after another, killed or not, join and remember only their own
\* identity's conversations (transientIdentity, conversationSource, onConversationOpened).
THEOREM ThreadsKeptAlone == Spec => []ThreadOfIdentityAlone
<1>1. ASSUME Inv PROVE ThreadOfIdentityAlone
  <2> SUFFICES ASSUME limit = 1 PROVE ThreadOfIdentity
    BY DEF ThreadOfIdentityAlone
  <2>1. \A p \in Platforms, u \in Users : disk[ConfigFile(p, u)] \in {u, None, Torn}
    BY <1>1 DEF Inv, AloneInv
  <2>2. ASSUME NEW c \in Procs, proc[c].pc = "running", proc[c].joined # None
        PROVE  proc[c].joined = proc[c].user
    <3>1. AloneProcess(proc[c], disk[StateFile], chosen)
      BY <1>1, <2>2 DEF Inv, AloneInv, Live
    <3> QED
      BY <2>2, <3>1 DEF AloneProcess, AloneRun, AloneOther
  <2> QED
    BY <2>1, <2>2 DEF ThreadOfIdentity
<1> QED
  BY <1>1, InvHolds, PTL

\* Commands that run one after another leave the platform and the users as the last sign-in
\* command chose them, whatever they renew and wherever they are killed (persist, store.ts).
THEOREM ChoiceKeptAlone == Spec => []ChoiceStays
<1>1. Inv => ChoiceStays
  BY DEF Inv, AloneInv, ChoiceStays
<1> QED
  BY <1>1, InvHolds, PTL
=============================================================================
