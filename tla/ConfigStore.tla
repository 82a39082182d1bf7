------------------------------ MODULE ConfigStore ------------------------------
(***************************************************************************)
(* The store under ~/.bkn (src/config/store.ts) and the commands that read *)
(* and write it: commands that run as the active user or as one picked for *)
(* them (clientFrom in src/commands/_shared.ts, resolveContext in          *)
(* src/config/resolve.ts), the sign-in commands (src/resources/auth.ts),   *)
(* and programs of the Python client (python/bkn_osdk/config.py).          *)
(*                                                                         *)
(* Each command is a process of its own.  writeFileSync empties a file and *)
(* then fills it, and nothing locks a file, so other processes run between *)
(* a read, the emptying and the filling, and a process may be killed there.*)
(* Reads made together without a write between them are one step.          *)
(* A token and a remembered conversation are told apart by the user they   *)
(* belong to.                                                              *)
(***************************************************************************)
EXTENDS Naturals, FiniteSets, Sequences

CONSTANTS
  Platforms,
  Users,
  Default,  \* the user id of a login without a readable identity
  None,     \* undefined, or no file
  Torn,     \* content that is empty or is not JSON
  Procs,
  Commands, \* the command lines a process may be started with
  Saved,    \* the logins <<platform, user>> saved before
  Limits    \* how many commands may run at a time: one in some runs, more in others

ASSUME StoreAssumption ==
  /\ Default \in Users
  /\ None \notin Platforms \cup Users /\ Torn \notin Platforms \cup Users /\ None # Torn
  /\ Saved \subseteq Platforms \X Users
  /\ Limits \subseteq Nat \ {0}
  /\ IsFiniteSet(Procs)

VARIABLES
  disk,   \* the content of each file
  proc,   \* the processes
  limit,  \* how many commands run at a time
  chosen, \* the last state.json that a sign-in command wrote
  removed \* the logins that logout or delete has removed

vars == <<disk, proc, limit, chosen, removed>>

StateFile == <<"state.json">>
TokenFile(p, u) == <<"token.json", p, u>>
ConfigFile(p, u) == <<"config.json", p, u>>
TokenFiles == {TokenFile(p, u) : p \in Platforms, u \in Users}
ConfigFiles == {ConfigFile(p, u) : p \in Platforms, u \in Users}
Files == {StateFile} \cup TokenFiles \cup ConfigFiles

\* state.json: the active platform, and the active user of each one.
States == [platform : Platforms \cup {None}, active : [Platforms -> Users \cup {None}]]
Empty == [platform |-> None, active |-> [p \in Platforms |-> None]]

\* readState: content that cannot be parsed counts as nothing.
ReadState == IF disk[StateFile] = Torn THEN Empty ELSE disk[StateFile]
ActiveUser(p) == IF p = None THEN None ELSE ReadState.active[p]

HasLogin(p, u) == p # None /\ u # None /\ disk[TokenFile(p, u)] \notin {None, Torn}

\* readPlatformConfig, of the active user.
Remembered(p) ==
  LET u == ActiveUser(p)
  IN  IF u = None \/ disk[ConfigFile(p, u)] = Torn THEN None ELSE disk[ConfigFile(p, u)]

\* Under --user and --token an identity is picked for the command alone;
\* --new-conversation declines the remembered conversation.
Runs == {"run", "runNew", "runAs", "runToken", "python", "pythonAs"}
Named == {"runAs", "runToken", "pythonAs"}
SignIn == {"login", "switch", "use", "set", "logout", "delete"}
CommandLines ==
  [kind : Runs \cup SignIn \cup {"forget"}, platform : Platforms \cup {None},
   user : Users \cup {None}]

\* A login is saved under some user id, Default where its token names none.
ASSUME CommandsAssumption ==
  /\ Commands \subseteq CommandLines
  /\ \A cmd \in Commands : cmd.kind = "login" => cmd.user # None

\* platformOf: --base-url, else the active platform.
PlatformOf(cmd) == IF cmd.platform = None THEN ReadState.platform ELSE cmd.platform

----------------------------------------------------------------------------
\* What the code asks the store for, one call after the other.

Call(op, p, u, value) == [op |-> op, platform |-> p, user |-> u, value |-> value]
SaveToken(p, u, owner) == Call("token", p, u, owner)
SetActiveUser(p, u) == Call("activeUser", p, u, None)
SetActivePlatform(p) == Call("activePlatform", p, None, None)
UpdateConfig(p, owner) == Call("config", p, None, owner)
RemoveToken(p, u) == Call("remove", p, u, None)

\* Mutant of WriteToken: the user is made active before the token is there.
WriteTokenLast(p, u, setActive) ==
  (IF setActive THEN <<SetActiveUser(p, u)>> ELSE <<>>) \o <<SaveToken(p, u, u)>>

\* writeToken: under the user the token itself names.
WriteToken(p, u, setActive) ==
  <<SaveToken(p, u, u)>> \o (IF setActive THEN <<SetActiveUser(p, u)>> ELSE <<>>)

\* write_refreshed_token of the Python client: only into a login that is still
\* there, and without making it active.
WriteRefreshedToken(p, u) == IF HasLogin(p, u) THEN <<SaveToken(p, u, u)>> ELSE <<>>

\* Mutant of Persist: every renewal makes its login the active one.
PersistActive(kind, p, u) == WriteToken(p, u, TRUE)

\* Mutant of Persist: a renewed token is saved as the active user's.
PersistForActive(kind, p, u) ==
  IF ActiveUser(p) = None THEN <<>> ELSE <<SaveToken(p, ActiveUser(p), u)>>

\* A renewed login is written back: persist of resolveContext, and the same
\* write in currentTokenFresh.
Persist(kind, p, u) ==
  IF kind \in {"python", "pythonAs"} THEN WriteRefreshedToken(p, u)
  ELSE WriteToken(p, u, kind # "runAs")

AttachToken(p, u) == WriteToken(p, u, TRUE) \o <<SetActivePlatform(p)>>
SwitchUser(p, u) ==
  IF HasLogin(p, u) THEN <<SetActiveUser(p, u), SetActivePlatform(p)>> ELSE <<>>
Use(p) == IF HasLogin(p, ActiveUser(p)) THEN <<SetActivePlatform(p)>> ELSE <<>>
DeletePlatform(p) == IF ActiveUser(p) = None THEN <<>> ELSE <<RemoveToken(p, ActiveUser(p))>>

\* The calls of a command that is not a run, none when it refuses.
Asks(cmd) ==
  LET p == PlatformOf(cmd)
      kind == cmd.kind
  IN  IF p = None THEN <<>>
      ELSE CASE kind = "login" -> AttachToken(p, cmd.user)
             [] kind = "switch" -> SwitchUser(p, cmd.user)
             [] kind = "use" -> Use(p)
             [] kind = "set" -> <<SetActivePlatform(p)>>
             [] kind \in {"logout", "delete"} -> DeletePlatform(p)
             [] kind = "forget" -> <<UpdateConfig(p, None)>>

----------------------------------------------------------------------------
\* A process: its command line, the platform and user it runs as, the owner of
\* the conversation it joins, the calls still to make, and the write it is in.
Process(pc, cmd) ==
  [pc |-> pc, cmd |-> cmd, store |-> None, platform |-> None, user |-> None,
   joined |-> None, renewed |-> FALSE, opened |-> FALSE, calls |-> <<>>, write |-> None]

Init ==
  /\ \E login \in Saved :
       disk = [f \in Files |->
         IF f = StateFile
         THEN [platform |-> login[1], active |-> [Empty.active EXCEPT ![login[1]] = login[2]]]
         ELSE IF f \in TokenFiles /\ <<f[2], f[3]>> \in Saved THEN f[3] ELSE None]
  /\ proc = [c \in Procs |-> Process("idle", None)]
  /\ limit \in Limits
  /\ chosen = disk[StateFile]
  /\ removed = {}

Live(c) == proc[c].pc \notin {"idle", "over"}
Over == Process("over", None)

Start(c) ==
  /\ proc[c].pc = "idle"
  /\ Cardinality({d \in Procs : Live(d)}) < limit
  /\ \E cmd \in Commands :
       proc' = [proc EXCEPT ![c] =
         IF cmd.kind \in Runs THEN Process("thread", cmd)
         ELSE [Process("running", cmd) EXCEPT !.calls = Asks(cmd)]]
  /\ UNCHANGED <<disk, limit, chosen, removed>>

\* Mutant of KeepsThread: a token that was passed in counts as the active user's.
KeepsThreadOfToken(cmd) == cmd.kind \in {"run", "runToken"}

\* Neither transientIdentity nor --new-conversation: the command continues the
\* remembered conversation, and the one it opens is remembered.
KeepsThread(cmd) == cmd.kind = "run"

\* conversationSource, before the identity is resolved.
ReadThread(c) ==
  /\ proc[c].pc = "thread"
  /\ LET cmd == proc[c].cmd
         store == PlatformOf(cmd)
     IN  proc' = [proc EXCEPT ![c].pc = "resolve", ![c].store = store,
                              ![c].joined = IF KeepsThread(cmd) THEN Remembered(store) ELSE None]
  /\ UNCHANGED <<disk, limit, chosen, removed>>

\* resolveContext and resolve_context: no platform or no login is an error.
Resolve(c) ==
  /\ proc[c].pc = "resolve"
  /\ LET cmd == proc[c].cmd
         p == PlatformOf(cmd)
         u == IF cmd.kind \in Named THEN cmd.user ELSE ActiveUser(p)
     IN  IF p # None /\ (cmd.kind # "runToken" => HasLogin(p, u))
         THEN proc' = [proc EXCEPT ![c].pc = "running", ![c].platform = p, ![c].user = u]
         ELSE proc' = [proc EXCEPT ![c] = Over]
  /\ UNCHANGED <<disk, limit, chosen, removed>>

AtRest(c) == proc[c].pc = "running" /\ proc[c].calls = <<>>

\* A request renews the stored login.  Bound of the model: once per command.
Renew(c) ==
  /\ AtRest(c) /\ ~proc[c].renewed
  /\ proc[c].cmd.kind \in Runs \ {"runToken"}
  /\ proc' = [proc EXCEPT ![c].renewed = TRUE,
       ![c].calls = Persist(proc[c].cmd.kind, proc[c].platform, proc[c].user)]
  /\ UNCHANGED <<disk, limit, chosen, removed>>

\* onConversationOpened.  Bound of the model: once per command.
OpenConversation(c) ==
  /\ AtRest(c) /\ ~proc[c].opened
  /\ KeepsThread(proc[c].cmd) /\ proc[c].store # None
  /\ proc' = [proc EXCEPT ![c].opened = TRUE,
       ![c].calls = <<UpdateConfig(proc[c].store, proc[c].user)>>]
  /\ UNCHANGED <<disk, limit, chosen, removed>>

Finish(c) ==
  /\ AtRest(c)
  /\ proc' = [proc EXCEPT ![c] = Over]
  /\ UNCHANGED <<disk, limit, chosen, removed>>

Kill(c) ==
  /\ Live(c)
  /\ proc' = [proc EXCEPT ![c] = Over]
  /\ UNCHANGED <<disk, limit, chosen, removed>>

----------------------------------------------------------------------------
\* updatePlatformConfig: the file of the active user.
ConfigUser(p) == IF ActiveUser(p) = None THEN Default ELSE ActiveUser(p)

\* The file and the content that a call writes: setActiveUser, setActivePlatform
\* and updatePlatformConfig put their change into what they read.
Prepared(call) ==
  LET p == call.platform
      write(file, content) == [file |-> file, content |-> content, open |-> FALSE]
  IN  CASE call.op = "token" -> write(TokenFile(p, call.user), call.value)
        [] call.op = "config" -> write(ConfigFile(p, ConfigUser(p)), call.value)
        [] call.op = "activeUser" ->
             write(StateFile, [ReadState EXCEPT !.active[p] = call.user])
        [] call.op = "activePlatform" -> write(StateFile, [ReadState EXCEPT !.platform = p])

Prepare(c) ==
  /\ proc[c].pc = "running" /\ proc[c].calls # <<>> /\ proc[c].write = None
  /\ Head(proc[c].calls).op # "remove"
  /\ proc' = [proc EXCEPT ![c].write = Prepared(Head(proc[c].calls))]
  /\ UNCHANGED <<disk, limit, chosen, removed>>

\* writeFileSync opens the file and empties it.
EmptyFile(c) ==
  /\ proc[c].pc = "running" /\ proc[c].write # None
  /\ ~proc[c].write.open
  /\ disk' = [disk EXCEPT ![proc[c].write.file] = Torn]
  /\ proc' = [proc EXCEPT ![c].write.open = TRUE]
  /\ UNCHANGED <<limit, chosen, removed>>

\* What an open file holds once it is filled: another process may have removed
\* it, or have filled it with something longer.
Filled(file, content) ==
  IF file \in TokenFiles /\ disk[file] = None THEN {None}
  ELSE IF disk[file] \in {Torn, None, content} THEN {content}
  ELSE {content, Torn}

FillFile(c) ==
  /\ proc[c].pc = "running" /\ proc[c].write # None
  /\ proc[c].write.open
  /\ \E content \in Filled(proc[c].write.file, proc[c].write.content) :
       disk' = [disk EXCEPT ![proc[c].write.file] = content]
  /\ chosen' = IF proc[c].write.file = StateFile /\ proc[c].cmd.kind \in SignIn
               THEN disk'[StateFile] ELSE chosen
  /\ proc' = [proc EXCEPT ![c].calls = Tail(@), ![c].write = None]
  /\ UNCHANGED <<limit, removed>>

\* deleteToken.
Remove(c) ==
  /\ proc[c].pc = "running" /\ proc[c].calls # <<>>
  /\ LET call == Head(proc[c].calls)
     IN  /\ call.op = "remove"
         /\ disk' = [disk EXCEPT ![TokenFile(call.platform, call.user)] = None]
         /\ removed' = removed \cup {<<call.platform, call.user>>}
  /\ proc' = [proc EXCEPT ![c].calls = Tail(@)]
  /\ UNCHANGED <<limit, chosen>>

----------------------------------------------------------------------------
Next ==
  \E c \in Procs :
    \/ Start(c) \/ ReadThread(c) \/ Resolve(c)
    \/ Renew(c) \/ OpenConversation(c) \/ Finish(c) \/ Kill(c)
    \/ Prepare(c) \/ EmptyFile(c) \/ FillFile(c) \/ Remove(c)

Spec == Init /\ [][Next]_vars

----------------------------------------------------------------------------
Calls ==
  [op : {"token", "config", "activeUser", "activePlatform", "remove"},
   platform : Platforms, user : Users \cup {None}, value : Users \cup {None}]
Writes == [file : Files, content : States \cup Users \cup {None}, open : BOOLEAN]

\* To be in no write is not to be in one.
ASSUME WritesAssumption == None \notin Writes

Processes ==
  [pc : {"idle", "thread", "resolve", "running", "over"}, cmd : CommandLines \cup {None},
   store : Platforms \cup {None}, platform : Platforms \cup {None},
   user : Users \cup {None}, joined : Users \cup {None}, renewed : BOOLEAN,
   opened : BOOLEAN, calls : Seq(Calls), write : Writes \cup {None}]

\* Each file holds what its readers expect of it, and the processes work on the
\* platforms and users there are.
TypeOK ==
  /\ disk \in [Files -> States \cup Users \cup {None, Torn}]
  /\ disk[StateFile] \in States \cup {Torn}
  /\ \A f \in TokenFiles \cup ConfigFiles : disk[f] \in Users \cup {None, Torn}
  /\ proc \in [Procs -> Processes]
  /\ \A c \in Procs : Live(c) => proc[c].cmd \in CommandLines
  /\ limit \in Nat \ {0}
  /\ chosen \in States \cup {Torn}
  /\ removed \subseteq Platforms \X Users

\* What is saved under a user is that user's token, whoever is active when a
\* command renews it and whatever other commands do meanwhile (writeToken).
TokenOfUser == \A p \in Platforms, u \in Users : disk[TokenFile(p, u)] \in {u, None, Torn}

\* An active user has a login, or had one that was removed: no command that is
\* killed halfway or overtaken leaves the next ones an identity that never
\* signed in (attachToken, switchUser).
ActiveHasLogin ==
  disk[StateFile] # Torn =>
    \A p \in Platforms :
      LET u == disk[StateFile].active[p]
      IN  u # None /\ <<p, u>> \notin removed => disk[TokenFile(p, u)] # None

\* No identity's evidence is filed under another's: a command joins only a
\* conversation its own identity opened, and only such a one is remembered for
\* it (transientIdentity).
ThreadOfIdentity ==
  /\ \A c \in Procs :
       proc[c].pc = "running" /\ proc[c].joined # None => proc[c].joined = proc[c].user
  /\ \A p \in Platforms, u \in Users : disk[ConfigFile(p, u)] \in {u, None, Torn}

\* The same of commands that run one after another, killed or not.
ThreadOfIdentityAlone == limit = 1 => ThreadOfIdentity

\* Commands that run one after another leave the platform and the users as the
\* last sign-in command chose them: neither a renewal under --user, nor one of
\* the active user, nor a killed process changes the default identity.
ChoiceStays == limit = 1 /\ disk[StateFile] # Torn => disk[StateFile] = chosen
=============================================================================
