------------------------------- MODULE ClientsProofs -------------------------------
(***************************************************************************)
(* Proofs about the programs of module Clients: the shapes of their states *)
(* and the promises of create-from-catalog, push, resource edits, build    *)
(* waits, sign-in, the tokens and the turns of the Python client, for any  *)
(* number of resources, types, editors, threads and calls and any times.   *)
(*                                                                         *)
(* Each program has an inductive invariant of its own; Inv is their       *)
(* disjunction: a state has the shapes of one program only, so that a step *)
(* is one of that program and stays in its invariant.                      *)
(***************************************************************************)
EXTENDS Clients, Sequences, SequenceTheorems, TLAPS

----------------------------------------------------------------------------
\* The inductive invariants, one for each program.

\* create-from-catalog.  Its creation has been answered only from "types" on.  A table
\* that is relied on is among those that were read, or further down the listing; the
\* discovery task, which may change the whole listing, does not run while it is read.
Listed(r) == \E i \in DOMAIN client.tables : client.tables[i] = r
Ahead(r) == \E j \in DOMAIN server.listing : j > Len(client.tables) /\ server.listing[j] = r
ReadOn == {"details", "select", "keys", "create", "types", "rollback", "returned"}
Chosen == {"keys", "create", "types", "rollback", "returned"}
CreationInv ==
  /\ client.answered => client.at \in {"types", "rollback", "returned", "threw"}
  /\ Creation!LeftBehindIsTold
  /\ server.task = "running" => client.at \in {"poll", "threw"}
  /\ client.at \in {"discover", "poll"} => client.tables = <<>>
  /\ client.at = "list" => \A r \in client.steady : Listed(r) \/ Ahead(r)
  /\ client.at \in ReadOn => \A r \in client.steady : Listed(r)
  /\ client.at \in Chosen =>
       /\ client.targets # {} /\ client.targets \subseteq DOMAIN client.tables
       /\ client.line.tables = {} => client.targets = DOMAIN client.tables
  /\ client.at \in {"types", "returned"} => server.network.there
  /\ client.at = "returned" => server.network.types = Creation!ObjectTypes

\* push.  As long as nobody else edits the network, what was read before the upload is
\* what the network had, what was read after it is what the network has, and a push that
\* compared nothing has warned or had nothing to lose.
ReadIs(schema) == \A t \in Types \ client.toRead : client.seen[t] = schema[t]
PushInv ==
  server.edits = 0 =>
    /\ client.round = "before" /\ client.at \in {"list", "details", "upload"} =>
         /\ server.schema = client.had
         /\ ~server.exists => client.had = Push!Nothing
    /\ client.round = "before" /\ client.at \in {"list", "details"} => ~client.compared
    /\ client.at = "details" => ReadIs(server.schema)
    /\ client.compared => client.before = client.had
    /\ client.round = "after" => client.compared
    /\ client.at = "upload" =>
         client.round = "before" /\ (client.compared \/ client.warned \/ client.had = Push!Nothing)
    /\ client.at = "returned" =>
         \/ client.warned
         \/ client.had = Push!Nothing
         \/ Push!Losses(client.had, server.schema, client.policy) = {}

\* vega resource update.  Who has read the entity updates it, and what was read is what
\* the entity was at that update_time.
OnlyUpdatesRead == \A e \in Editors : client.at[e] = "read" => client.line[e].does = "update"
TimesAgree(read, now) ==
  /\ now.update_time = None <=> read.update_time = None
  /\ now.update_time # None =>
       /\ 1 <= read.update_time /\ read.update_time <= now.update_time
       /\ read.update_time = now.update_time => read = now
EditInv == OnlyUpdatesRead /\ \A e \in Editors : TimesAgree(client.current[e], server.entity)

\* vega resource build --wait.
BuildInv ==
  /\ client.at # "exited" => ~client.overran
  /\ Build!ExitTellsBuild

\* auth login.  No time passes between the last poll and the look at the deadline: who
\* approved in between approved now.
LoginInv ==
  /\ client.at \in {"request", "forms", "listen"} => server.approved = None
  /\ client.at \in {"listen", "answer", "exchange"} => client.way = "callback"
  /\ client.at = "exchange" => server.approved # None
  /\ (client.at = "wait" /\ ~client.slowed /\ server.approved # None) =>
        server.approved = server.now
  /\ Login!ApprovalIsSeen

\* The tokens of the Python client.  Whoever has a grant and has not written it yet.
Holding(t) == Sessions!At(t) \in {"granted", "write"}
\* What holds whatever was lost.
GrantsInv ==
  /\ server.kept.grant <= server.issued
  /\ \A t \in Threads : Sessions!Read(t) <= server.issued
  /\ \A t \in Threads : Holding(t) => Sessions!Read(t) < server.issued
  /\ client.cli.at = "write" => client.cli.read < server.issued
  /\ client.cli.read <= server.issued
\* Of an app: who renews has the lock, and the holder has the last grant unless it is
\* being renewed or the answer was lost.
AppInv ==
  /\ client.cli.at = "idle"
  /\ \A t \in Threads :
       /\ Sessions!At(t) # "write"
       /\ Sessions!At(t) \in {"exchange", "granted", "failed"} => client.lock = t
       /\ Sessions!At(t) = "granted" => server.issued = client.held + 1
  /\ "answer" \notin server.lost =>
       /\ ~server.revoked
       /\ (\A t \in Threads : Sessions!At(t) # "granted") => server.issued = client.held
  /\ server.lost = {} => server.kept.grant = client.held /\ server.kept.dated = client.held
\* Of a login, as long as nothing is lost: what is kept is the last grant, or the one
\* before while one thread or command has the last one to write.
StoreInv ==
  server.lost = {} =>
    /\ server.kept.dated \in {0, server.kept.grant}
    /\ \A t \in Threads : Sessions!Read(t) <= server.kept.grant
    /\ client.cli.read <= server.kept.grant
    /\ Sessions!Quiet => server.issued = server.kept.grant
    /\ \A t \in Threads : Holding(t) =>
         /\ Sessions!Read(t) = server.kept.grant /\ server.issued = server.kept.grant + 1
         /\ client.cli.at # "write"
         /\ \A u \in Threads : Holding(u) => u = t
    /\ client.cli.at = "write" =>
         /\ client.cli.read = server.kept.grant /\ server.issued = server.kept.grant + 1
TokensInv ==
  /\ GrantsInv
  /\ client.how = "app" => AppInv
  /\ client.how = "store" => StoreInv

\* The turns of the Python client.
Idle(c) == Turns!At(c) = "idle" \/ Turns!Over(c)
Closed == {"cancelled", "failed"}
\* The stages of a call and the scope.
StagesInv ==
  /\ client.traced <=> client.scope # "none"
  /\ client.scope \in {"closing", "closed", "broken"} => \A c \in Calls : Idle(c)
  /\ \A c \in Calls :
       /\ Turns!At(c) # "idle" => Turns!Kn(c) \in Kns
       /\ Turns!At(c) \in {"idle", "bare", "join", "start"} => server.turns[c] = "none"
       /\ ~Turns!Over(c) => server.turns[c] \notin Closed
       /\ Turns!At(c) = "start" => ~client.owned
       /\ Turns!At(c) = "finish" => ~client.traced /\ Turns!Turn(c) = c
\* The registry has turns of its own network that were started, or the caller's.
RegistryInv ==
  \A k \in Kns :
    /\ client.registry[k] \in Calls =>
         /\ Turns!Kn(client.registry[k]) = k
         /\ Turns!At(client.registry[k]) \in {"send", "returned", "raised"}
    /\ client.registry[k] = Caller => client.owned
    /\ client.registry[k] # None => client.traced
\* Calls that run one after another displace no turn.
AloneInv ==
  ~client.shared =>
    /\ server.displaced = {}
    /\ \A c, d \in Calls : c # d => Idle(c) \/ Idle(d)
    /\ client.traced =>
         \A c \in Calls : Turns!At(c) = "start" => client.registry[Turns!Kn(c)] = None
\* An open turn that is not lost is in the registry, or its call is on the way to finish it.
OpenInv ==
  \A c \in Calls :
    (server.turns[c] = "active" /\ c \notin server.untold \cup server.unheard \cup server.displaced) =>
      IF client.traced
      THEN client.scope \in {"open", "closing"} /\ client.registry[Turns!Kn(c)] = c
      ELSE Turns!At(c) \in {"send", "finish"} /\ Turns!Turn(c) = c
OutcomesInv ==
  /\ server.turns[Caller] = "active"
  /\ Turns!OutcomesTold
  /\ client.scope = "open" => \A c \in Calls : server.turns[c] \notin Closed
TurnsInv == StagesInv /\ RegistryInv /\ AloneInv /\ OpenInv /\ OutcomesInv

----------------------------------------------------------------------------
\* NetworkCreation.

\* What is assumed of the constants of create-from-catalog.
LEMMA CreationConstants ==
  /\ PageSize \in Nat \ {0} /\ BatchSize \in Nat \ {0} /\ MaxChanges \in Nat
  /\ CommandLines \subseteq Creation!Lines /\ Listings \subseteq Seq(Resources)
BY ConstantsAssumption DEF ClientsAssumption, Creation!CreationAssumption

\* A part of a sequence is a sequence of the same set.
LEMMA PartTyped ==
  ASSUME NEW S, NEW s \in Seq(S), NEW m \in Nat \ {0}, NEW n \in Nat, n <= Len(s)
  PROVE  /\ SubSeq(s, m, n) \in Seq(S)
         /\ Len(SubSeq(s, m, n)) = IF m <= n THEN n - m + 1 ELSE 0
         /\ \A i \in 1 .. n - m + 1 : SubSeq(s, m, n)[i] = s[m + i - 1]
<1>1. \A i \in m .. n : s[i] \in S
  BY ElementOfSeq
<1> QED
  BY <1>1, SubSeqProperties

\* What a page of the listing holds, and what it means that it is empty.
LEMMA SliceProperties ==
  ASSUME NEW s \in Seq(Resources), NEW offset \in Nat, NEW n \in Nat \ {0}
  PROVE  LET slice == Creation!Slice(s, offset, n)
         IN  /\ slice \in Seq(Resources)
             /\ \A i \in 1 .. Len(slice) : slice[i] = s[offset + i]
             /\ slice = <<>> => Len(s) <= offset
<1> DEFINE upTo == IF offset + n < Len(s) THEN offset + n ELSE Len(s)
           slice == SubSeq(s, offset + 1, upTo)
<1>1. Len(s) \in Nat
  BY LenProperties
<1>2. upTo \in Nat /\ upTo <= Len(s)
  BY <1>1
<1>3. offset + 1 \in Nat \ {0}
  OBVIOUS
<1>4. /\ slice \in Seq(Resources)
      /\ Len(slice) = IF offset + 1 <= upTo THEN upTo - (offset + 1) + 1 ELSE 0
      /\ \A i \in 1 .. upTo - (offset + 1) + 1 : slice[i] = s[offset + 1 + i - 1]
  <2> HIDE DEF upTo
  <2> QED
    BY <1>2, <1>3, PartTyped
<1>5. ASSUME NEW i \in 1 .. Len(slice) PROVE slice[i] = s[offset + i]
  <2>1. i \in 1 .. upTo - (offset + 1) + 1
    <3> HIDE DEF slice
    <3> QED
      BY <1>2, <1>4
  <2>2. offset + 1 + i - 1 = offset + i
    BY <2>1, <1>2
  <2> QED
    BY <1>4, <2>1, <2>2
<1>6. ASSUME slice = <<>> PROVE Len(s) <= offset
  <2>1. Len(slice) = 0
    BY <1>6
  <2>2. ~(offset + 1 <= upTo)
    <3> HIDE DEF slice, upTo
    <3> QED
      BY <1>2, <1>4, <2>1
  <2> QED
    BY <1>1, <2>2
<1> QED
  BY <1>4, <1>5, <1>6 DEF Creation!Slice

\* An element of a sequence is at a place or further on after another is put in.
LEMMA InsertProperties ==
  ASSUME NEW s \in Seq(Resources), NEW r \in Resources, NEW p \in 1 .. Len(s) + 1
  PROVE  LET longer == Creation!InsertAt(s, p, r)
         IN  /\ longer \in Seq(Resources)
             /\ \A j \in 1 .. Len(s) : \E k \in 1 .. Len(longer) : k >= j /\ longer[k] = s[j]
<1> DEFINE front == SubSeq(s, 1, p - 1)
           back == SubSeq(s, p, Len(s))
           start == front \o <<r>>
           longer == start \o back
<1>1. Len(s) \in Nat /\ p \in Nat \ {0} /\ p - 1 \in Nat /\ p - 1 <= Len(s) /\ p <= Len(s) + 1
  BY LenProperties
<1>2. /\ front \in Seq(Resources) /\ Len(front) = p - 1
      /\ \A i \in 1 .. p - 1 : front[i] = s[i]
  BY <1>1, PartTyped
<1>3. /\ back \in Seq(Resources) /\ Len(back) = Len(s) - p + 1
      /\ \A i \in 1 .. Len(s) - p + 1 : back[i] = s[p + i - 1]
  BY <1>1, PartTyped
<1>4. <<r>> \in Seq(Resources) /\ Len(<<r>>) = 1
  OBVIOUS
<1> HIDE DEF front, back
<1>5. /\ start \in Seq(Resources) /\ Len(start) = p
      /\ \A i \in 1 .. p - 1 : start[i] = s[i]
  BY <1>1, <1>2, <1>4, ConcatProperties
<1> HIDE DEF start
<1>6. /\ longer \in Seq(Resources) /\ Len(longer) = Len(s) + 1
      /\ \A i \in 1 .. Len(s) + 1 : longer[i] = IF i <= p THEN start[i] ELSE back[i - p]
  <2>1. Len(start) + Len(back) = Len(s) + 1
    BY <1>1, <1>3, <1>5
  <2>2. /\ longer \in Seq(Resources) /\ Len(longer) = Len(start) + Len(back)
        /\ \A i \in 1 .. Len(start) + Len(back) :
             longer[i] = IF i <= Len(start) THEN start[i] ELSE back[i - Len(start)]
    BY <1>3, <1>5, ConcatProperties
  <2> HIDE DEF longer
  <2> QED
    BY <1>5, <2>1, <2>2
<1> HIDE DEF longer
<1>7. ASSUME NEW j \in 1 .. Len(s)
      PROVE  \E k \in 1 .. Len(longer) : k >= j /\ longer[k] = s[j]
  <2>1. CASE j < p
    <3>1. j \in 1 .. Len(longer) /\ j <= p /\ j \in 1 .. p - 1
      BY <1>1, <1>6, <2>1
    <3>2. longer[j] = start[j] /\ start[j] = s[j]
      BY <1>5, <1>6, <3>1
    <3> QED
      BY <3>1, <3>2
  <2>2. CASE j >= p
    <3>1. j + 1 \in 1 .. Len(longer) /\ ~(j + 1 <= p) /\ j + 1 - p \in 1 .. Len(s) - p + 1
      BY <1>1, <1>6, <2>2
    <3>2. longer[j + 1] = back[j + 1 - p]
      BY <1>6, <3>1
    <3>3. back[j + 1 - p] = s[p + (j + 1 - p) - 1] /\ p + (j + 1 - p) - 1 = j
      BY <1>1, <1>3, <3>1
    <3> QED
      BY <3>1, <3>2, <3>3
  <2> QED
    BY <1>1, <2>1, <2>2
<1> QED
  BY <1>6, <1>7 DEF Creation!InsertAt, longer, start, front, back

\* A sequence without one of its elements is a sequence of the same set.
LEMMA RemoveTyped ==
  ASSUME NEW s \in Seq(Resources), NEW p \in DOMAIN s
  PROVE  Creation!RemoveAt(s, p) \in Seq(Resources)
<1>1. Len(s) \in Nat /\ p \in 1 .. Len(s)
  BY LenProperties
<1>2. SubSeq(s, 1, p - 1) \in Seq(Resources)
  BY <1>1, PartTyped
<1>3. SubSeq(s, p + 1, Len(s)) \in Seq(Resources)
  BY <1>1, PartTyped
<1> QED
  BY <1>2, <1>3, ConcatProperties DEF Creation!RemoveAt

\* A listing has resources at its places.
LEMMA ListingIsOfResources ==
  ASSUME NEW s \in Seq(Resources)
  PROVE  Creation!ToSet(s) \subseteq Resources /\ DOMAIN s = 1 .. Len(s) /\ Len(s) \in Nat
<1>1. DOMAIN s = 1 .. Len(s) /\ Len(s) \in Nat
  BY LenProperties
<1> QED
  BY <1>1, ElementOfSeq DEF Creation!ToSet

\* The object types of a command are resources, and at least one.
LEMMA TargetsTyped ==
  ASSUME Creation!TypeOK, CreationInv, client.at \in Chosen
  PROVE  /\ Creation!ObjectTypes \subseteq Resources
         /\ Creation!ObjectTypes # {}
<1>1. client.tables \in Seq(Resources)
  BY DEF Creation!TypeOK
<1>2. client.targets # {} /\ client.targets \subseteq 1 .. Len(client.tables)
  BY <1>1, ListingIsOfResources DEF CreationInv
<1> QED
  BY <1>1, <1>2, ElementOfSeq DEF Creation!ObjectTypes

\* A page, and the tables with a page, are sequences of resources.
LEMMA PageTyped ==
  ASSUME Creation!TypeOK
  PROVE  /\ Creation!Slice(server.listing, Len(client.tables), PageSize) \in Seq(Resources)
         /\ client.tables \o Creation!Slice(server.listing, Len(client.tables), PageSize)
              \in Seq(Resources)
<1>1. client.tables \in Seq(Resources) /\ server.listing \in Seq(Resources)
  BY DEF Creation!TypeOK
<1>2. Len(client.tables) \in Nat
  BY <1>1, LenProperties
<1>3. Creation!Slice(server.listing, Len(client.tables), PageSize) \in Seq(Resources)
  BY <1>1, <1>2, CreationConstants, SliceProperties
<1> QED
  BY <1>1, <1>3, ConcatProperties

\* How a command goes on when its object types were not created.
LEMMA FailureTyped ==
  ASSUME Creation!TypeOK, Creation!AfterFailure
  PROVE  /\ client' \in
              [command : {"create"}, line : Creation!Lines,
               at : {"list", "discover", "poll", "details", "select", "keys", "create", "types",
                     "rollback", "returned", "threw"},
               tables : Seq(Resources), read : Nat, scanned : BOOLEAN, late : BOOLEAN,
               targets : SUBSET Nat, answered : BOOLEAN, told : BOOLEAN, steady : SUBSET Resources]
         /\ client'.tables = client.tables /\ client'.targets = client.targets
         /\ client'.steady = client.steady /\ client'.line = client.line
         /\ client'.answered = client.answered
         /\ client'.at = "rollback" \/ (client'.at = "threw" /\ client'.told)
<1>1. CASE client' = [client EXCEPT !.at = "threw", !.told = TRUE]
  BY <1>1 DEF Creation!TypeOK
<1>2. CASE client' = [client EXCEPT !.at = "rollback"]
  BY <1>2 DEF Creation!TypeOK
<1> QED
  BY <1>1, <1>2 DEF Creation!AfterFailure, Creation!Go

\* A step keeps the shapes of the state (createFromCatalog).
LEMMA CreationTyped ==
  ASSUME Creation!TypeOK, CreationInv, Creation!Next
  PROVE  Creation!TypeOK'
<1> USE DEF Creation!TypeOK, Creation!Go, Creation!Throw
<1>1. CASE Creation!ListPage
  <2> DEFINE tables == client.tables \o Creation!Slice(server.listing, Len(client.tables), PageSize)
  <2>1. tables \in Seq(Resources)
    BY PageTyped
  <2>2. PICK at \in {"list", "details", "discover", "threw"} :
          client' = [client EXCEPT !.tables = tables, !.at = at]
    BY <1>1 DEF Creation!ListPage
  <2> HIDE DEF tables
  <2> QED
    BY <1>1, <2>1, <2>2 DEF Creation!ListPage
<1>2. CASE Creation!Discover
  BY <1>2 DEF Creation!Discover
<1>3. CASE Creation!DiscoverLost
  BY <1>3 DEF Creation!DiscoverLost
<1>4. CASE Creation!Poll
  <2>1. CASE client' = [client EXCEPT !.at = "list", !.steady = Creation!ToSet(server.listing)]
    <3>1. Creation!ToSet(server.listing) \subseteq Resources
      BY ListingIsOfResources
    <3> QED
      BY <1>4, <2>1, <3>1 DEF Creation!Poll
  <2>2. CASE Creation!Throw
    BY <1>4, <2>2 DEF Creation!Poll
  <2> QED
    BY <1>4, <2>1, <2>2 DEF Creation!Poll
<1>5. CASE Creation!Deadline
  BY <1>5 DEF Creation!Deadline
<1>6. CASE Creation!ReadDetails
  <2>1. CASE Creation!Throw
    BY <1>6, <2>1 DEF Creation!ReadDetails
  <2>2. CASE ~Creation!Throw
    <3>1. PICK at \in {"select", "details"} :
            client' = [client EXCEPT !.read = client.read + BatchSize, !.at = at]
      BY <1>6, <2>2 DEF Creation!ReadDetails
    <3>2. client.read + BatchSize \in Nat
      BY CreationConstants
    <3> QED
      BY <1>6, <3>1, <3>2 DEF Creation!ReadDetails
  <2> QED
    BY <2>1, <2>2
<1>7. CASE Creation!ReadFails \/ Creation!CreateRefused
  BY <1>7 DEF Creation!ReadFails, Creation!CreateRefused
<1>8. CASE Creation!Select
  <2>1. Creation!Targets \subseteq Nat
    BY ListingIsOfResources DEF Creation!Targets
  <2>2. CASE Creation!Throw
    BY <1>8, <2>2 DEF Creation!Select
  <2>3. CASE client' = [client EXCEPT !.at = "keys", !.targets = Creation!Targets]
    BY <1>8, <2>1, <2>3 DEF Creation!Select
  <2> QED
    BY <1>8, <2>2, <2>3 DEF Creation!Select
<1>9. CASE Creation!FindKeys
  <2>1. \E at \in {"create", "threw"} : Creation!Go(at)
    BY <1>9 DEF Creation!FindKeys
  <2> QED
    BY <1>9, <2>1 DEF Creation!FindKeys
<1>10. CASE Creation!Create
  BY <1>10 DEF Creation!Create
<1>11. CASE Creation!CreateLost
  BY <1>11 DEF Creation!CreateLost
<1>12. CASE Creation!CreateTypes
  <2>1. Creation!ObjectTypes \subseteq Resources
    BY <1>12, TargetsTyped DEF Creation!CreateTypes, Chosen, CreationInv
  <2> QED
    BY <1>12, <2>1 DEF Creation!CreateTypes
<1>13. CASE Creation!TypesRefused
  BY <1>13, FailureTyped DEF Creation!TypesRefused
<1>14. CASE Creation!TypesLost
  <2>1. Creation!ObjectTypes \subseteq Resources
    BY <1>14, TargetsTyped DEF Creation!TypesLost, Chosen
  <2>2. server' \in [listing : Seq(Resources), task : {"none", "running", "completed", "failed"},
                     changes : 0..MaxChanges, network : [there : BOOLEAN, types : SUBSET Resources]]
    BY <1>14, <2>1 DEF Creation!TypesLost
  <2> QED
    BY <1>14, <2>2, FailureTyped DEF Creation!TypesLost
<1>15. CASE Creation!Rollback
  <2>1. PICK answer : Creation!Told(answer)
    BY <1>15 DEF Creation!Rollback
  <2>2. Creation!NoNetwork \in [there : BOOLEAN, types : SUBSET Resources]
    BY DEF Creation!NoNetwork
  <2>3. server' \in {server, [server EXCEPT !.network = Creation!NoNetwork]}
    BY <1>15 DEF Creation!Rollback
  <2>4. (~Creation!Gone(answer)) \in BOOLEAN
    OBVIOUS
  <2> QED
    BY <2>1, <2>2, <2>3, <2>4 DEF Creation!Told
<1>16. CASE Creation!Scan
  <2>1. PICK status \in {"completed", "failed"}, found \in Listings \cup {server.listing} :
          server' = [server EXCEPT !.task = status, !.listing = found]
    BY <1>16 DEF Creation!Scan
  <2>2. found \in Seq(Resources)
    BY CreationConstants
  <2> QED
    BY <1>16, <2>1, <2>2 DEF Creation!Scan
<1>17. CASE Creation!TableAdded
  <2>1. PICK r \in Resources \ Creation!ToSet(server.listing), i \in 1..(Len(server.listing) + 1) :
          server' = [server EXCEPT !.listing = Creation!InsertAt(@, i, r), !.changes = @ + 1]
    BY <1>17 DEF Creation!TableAdded
  <2>2. Creation!InsertAt(server.listing, i, r) \in Seq(Resources)
    BY InsertProperties
  <2>3. server.changes + 1 \in 0..MaxChanges
    BY <1>17, CreationConstants DEF Creation!TableAdded
  <2> QED
    BY <1>17, <2>1, <2>2, <2>3 DEF Creation!TableAdded
<1>18. CASE Creation!TableDropped
  <2>1. PICK i \in DOMAIN server.listing :
          server' = [server EXCEPT !.listing = Creation!RemoveAt(@, i), !.changes = @ + 1]
    BY <1>18 DEF Creation!TableDropped
  <2>2. Creation!RemoveAt(server.listing, i) \in Seq(Resources)
    BY RemoveTyped
  <2>3. server.changes + 1 \in 0..MaxChanges
    BY <1>18, CreationConstants DEF Creation!TableDropped
  <2> QED
    BY <1>18, <2>1, <2>2, <2>3 DEF Creation!TableDropped
<1> QED
  BY <1>1, <1>2, <1>3, <1>4, <1>5, <1>6, <1>7, <1>8, <1>9, <1>10, <1>11, <1>12, <1>13, <1>14,
     <1>15, <1>16, <1>17, <1>18 DEF Creation!Next, Creation!Request

\* A command that reads nothing goes on with the tables it has.
LEMMA ListedStays ==
  ASSUME NEW r, client'.tables = client.tables
  PROVE  Listed(r)' <=> Listed(r)
BY DEF Listed

\* The listing that is read on has what is relied on among the tables, or further down.
LEMMA PageKeeps ==
  ASSUME Creation!TypeOK, CreationInv, client.at = "list",
         client'.tables = client.tables \o Creation!Slice(server.listing, Len(client.tables), PageSize),
         server' = server
  PROVE  /\ \A r \in client.steady : Listed(r)' \/ Ahead(r)'
         /\ (\/ Creation!Slice(server.listing, Len(client.tables), PageSize) = <<>>
             \/ Len(client'.tables) >= Len(server.listing)) =>
               \A r \in client.steady : Listed(r)'
<1> DEFINE slice == Creation!Slice(server.listing, Len(client.tables), PageSize)
<1>1. client.tables \in Seq(Resources) /\ server.listing \in Seq(Resources)
  BY DEF Creation!TypeOK
<1>2. /\ Len(client.tables) \in Nat /\ DOMAIN client.tables = 1 .. Len(client.tables)
      /\ Len(server.listing) \in Nat /\ DOMAIN server.listing = 1 .. Len(server.listing)
  BY <1>1, LenProperties
<1>3. /\ slice \in Seq(Resources)
      /\ \A i \in 1 .. Len(slice) : slice[i] = server.listing[Len(client.tables) + i]
      /\ slice = <<>> => Len(server.listing) <= Len(client.tables)
  BY <1>1, <1>2, CreationConstants, SliceProperties
<1>4. Len(slice) \in Nat /\ (Len(slice) = 0 => slice = <<>>)
  BY <1>3, LenProperties, EmptySeq
<1> HIDE DEF slice
<1>5. /\ client'.tables \in Seq(Resources)
      /\ Len(client'.tables) = Len(client.tables) + Len(slice)
      /\ \A i \in 1 .. Len(client.tables) + Len(slice) :
           client'.tables[i] = IF i <= Len(client.tables) THEN client.tables[i]
                               ELSE slice[i - Len(client.tables)]
  <2>1. client'.tables = client.tables \o slice
    BY DEF slice
  <2> QED
    BY <1>1, <1>3, <2>1, ConcatProperties
<1>6. DOMAIN client'.tables = 1 .. Len(client.tables) + Len(slice)
  BY <1>5, LenProperties
<1>7. ASSUME NEW r \in client.steady
      PROVE  Listed(r)' \/ (\E j \in 1 .. Len(server.listing) :
                              j > Len(client'.tables) /\ server.listing[j] = r)
  <2>1. CASE Listed(r)
    <3>1. PICK i \in 1 .. Len(client.tables) : client.tables[i] = r
      BY <1>2, <2>1 DEF Listed
    <3>2. i \in 1 .. Len(client.tables) + Len(slice) /\ i <= Len(client.tables)
      BY <1>2, <1>4, <3>1
    <3>3. client'.tables[i] = r
      BY <1>5, <3>1, <3>2
    <3> QED
      BY <1>6, <3>2, <3>3 DEF Listed
  <2>2. CASE Ahead(r)
    <3>1. PICK j \in 1 .. Len(server.listing) : j > Len(client.tables) /\ server.listing[j] = r
      BY <1>2, <2>2 DEF Ahead
    <3>2. CASE j > Len(client'.tables)
      BY <3>1, <3>2
    <3>3. CASE ~(j > Len(client'.tables))
      <4>1. /\ j \in 1 .. Len(client.tables) + Len(slice) /\ ~(j <= Len(client.tables))
            /\ j - Len(client.tables) \in 1 .. Len(slice)
        BY <1>2, <1>4, <1>5, <3>1, <3>3
      <4>2. client'.tables[j] = slice[j - Len(client.tables)]
        BY <1>5, <4>1
      <4>3. slice[j - Len(client.tables)] = server.listing[Len(client.tables) + (j - Len(client.tables))]
        BY <1>3, <4>1
      <4>4. Len(client.tables) + (j - Len(client.tables)) = j
        BY <1>2, <3>1
      <4> QED
        BY <1>6, <3>1, <4>1, <4>2, <4>3, <4>4 DEF Listed
    <3> QED
      BY <3>2, <3>3
  <2> QED
    BY <2>1, <2>2 DEF CreationInv
<1>8. ASSUME NEW r \in client.steady PROVE Listed(r)' \/ Ahead(r)'
  BY <1>2, <1>7 DEF Ahead
<1>9. ASSUME slice = <<>> \/ Len(client'.tables) >= Len(server.listing)
      PROVE  Len(client'.tables) >= Len(server.listing)
  BY <1>2, <1>3, <1>4, <1>5, <1>9
<1>10. ASSUME Len(client'.tables) >= Len(server.listing), NEW r \in client.steady PROVE Listed(r)'
  BY <1>2, <1>4, <1>5, <1>7, <1>10
<1> QED
  BY <1>8, <1>9, <1>10 DEF slice

\* A table that is added moves what is ahead further down.
LEMMA InsertKeepsAhead ==
  ASSUME Creation!TypeOK, client' = client, NEW p \in 1 .. Len(server.listing) + 1,
         NEW q \in Resources, server'.listing = Creation!InsertAt(server.listing, p, q)
  PROVE  \A r \in client.steady : Ahead(r) => Ahead(r)'
<1>1. server.listing \in Seq(Resources) /\ client.tables \in Seq(Resources)
  BY DEF Creation!TypeOK
<1>2. /\ server'.listing \in Seq(Resources)
      /\ \A j \in 1 .. Len(server.listing) :
           \E k \in 1 .. Len(server'.listing) : k >= j /\ server'.listing[k] = server.listing[j]
  <2> DEFINE longer == Creation!InsertAt(server.listing, p, q)
  <2>1. /\ longer \in Seq(Resources)
        /\ \A j \in 1 .. Len(server.listing) :
             \E k \in 1 .. Len(longer) : k >= j /\ longer[k] = server.listing[j]
    BY <1>1, InsertProperties
  <2>2. server'.listing = longer
    OBVIOUS
  <2> HIDE DEF longer
  <2> QED
    BY <2>1, <2>2
<1>3. /\ Len(client.tables) \in Nat
      /\ DOMAIN server.listing = 1 .. Len(server.listing) /\ Len(server.listing) \in Nat
      /\ DOMAIN server'.listing = 1 .. Len(server'.listing) /\ Len(server'.listing) \in Nat
  BY <1>1, <1>2, LenProperties
<1>4. ASSUME NEW r \in client.steady, Ahead(r) PROVE Ahead(r)'
  <2>1. PICK j \in 1 .. Len(server.listing) : j > Len(client.tables) /\ server.listing[j] = r
    BY <1>3, <1>4 DEF Ahead
  <2>2. PICK k \in 1 .. Len(server'.listing) : k >= j /\ server'.listing[k] = server.listing[j]
    BY <1>2, <2>1
  <2>3. k > Len(client'.tables)
    BY <1>3, <2>1, <2>2
  <2> QED
    BY <1>3, <2>1, <2>2, <2>3 DEF Ahead
<1> QED
  BY <1>4

\* What the catalog lists is ahead of a command that has no table yet.
LEMMA AllAhead ==
  ASSUME NEW tables, tables = <<>>, NEW s \in Seq(Resources), NEW r \in Creation!ToSet(s)
  PROVE  \E j \in DOMAIN s : j > Len(tables) /\ s[j] = r
<1>1. Len(tables) = 0
  OBVIOUS
<1>2. PICK j \in DOMAIN s : s[j] = r
  BY DEF Creation!ToSet
<1>3. j \in 1 .. Len(s)
  BY LenProperties
<1> QED
  BY <1>1, <1>2, <1>3

\* What the listing was read for, and which object types it comes to.
LEMMA TypesOfAll ==
  ASSUME Creation!TypeOK, CreationInv
  PROVE  Creation!NoTableMissed
<1> SUFFICES ASSUME client.at = "returned"
             PROVE  /\ server.network.there /\ server.network.types # {}
                    /\ client.line.tables = {} => client.steady \subseteq server.network.types
  BY DEF Creation!NoTableMissed
<1>1. /\ server.network.there /\ server.network.types = Creation!ObjectTypes
      /\ client.targets # {} /\ (client.line.tables = {} => client.targets = DOMAIN client.tables)
      /\ \A r \in client.steady : Listed(r)
  BY DEF CreationInv, Chosen, ReadOn
<1>2. Creation!ObjectTypes # {}
  BY TargetsTyped DEF Chosen
<1>3. ASSUME client.line.tables = {}, NEW r \in client.steady
      PROVE  r \in Creation!ObjectTypes
  BY <1>1, <1>3 DEF Listed, Creation!ObjectTypes
<1> QED
  BY <1>1, <1>2, <1>3

\* A step keeps what is known of the tables and of the network (createFromCatalog).
LEMMA CreationStep ==
  ASSUME Creation!TypeOK, CreationInv, Creation!Next
  PROVE  CreationInv'
<1> USE DEF Creation!TypeOK, CreationInv, Creation!LeftBehindIsTold, ReadOn, Chosen,
            Creation!Go, Creation!Throw
<1>1. CASE Creation!ListPage
  <2> DEFINE slice == Creation!Slice(server.listing, Len(client.tables), PageSize)
             tables == client.tables \o slice
             done == slice = <<>> \/ Len(tables) >= Len(server.listing)
  <2>1. client.at = "list" /\ server' = server
    BY <1>1 DEF Creation!ListPage
  <2>2. PICK at \in {"list", "details", "discover", "threw"} :
          /\ client' = [client EXCEPT !.tables = tables, !.at = at]
          /\ at # "list" => done
          /\ at = "discover" => tables = <<>>
    BY <1>1 DEF Creation!ListPage
  <2>3. client'.tables = tables
    BY <2>2
  <2>4. /\ \A r \in client.steady : Listed(r)' \/ Ahead(r)'
        /\ done => \A r \in client.steady : Listed(r)'
    BY <2>1, <2>3, PageKeeps
  <2> HIDE DEF tables, done
  <2> QED
    BY <2>1, <2>2, <2>3, <2>4
<1>2. CASE Creation!Discover
  BY <1>2 DEF Creation!Discover
<1>3. CASE Creation!DiscoverLost
  BY <1>3 DEF Creation!DiscoverLost
<1>4. CASE Creation!Poll
  <2>1. CASE /\ client' = [client EXCEPT !.at = "list", !.steady = Creation!ToSet(server.listing)]
             /\ server.task = "completed"
    <3>1. client.at = "poll" /\ server' = server /\ client.tables = <<>>
      BY <1>4 DEF Creation!Poll
    <3>2. \A r \in client'.steady : Ahead(r)'
      BY <2>1, <3>1, AllAhead DEF Ahead
    <3> QED
      BY <2>1, <3>1, <3>2
  <2>2. CASE Creation!Throw
    BY <1>4, <2>2 DEF Creation!Poll
  <2> QED
    BY <1>4, <2>1, <2>2 DEF Creation!Poll
<1>5. CASE Creation!Deadline
  BY <1>5 DEF Creation!Deadline
<1>6. CASE Creation!ReadDetails
  <2>1. CASE Creation!Throw
    BY <1>6, <2>1 DEF Creation!ReadDetails
  <2>2. CASE ~Creation!Throw
    <3>1. PICK at \in {"select", "details"} :
            client' = [client EXCEPT !.read = client.read + BatchSize, !.at = at]
      BY <1>6, <2>2 DEF Creation!ReadDetails
    <3>2. client.at = "details" /\ server' = server /\ client'.tables = client.tables
      BY <1>6, <3>1 DEF Creation!ReadDetails
    <3> QED
      BY <3>1, <3>2, ListedStays
  <2> QED
    BY <2>1, <2>2
<1>7. CASE Creation!ReadFails \/ Creation!CreateRefused
  BY <1>7 DEF Creation!ReadFails, Creation!CreateRefused
<1>8. CASE Creation!Select
  <2>1. client.at = "select" /\ server' = server
    BY <1>8 DEF Creation!Select
  <2>2. CASE Creation!Throw
    BY <2>1, <2>2
  <2>3. CASE /\ client' = [client EXCEPT !.at = "keys", !.targets = Creation!Targets]
             /\ Creation!Targets # {}
    <3>1. Creation!Targets \subseteq DOMAIN client.tables
      BY DEF Creation!Targets
    <3>2. client.line.tables = {} => Creation!Targets = DOMAIN client.tables
      BY DEF Creation!Targets
    <3>3. client'.tables = client.tables /\ client'.targets = Creation!Targets
      BY <2>3
    <3> QED
      BY <2>1, <2>3, <3>1, <3>2, <3>3, ListedStays
  <2> QED
    BY <1>8, <2>2, <2>3 DEF Creation!Select
<1>9. CASE Creation!FindKeys
  <2>1. client.at = "keys" /\ server' = server /\ \E at \in {"create", "threw"} : Creation!Go(at)
    BY <1>9 DEF Creation!FindKeys
  <2>2. client'.tables = client.tables
    BY <2>1
  <2> QED
    BY <2>1, <2>2, ListedStays
<1>10. CASE Creation!Create
  <2>1. client.at = "create" /\ client'.tables = client.tables
    BY <1>10 DEF Creation!Create
  <2> QED
    BY <1>10, <2>1, ListedStays DEF Creation!Create
<1>11. CASE Creation!CreateLost
  BY <1>11 DEF Creation!CreateLost
<1>12. CASE Creation!CreateTypes
  <2>1. /\ client.at = "types" /\ client' = [client EXCEPT !.at = "returned"]
        /\ server' = [server EXCEPT !.network.types = Creation!ObjectTypes]
    BY <1>12 DEF Creation!CreateTypes
  <2>2. client'.tables = client.tables /\ client'.targets = client.targets
    BY <2>1
  <2>3. Creation!ObjectTypes' = Creation!ObjectTypes
    BY <2>2 DEF Creation!ObjectTypes
  <2> QED
    BY <2>1, <2>2, <2>3, ListedStays
<1>13. CASE Creation!TypesRefused
  <2>1. client.at = "types" /\ Creation!AfterFailure /\ server' = server
    BY <1>13 DEF Creation!TypesRefused
  <2> QED
    BY <2>1, FailureTyped, ListedStays
<1>14. CASE Creation!TypesLost
  <2>1. client.at = "types" /\ Creation!AfterFailure /\ server'.task = server.task
    BY <1>14 DEF Creation!TypesLost
  <2> QED
    BY <2>1, FailureTyped, ListedStays
<1>15. CASE Creation!Rollback
  <2>1. client.at = "rollback"
    BY <1>15 DEF Creation!Rollback
  <2>2. CASE /\ \E answer \in Creation!DeletedAnswers : Creation!Told(answer)
             /\ server' = [server EXCEPT !.network = Creation!NoNetwork]
    BY <2>1, <2>2 DEF Creation!Told, Creation!NoNetwork
  <2>3. CASE /\ \E answer \in Creation!UndeletedAnswers : Creation!Told(answer)
             /\ server' = server
    BY <2>1, <2>3 DEF Creation!Told, Creation!Gone, Creation!UndeletedAnswers
  <2> QED
    BY <1>15, <2>2, <2>3 DEF Creation!Rollback
<1>16. CASE Creation!Scan
  <2>1. PICK status \in {"completed", "failed"}, found \in Listings \cup {server.listing} :
          server' = [server EXCEPT !.task = status, !.listing = found]
    BY <1>16 DEF Creation!Scan
  <2>2. client' = client /\ client.at = "poll"
    BY <1>16 DEF Creation!Scan, Creation!Running
  <2> QED
    BY <2>1, <2>2
<1>17. CASE Creation!TableAdded
  <2>1. PICK r \in Resources \ Creation!ToSet(server.listing), i \in 1..(Len(server.listing) + 1) :
          server' = [server EXCEPT !.listing = Creation!InsertAt(@, i, r), !.changes = @ + 1]
    BY <1>17 DEF Creation!TableAdded
  <2>2. client' = client /\ client.at # "returned"
    BY <1>17 DEF Creation!TableAdded, Creation!Running
  <2>3. /\ server'.listing = Creation!InsertAt(server.listing, i, r)
        /\ server'.network = server.network /\ server'.task = server.task
    BY <2>1
  <2>4. \A q \in client.steady : Ahead(q) => Ahead(q)'
    BY <2>2, <2>3, InsertKeepsAhead
  <2>5. \A q \in client.steady : Listed(q) <=> Listed(q)'
    BY <2>2, ListedStays
  <2> QED
    BY <2>2, <2>3, <2>4, <2>5
<1>18. CASE Creation!TableDropped
  <2>1. client' = [client EXCEPT !.steady = {}] /\ client.at # "returned" /\ client.at # "threw"
    BY <1>18 DEF Creation!TableDropped, Creation!Running
  <2>2. server'.network = server.network /\ server'.task = server.task
    BY <1>18 DEF Creation!TableDropped
  <2> QED
    BY <2>1, <2>2
<1> QED
  BY <1>1, <1>2, <1>3, <1>4, <1>5, <1>6, <1>7, <1>8, <1>9, <1>10, <1>11, <1>12, <1>13, <1>14,
     <1>15, <1>16, <1>17, <1>18 DEF Creation!Next, Creation!Request

\* A command begins with no table read, all it relies on ahead.
LEMMA CreationInit == ASSUME Creation!Init PROVE Creation!TypeOK /\ CreationInv
<1>1. PICK line \in CommandLines, listing \in Listings :
        /\ client = [command |-> "create", line |-> line, at |-> "list", tables |-> <<>>,
                     read |-> 0, scanned |-> FALSE, late |-> FALSE, targets |-> {},
                     answered |-> FALSE, told |-> FALSE, steady |-> Creation!ToSet(listing)]
        /\ server = [listing |-> listing, task |-> "none", changes |-> 0,
                     network |-> Creation!NoNetwork]
  BY DEF Creation!Init
<1>2. listing \in Seq(Resources) /\ line \in Creation!Lines
  BY CreationConstants
<1>3. Creation!ToSet(listing) \subseteq Resources
  BY <1>2, ListingIsOfResources
<1>4. <<>> \in Seq(Resources) /\ Creation!NoNetwork \in [there : BOOLEAN, types : SUBSET Resources]
  BY DEF Creation!NoNetwork
<1>5. Creation!TypeOK
  BY <1>1, <1>2, <1>3, <1>4, CreationConstants DEF Creation!TypeOK
<1>6. \A r \in client.steady : Ahead(r)
  BY <1>1, <1>2, AllAhead DEF Ahead
<1>7. CreationInv
  BY <1>1, <1>6 DEF CreationInv, Creation!LeftBehindIsTold, ReadOn, Chosen
<1> QED
  BY <1>5, <1>7

----------------------------------------------------------------------------
\* NetworkPush.

\* What is assumed of the constants of a push.
LEMMA PushConstants ==
  /\ None \notin Sources /\ MaxEdits \in Nat
  /\ Networks \subseteq Push!Schemas /\ Imports \subseteq Push!Schemas
  /\ None \notin Push!Definitions
BY ConstantsAssumption DEF ClientsAssumption, Push!PushAssumption, Push!Definitions

\* A network without types has nothing, and nothing is a network without types.
LEMMA NothingThere ==
  /\ Push!Nothing \in Push!Schemas
  /\ Push!There(Push!Nothing) = {}
  /\ \A schema \in Push!Schemas : Push!There(schema) = {} => schema = Push!Nothing
<1>1. Push!Nothing \in Push!Schemas
  BY DEF Push!Nothing, Push!Schemas
<1>2. Push!There(Push!Nothing) = {}
  BY DEF Push!Nothing, Push!There
<1>3. ASSUME NEW schema \in Push!Schemas, Push!There(schema) = {}
      PROVE  schema = Push!Nothing
  <2>1. \A t \in Types : schema[t] = None
    BY <1>3 DEF Push!There
  <2> QED
    BY <2>1 DEF Push!Nothing, Push!Schemas
<1> QED
  BY <1>1, <1>2, <1>3

\* What becomes of a snapshot: it is kept, or compared with the one before the upload.
SnapshotKept(seen) ==
  /\ client.round = "before"
  /\ client' = [client EXCEPT !.at = "upload", !.before = seen, !.compared = TRUE]
SnapshotCompared(seen) ==
  /\ client.round = "after"
  /\ client' = [client EXCEPT !.at = "returned",
                  !.warned = @ \/ Push!Losses(client.before, seen, client.policy) # {}]

\* A snapshot is kept in the first round and compared in the second (push).
LEMMA Snapshots ==
  ASSUME Push!TypeOK, NEW seen, Push!Snapshot(seen)
  PROVE  SnapshotKept(seen) \/ SnapshotCompared(seen)
BY DEF Push!TypeOK, Push!Snapshot, SnapshotKept, SnapshotCompared

\* A snapshot keeps the shapes of the state.
LEMMA SnapshotTyped ==
  ASSUME Push!TypeOK, NEW seen \in Push!Schemas, Push!Snapshot(seen), server' = server
  PROVE  Push!TypeOK'
<1>1. CASE SnapshotKept(seen)
  BY <1>1 DEF SnapshotKept, Push!TypeOK
<1>2. CASE SnapshotCompared(seen)
  <2>1. (client.warned \/ Push!Losses(client.before, seen, client.policy) # {}) \in BOOLEAN
    BY DEF Push!TypeOK
  <2> QED
    BY <1>2, <2>1 DEF SnapshotCompared, Push!TypeOK
<1> QED
  BY <1>1, <1>2, Snapshots

\* What was seen, when one more type has been read.
SeenNext(t) == [client.seen EXCEPT ![t] = server.schema[t]]

\* What was seen stays a schema when one more type is read.
LEMMA SeenTyped == ASSUME Push!TypeOK, NEW t \in Types PROVE SeenNext(t) \in Push!Schemas
<1>1. server.schema \in Push!Schemas /\ client.seen \in Push!Schemas
  BY DEF Push!TypeOK
<1> QED
  BY <1>1 DEF SeenNext, Push!Schemas

\* A step of a push keeps the shapes of its state (push).
LEMMA PushTyped == ASSUME Push!TypeOK, Push!Next PROVE Push!TypeOK'
<1> USE DEF Push!TypeOK
<1>1. CASE Push!List
  <2>0. server' = server
    BY <1>1 DEF Push!List
  <2>1. CASE Push!Go("upload")
    BY <2>0, <2>1 DEF Push!Go
  <2>2. CASE Push!Unread
    BY <2>0, <2>2 DEF Push!Unread
  <2>3. CASE Push!Snapshot(Push!Nothing)
    BY <2>0, <2>3, SnapshotTyped, NothingThere
  <2>4. CASE client' = [client EXCEPT !.at = "details", !.toRead = Push!There(server.schema),
                                      !.seen = Push!Nothing]
    <3>1. Push!There(server.schema) \subseteq Types
      BY DEF Push!There
    <3> QED
      BY <2>0, <2>4, <3>1, NothingThere
  <2> QED
    BY <1>1, <2>1, <2>2, <2>3, <2>4 DEF Push!List
<1>2. CASE \E t \in Types : Push!ReadDetail(t)
  <2>1. PICK t \in Types : Push!ReadDetail(t)
    BY <1>2
  <2>2. SeenNext(t) \in Push!Schemas
    BY SeenTyped
  <2>3. CASE Push!Snapshot(SeenNext(t))
    BY <2>1, <2>2, <2>3, SnapshotTyped DEF Push!ReadDetail
  <2>4. CASE client' = [client EXCEPT !.toRead = @ \ {t}, !.seen = SeenNext(t)]
    BY <2>1, <2>2, <2>4 DEF Push!ReadDetail
  <2> QED
    BY <2>1, <2>3, <2>4 DEF Push!ReadDetail, SeenNext
<1>3. CASE Push!Upload
  <2>1. server' \in [exists : BOOLEAN, schema : Push!Schemas, edits : 0..MaxEdits]
    BY <1>3, PushConstants DEF Push!Upload
  <2>2. CASE client.compared
    <3>1. client' = [client EXCEPT !.at = "list", !.round = "after"]
      BY <1>3, <2>2 DEF Push!Upload, Push!Uploaded
    <3> QED
      BY <2>1, <3>1
  <2>3. CASE ~client.compared
    BY <1>3, <2>1, <2>3 DEF Push!Upload, Push!Uploaded, Push!Go
  <2> QED
    BY <2>2, <2>3
<1>4. CASE Push!UploadLost
  <2>1. server' \in [exists : BOOLEAN, schema : Push!Schemas, edits : 0..MaxEdits]
    BY <1>4, PushConstants DEF Push!UploadLost
  <2> QED
    BY <1>4, <2>1 DEF Push!UploadLost, Push!Throw, Push!Go
<1>5. CASE Push!UploadRefused
  BY <1>5 DEF Push!UploadRefused, Push!Throw, Push!Go
<1>6. CASE Push!ReadFails
  <2>1. CASE Push!Unread
    BY <1>6, <2>1 DEF Push!ReadFails, Push!Unread
  <2>2. CASE Push!Throw
    BY <1>6, <2>2 DEF Push!ReadFails, Push!Throw, Push!Go
  <2> QED
    BY <1>6, <2>1, <2>2 DEF Push!ReadFails
<1>7. CASE \E t \in Types : Push!Edit(t)
  <2>1. PICK t \in Types : Push!Edit(t)
    BY <1>7
  <2>2. PICK d \in Push!Definitions \cup {None} :
          server' = [server EXCEPT !.schema[t] = d, !.edits = @ + 1]
    BY <2>1 DEF Push!Edit
  <2>3. server.schema \in Push!Schemas
    OBVIOUS
  <2>4. [server.schema EXCEPT ![t] = d] \in Push!Schemas
    BY <2>2, <2>3 DEF Push!Schemas
  <2>5. server.edits + 1 \in 0..MaxEdits
    BY <2>1, PushConstants DEF Push!Edit
  <2> QED
    BY <2>1, <2>2, <2>4, <2>5 DEF Push!Edit
<1>8. CASE Push!Removed
  <2>1. server.edits + 1 \in 0..MaxEdits
    BY <1>8, PushConstants DEF Push!Removed
  <2> QED
    BY <1>8, <2>1, NothingThere DEF Push!Removed
<1> QED
  BY <1>1, <1>2, <1>3, <1>4, <1>5, <1>6, <1>7, <1>8 DEF Push!Next, Push!Request

\* A snapshot that is what the network has is what it had, or tells what was lost of it.
LEMMA SnapshotStep ==
  ASSUME Push!TypeOK, PushInv, NEW seen, Push!Snapshot(seen), server' = server,
         client.at \in {"list", "details"}, seen = server.schema
  PROVE  PushInv'
<1> SUFFICES ASSUME server.edits = 0
             PROVE  PushInv'
  BY DEF PushInv
<1>1. CASE SnapshotKept(seen)
  BY <1>1 DEF SnapshotKept, PushInv, Push!TypeOK
<1>2. CASE SnapshotCompared(seen)
  <2>1. client.compared /\ client.before = client.had
    BY <1>2 DEF SnapshotCompared, PushInv
  <2>2. client'.warned \/ Push!Losses(client.had, server.schema, client.policy) = {}
    BY <1>2, <2>1 DEF SnapshotCompared, Push!TypeOK
  <2> QED
    BY <1>2, <2>1, <2>2 DEF SnapshotCompared, PushInv, Push!TypeOK, Push!Losses, Push!There, Push!Lost
<1> QED
  BY <1>1, <1>2, Snapshots

\* As long as nobody else edits the network, a step of a push keeps what it knows of it
\* (push, lostIndexWarnings).
LEMMA PushStep == ASSUME Push!TypeOK, PushInv, Push!Next PROVE PushInv'
<1> USE DEF Push!TypeOK
<1>1. CASE Push!List
  <2> SUFFICES ASSUME server.edits = 0
               PROVE  PushInv'
    BY <1>1 DEF Push!List, PushInv
  <2>0. server' = server /\ client.at = "list"
    BY <1>1 DEF Push!List
  <2>1. CASE Push!Go("upload") /\ ~server.exists /\ client.round = "before"
    <3>1. client.had = Push!Nothing /\ server.schema = client.had /\ ~client.compared
      BY <2>0, <2>1 DEF PushInv
    <3> QED
      BY <2>0, <2>1, <3>1 DEF Push!Go, PushInv
  <2>2. CASE Push!Unread
    BY <2>0, <2>2 DEF Push!Unread, PushInv
  <2>3. CASE Push!Snapshot(Push!Nothing) /\ Push!There(server.schema) = {}
    <3>1. server.schema = Push!Nothing
      BY <2>3, NothingThere
    <3> QED
      BY <2>0, <2>3, <3>1, SnapshotStep
  <2>4. CASE client' = [client EXCEPT !.at = "details", !.toRead = Push!There(server.schema),
                                      !.seen = Push!Nothing]
    <3>1. ASSUME NEW t \in Types \ Push!There(server.schema)
          PROVE  Push!Nothing[t] = server.schema[t]
      BY DEF Push!There, Push!Nothing
    <3>2. ReadIs(server.schema)'
      BY <2>0, <2>4, <3>1 DEF ReadIs
    <3> QED
      BY <2>0, <2>4, <3>2 DEF PushInv
  <2> QED
    BY <1>1, <2>1, <2>2, <2>3, <2>4 DEF Push!List
<1>2. CASE \E t \in Types : Push!ReadDetail(t)
  <2> SUFFICES ASSUME server.edits = 0
               PROVE  PushInv'
    BY <1>2 DEF Push!ReadDetail, PushInv
  <2>1. PICK t \in Types : Push!ReadDetail(t)
    BY <1>2
  <2>2. server' = server /\ client.at = "details" /\ t \in client.toRead /\ ReadIs(server.schema)
    BY <2>1 DEF Push!ReadDetail, PushInv
  <2>3. ASSUME NEW u \in Types, u = t \/ u \notin client.toRead
        PROVE  SeenNext(t)[u] = server.schema[u]
    BY <2>2, <2>3 DEF SeenNext, ReadIs, Push!Schemas
  <2>4. CASE Push!Snapshot(SeenNext(t)) /\ client.toRead = {t}
    <3>1. SeenNext(t) \in Push!Schemas /\ server.schema \in Push!Schemas
      BY SeenTyped
    <3>2. \A u \in Types : SeenNext(t)[u] = server.schema[u]
      BY <2>3, <2>4
    <3>3. SeenNext(t) = server.schema
      BY <3>1, <3>2 DEF Push!Schemas
    <3> QED
      BY <2>2, <2>4, <3>3, SnapshotStep
  <2>5. CASE client' = [client EXCEPT !.toRead = @ \ {t}, !.seen = SeenNext(t)]
    <3>1. ReadIs(server.schema)'
      BY <2>2, <2>3, <2>5 DEF ReadIs
    <3> QED
      BY <2>2, <2>5, <3>1 DEF PushInv
  <2> QED
    BY <2>1, <2>4, <2>5 DEF Push!ReadDetail, SeenNext
<1>3. CASE Push!Upload
  <2> SUFFICES ASSUME server.edits = 0
               PROVE  PushInv'
    BY <1>3 DEF Push!Upload, PushInv
  <2>1. client.at = "upload" /\ server'.exists = TRUE /\ server'.edits = server.edits
    BY <1>3 DEF Push!Upload
  <2>2. CASE client.compared
    BY <1>3, <2>1, <2>2 DEF Push!Upload, Push!Uploaded, PushInv
  <2>3. CASE ~client.compared
    BY <1>3, <2>1, <2>3 DEF Push!Upload, Push!Uploaded, Push!Go, PushInv
  <2> QED
    BY <2>2, <2>3
<1>4. CASE Push!UploadLost
  BY <1>4 DEF Push!UploadLost, Push!Throw, Push!Go, PushInv
<1>5. CASE Push!UploadRefused
  BY <1>5 DEF Push!UploadRefused, Push!Throw, Push!Go, PushInv
<1>6. CASE Push!ReadFails
  <2>1. CASE Push!Unread
    BY <1>6, <2>1 DEF Push!ReadFails, Push!Unread, PushInv
  <2>2. CASE Push!Throw
    BY <1>6, <2>2 DEF Push!ReadFails, Push!Throw, Push!Go, PushInv
  <2> QED
    BY <1>6, <2>1, <2>2 DEF Push!ReadFails
<1>7. CASE (\E t \in Types : Push!Edit(t)) \/ Push!Removed
  <2>1. server.edits \in Nat /\ server'.edits = server.edits + 1
    <3>1. server.edits \in Nat
      BY PushConstants
    <3>2. CASE \E t \in Types : Push!Edit(t)
      BY <3>1, <3>2 DEF Push!Edit
    <3>3. CASE Push!Removed
      BY <3>1, <3>3 DEF Push!Removed
    <3> QED
      BY <1>7, <3>1, <3>2, <3>3
  <2>2. server'.edits # 0
    BY <2>1
  <2> QED
    BY <2>2 DEF PushInv
<1> QED
  BY <1>1, <1>2, <1>3, <1>4, <1>5, <1>6, <1>7 DEF Push!Next, Push!Request

\* What a push that is over knows is what it promises (lostIndexWarnings).
LEMMA PushKeeps == ASSUME Push!TypeOK, PushInv PROVE Push!SilentPushKeeps
<1> SUFFICES ASSUME client.at = "returned", ~client.warned, server.edits = 0,
                    NEW t \in Push!There(client.had)
             PROVE  LET had == client.had[t]
                        has == server.schema[t]
                    IN  \/ has # None /\ (had.source # None => has.source = had.source)
                                      /\ (had.indexed => has.indexed)
                        \/ has = None /\ had.source = None /\ ~had.indexed
                        \/ client.policy = "detach" /\ has # None /\ had.source # None
                           /\ has.source = None
  BY DEF Push!SilentPushKeeps
<1>1. client.had # Push!Nothing
  BY NothingThere
<1>2. Push!Losses(client.had, server.schema, client.policy) = {}
  BY <1>1 DEF PushInv
<1>3. ~Push!Lost(client.had[t], server.schema[t], client.policy)
  BY <1>2 DEF Push!Losses
<1> QED
  BY <1>3 DEF Push!Lost

\* A push begins with nothing compared.
LEMMA PushInit == ASSUME Push!Init PROVE Push!TypeOK /\ PushInv
<1>1. PICK policy \in {"preserve", "detach"}, exists \in BOOLEAN, schema \in Networks :
        /\ exists \/ schema = Push!Nothing
        /\ server = [exists |-> exists, schema |-> schema, edits |-> 0]
        /\ client = [command |-> "push", policy |-> policy, at |-> "list", round |-> "before",
                     toRead |-> {}, seen |-> Push!Nothing, before |-> Push!Nothing,
                     compared |-> FALSE, warned |-> FALSE, had |-> schema]
  BY DEF Push!Init
<1>2. Push!TypeOK
  BY <1>1, PushConstants, NothingThere DEF Push!TypeOK
<1>3. PushInv
  BY <1>1 DEF PushInv
<1> QED
  BY <1>2, <1>3

----------------------------------------------------------------------------
\* ResourceEdit.

\* What is assumed of the constants of an edit.
LEMMA EditConstants == Original \notin Editors /\ None \notin Nat /\ None \notin Editors
BY ConstantsAssumption DEF ClientsAssumption, Edit!EditAssumption

\* What an update of e writes has the shape of the entity and is e's in its field alone.
LEMMA BodyTyped ==
  ASSUME Edit!TypeOK, NEW e \in Editors, client.line[e].does = "update"
  PROVE  /\ Edit!Body(e) \in Edit!Entities
         /\ Edit!Body(e).enabled = client.current[e].enabled
         /\ \A f \in Fields : f # client.line[e].field =>
              Edit!Body(e).values[f] = client.current[e].values[f]
<1>1. client.current[e] \in Edit!Entities
  BY DEF Edit!TypeOK
<1>2. client.line[e] \in Edit!Commands
  BY DEF Edit!TypeOK
<1>3. client.line[e].field \in Fields
  BY <1>2 DEF Edit!Commands
<1> QED
  BY <1>1, <1>3 DEF Edit!Body, Edit!Entities

\* A write replaces the entity by one that is an update later.
LEMMA WriteTyped ==
  ASSUME Edit!TypeOK, NEW e \in Editors, NEW entity \in Edit!Entities, Edit!Write(e, entity)
  PROVE  /\ server' \in [entity : Edit!Entities, by : Editors \cup {None}]
         /\ server'.by = e
         /\ server'.entity.values = entity.values /\ server'.entity.enabled = entity.enabled
         /\ server'.entity.update_time = Edit!Bumped(server.entity.update_time)
<1>1. server.entity.update_time \in Nat \cup {None}
  BY DEF Edit!TypeOK, Edit!Entities
<1>2. Edit!Bumped(server.entity.update_time) \in Nat \cup {None}
  BY <1>1 DEF Edit!Bumped
<1> QED
  BY <1>2 DEF Edit!Write, Edit!Entities

\* What a step of an editor does: it reads the entity, it ends, or it writes and ends.
EditorMoves(e, at) ==
  /\ client' \in [command : {"edit"}, kind : Edit!Kinds, line : [Editors -> Edit!Commands],
                  at : [Editors -> {"start", "read", "returned", "threw"}],
                  current : [Editors -> Edit!Entities]]
  /\ client'.line = client.line /\ client'.at = [client.at EXCEPT ![e] = at]
EditorReads(e) ==
  /\ client.line[e].does = "update" /\ \E at \in {"read", "threw"} : EditorMoves(e, at)
  /\ client'.current = [client.current EXCEPT ![e] = server.entity]
  /\ server' = server
EditorEnds(e) ==
  /\ \E at \in {"returned", "threw"} : EditorMoves(e, at)
  /\ client'.current = client.current
EditorReplaces(e) ==
  /\ client.line[e].does = "update" /\ Edit!Accepts(e)
  /\ Edit!Write(e, Edit!Body(e)) /\ EditorEnds(e)
EditorSwitches(e) ==
  /\ client.line[e].field = "enabled"
  /\ \E on \in BOOLEAN : Edit!Write(e, [server.entity EXCEPT !.enabled = on])
  /\ EditorEnds(e)

\* An editor that goes to an end writes nothing more.
LEMMA EditorGoEnds ==
  ASSUME Edit!TypeOK, NEW e \in Editors, NEW at \in {"returned", "threw"}, Edit!Go(e, at)
  PROVE  EditorEnds(e)
<1>1. EditorMoves(e, at) /\ client'.current = client.current
  BY DEF Edit!TypeOK, Edit!Go, EditorMoves
<1> QED
  BY <1>1 DEF EditorEnds

\* A step of an editor is one of these.
LEMMA EditSteps ==
  ASSUME Edit!TypeOK, OnlyUpdatesRead, Edit!Next
  PROVE  \E e \in Editors :
           \/ EditorReads(e) \/ (EditorEnds(e) /\ server' = server)
           \/ EditorReplaces(e) \/ EditorSwitches(e)
<1>1. PICK e \in Editors : Edit!Step(e)
  BY DEF Edit!Next
<1>2. CASE Edit!Read(e)
  <2> DEFINE at == IF client.kind = "catalog" /\ server.entity.update_time = None
                      /\ client.line[e].known = None
                   THEN "threw" ELSE "read"
  <2>1. client' = [client EXCEPT !.at[e] = at, !.current[e] = server.entity] /\ server' = server
    BY <1>2 DEF Edit!Read
  <2>2. at \in {"threw", "read"}
    OBVIOUS
  <2> HIDE DEF at
  <2>3. EditorMoves(e, at) /\ client'.current = [client.current EXCEPT ![e] = server.entity]
    BY <2>1, <2>2 DEF EditorMoves, Edit!TypeOK
  <2>4. client.line[e].does = "update"
    BY <1>2 DEF Edit!Read
  <2> QED
    BY <2>1, <2>2, <2>3, <2>4 DEF EditorReads
<1>3. CASE Edit!ReadFails(e) \/ Edit!ReplaceRefused(e)
  BY <1>3, EditorGoEnds DEF Edit!ReadFails, Edit!ReplaceRefused
<1>4. CASE Edit!Replace(e)
  <2>1. EditorEnds(e)
    BY <1>4, EditorGoEnds DEF Edit!Replace
  <2> QED
    BY <1>4, <2>1 DEF Edit!Replace, EditorReplaces, OnlyUpdatesRead
<1>5. CASE Edit!Switch(e)
  <2>1. client.line[e] \in Edit!Commands
    BY DEF Edit!TypeOK
  <2>2. client.line[e].field = "enabled"
    BY <1>5, <2>1 DEF Edit!Switch, Edit!Commands
  <2>3. EditorEnds(e)
    BY <1>5, EditorGoEnds DEF Edit!Switch
  <2>4. PICK on \in BOOLEAN : Edit!Write(e, [server.entity EXCEPT !.enabled = on])
    BY <1>5 DEF Edit!Switch
  <2> QED
    BY <2>2, <2>3, <2>4 DEF EditorSwitches
<1> QED
  BY <1>1, <1>2, <1>3, <1>4, <1>5 DEF Edit!Step

\* The times at which the entity was and is updated are in order.
LEMMA EditTimes ==
  ASSUME Edit!TypeOK, EditInv, NEW e \in Editors
  PROVE  /\ server.entity.update_time = None <=> client.current[e].update_time = None
         /\ server.entity.update_time # None =>
              /\ server.entity.update_time \in Nat /\ client.current[e].update_time \in Nat
              /\ 1 <= client.current[e].update_time
              /\ client.current[e].update_time <= server.entity.update_time
              /\ Edit!Bumped(server.entity.update_time) = server.entity.update_time + 1
              /\ client.current[e].update_time = server.entity.update_time =>
                   client.current[e] = server.entity
         /\ server.entity.update_time = None => Edit!Bumped(server.entity.update_time) = None
<1>1. server.entity \in Edit!Entities /\ client.current[e] \in Edit!Entities
  BY DEF Edit!TypeOK
<1>2. server.entity.update_time \in Nat \cup {None} /\ client.current[e].update_time \in Nat \cup {None}
  BY <1>1 DEF Edit!Entities
<1> QED
  BY <1>2 DEF EditInv, TimesAgree, Edit!Bumped

\* An update that is accepted read the entity as it is (expected_update_time).
LEMMA AcceptedIsCurrent ==
  ASSUME Edit!TypeOK, EditInv, NEW e \in Editors, client.line[e].does = "update",
         Edit!Accepts(e), server.entity.update_time # None
  PROVE  client.current[e] = server.entity
<1>1. client.line[e] \in Edit!Commands
  BY DEF Edit!TypeOK
<1>2. client.line[e].known \in {1, None}
  BY <1>1 DEF Edit!Commands
<1>3. Edit!Expected(e) = server.entity.update_time
  BY <1>2, EditTimes, EditConstants DEF Edit!Accepts, Edit!Expected
<1>4. CASE client.line[e].known = None
  BY <1>3, <1>4, EditTimes DEF Edit!Expected
<1>5. CASE client.line[e].known = 1
  <2>1. server.entity.update_time = 1
    BY <1>3, <1>5, EditConstants DEF Edit!Expected
  <2> QED
    BY <2>1, EditTimes
<1> QED
  BY <1>2, <1>4, <1>5

\* A write makes the entity newer than all that was read.
LEMMA WriteIsNewer ==
  ASSUME Edit!TypeOK, EditInv, client'.current = client.current,
         server'.entity.update_time = Edit!Bumped(server.entity.update_time)
  PROVE  \A u \in Editors : TimesAgree(client.current[u], server.entity)'
<1> SUFFICES ASSUME NEW u \in Editors
             PROVE  TimesAgree(client'.current[u], server'.entity)
  BY DEF TimesAgree
<1>1. client'.current[u] = client.current[u]
  OBVIOUS
<1> QED
  BY <1>1, EditTimes, EditConstants DEF TimesAgree

\* A step of an editor keeps the shapes of the state, and what was read is what the entity
\* was (updateResource, updateCatalog).
LEMMA EditStep == ASSUME Edit!TypeOK, EditInv, Edit!Next PROVE Edit!TypeOK' /\ EditInv'
<1>1. PICK e \in Editors : \/ EditorReads(e) \/ (EditorEnds(e) /\ server' = server)
                           \/ EditorReplaces(e) \/ EditorSwitches(e)
  BY EditSteps DEF EditInv
<1>2. CASE EditorReads(e)
  <2>1. Edit!TypeOK'
    BY <1>2 DEF EditorReads, EditorMoves, Edit!TypeOK
  <2>2. OnlyUpdatesRead'
    BY <1>2 DEF EditorReads, EditorMoves, EditInv, OnlyUpdatesRead, Edit!TypeOK
  <2>3. ASSUME NEW u \in Editors PROVE TimesAgree(client'.current[u], server'.entity)
    <3>1. server.entity.update_time # None => 1 <= server.entity.update_time
      BY EditTimes
    <3>2. client'.current[u] \in {client.current[u], server.entity} /\ server' = server
      BY <1>2 DEF EditorReads, Edit!TypeOK
    <3>3. TimesAgree(server.entity, server.entity)
      BY <3>1, EditTimes DEF TimesAgree
    <3>4. TimesAgree(client.current[u], server.entity)
      BY DEF EditInv
    <3> QED
      BY <3>2, <3>3, <3>4
  <2> QED
    BY <2>1, <2>2, <2>3 DEF EditInv
<1>3. CASE EditorEnds(e) /\ server' = server
  <2>1. Edit!TypeOK'
    BY <1>3 DEF EditorEnds, EditorMoves, Edit!TypeOK
  <2>2. OnlyUpdatesRead'
    BY <1>3 DEF EditorEnds, EditorMoves, EditInv, OnlyUpdatesRead, Edit!TypeOK
  <2> QED
    BY <1>3, <2>1, <2>2 DEF EditorEnds, EditInv, TimesAgree
<1>4. CASE \E entity \in Edit!Entities : Edit!Write(e, entity) /\ EditorEnds(e)
  <2>1. PICK entity \in Edit!Entities : Edit!Write(e, entity)
    BY <1>4
  <2>2. Edit!TypeOK'
    BY <1>4, <2>1, WriteTyped DEF EditorEnds, EditorMoves, Edit!TypeOK
  <2>3. OnlyUpdatesRead'
    BY <1>4 DEF EditorEnds, EditorMoves, EditInv, OnlyUpdatesRead, Edit!TypeOK
  <2>4. \A u \in Editors : TimesAgree(client.current[u], server.entity)'
    BY <1>4, <2>1, WriteTyped, WriteIsNewer DEF EditorEnds
  <2> QED
    BY <2>2, <2>3, <2>4 DEF EditInv
<1>5. CASE EditorReplaces(e)
  BY <1>4, <1>5, BodyTyped DEF EditorReplaces
<1>6. CASE EditorSwitches(e)
  <2>1. server.entity \in Edit!Entities
    BY DEF Edit!TypeOK
  <2>2. ASSUME NEW on \in BOOLEAN PROVE [server.entity EXCEPT !.enabled = on] \in Edit!Entities
    BY <2>1 DEF Edit!Entities
  <2> QED
    BY <1>4, <1>6, <2>2 DEF EditorSwitches
<1> QED
  BY <1>1, <1>2, <1>3, <1>5, <1>6

\* A step of an editor changes what it was asked to change (updateResource, updateCatalog).
LEMMA EditChanges == ASSUME Edit!TypeOK, EditInv, Edit!Next PROVE Edit!EditChangesOwn
<1> SUFFICES ASSUME server.entity.update_time # None
             PROVE  /\ \A f \in Fields : server.entity.values[f] # server'.entity.values[f] =>
                                           client.line[server'.by].field = f
                    /\ server.entity.enabled # server'.entity.enabled =>
                         client.line[server'.by].field = "enabled"
  BY DEF Edit!EditChangesOwn
<1>1. PICK e \in Editors : \/ EditorReads(e) \/ (EditorEnds(e) /\ server' = server)
                           \/ EditorReplaces(e) \/ EditorSwitches(e)
  BY EditSteps DEF EditInv
<1>2. CASE server' = server
  BY <1>2
<1>3. CASE EditorReplaces(e)
  <2>1. client.current[e] = server.entity
    BY <1>3, AcceptedIsCurrent DEF EditorReplaces
  <2>2. /\ server'.by = e
        /\ server'.entity.values = Edit!Body(e).values
        /\ server'.entity.enabled = Edit!Body(e).enabled
    BY <1>3, BodyTyped, WriteTyped DEF EditorReplaces
  <2> QED
    BY <1>3, <2>1, <2>2, BodyTyped DEF EditorReplaces
<1>4. CASE EditorSwitches(e)
  <2>1. server.entity \in Edit!Entities
    BY DEF Edit!TypeOK
  <2>2. PICK on \in BOOLEAN : Edit!Write(e, [server.entity EXCEPT !.enabled = on])
    BY <1>4 DEF EditorSwitches
  <2>3. /\ [server.entity EXCEPT !.enabled = on] \in Edit!Entities
        /\ [server.entity EXCEPT !.enabled = on].values = server.entity.values
    BY <2>1 DEF Edit!Entities
  <2>4. server'.by = e /\ server'.entity.values = server.entity.values
    BY <2>2, <2>3, WriteTyped
  <2> QED
    BY <1>4, <2>4 DEF EditorSwitches
<1> QED
  BY <1>1, <1>2, <1>3, <1>4 DEF EditorReads

\* What an editor has before it read is the entity as it was.
LEMMA EditInit == ASSUME Edit!Init PROVE Edit!TypeOK /\ EditInv
<1>1. PICK kind \in Edit!Kinds, line \in [Editors -> Edit!Commands], timed \in BOOLEAN, on \in BOOLEAN :
        LET entity == [values |-> [f \in Fields |-> Original], enabled |-> on,
                       update_time |-> IF timed THEN 1 ELSE None]
        IN  /\ server = [entity |-> entity, by |-> None]
            /\ client = [command |-> "edit", kind |-> kind, line |-> line,
                         at |-> [e \in Editors |-> "start"],
                         current |-> [e \in Editors |-> entity]]
  BY DEF Edit!Init
<1>2. server.entity \in Edit!Entities /\ server.entity.update_time \in {1, None} /\ server.by = None
  BY <1>1 DEF Edit!Entities
<1>3. /\ client = [command |-> "edit", kind |-> kind, line |-> line,
                   at |-> [e \in Editors |-> "start"], current |-> [e \in Editors |-> server.entity]]
      /\ server = [entity |-> server.entity, by |-> None]
  BY <1>1
<1>4. Edit!TypeOK
  BY <1>2, <1>3 DEF Edit!TypeOK
<1>5. TimesAgree(server.entity, server.entity)
  BY <1>2, EditConstants DEF TimesAgree
<1> QED
  BY <1>3, <1>4, <1>5 DEF EditInv, OnlyUpdatesRead

----------------------------------------------------------------------------
\* BuildWait.

\* What is assumed of the constants of a wait.
LEMMA BuildConstants ==
  /\ BuildTimeouts \subseteq Nat /\ PollInterval \in Nat \ {0}
  /\ MaxStarts \in Nat /\ BuildTime \in Nat
BY ConstantsAssumption DEF ClientsAssumption, Build!WaitAssumption

\* The states that end a build, and the first and the last, are states.
LEMMA BuildStates == {"pending", "completed"} \cup Build!Ended \subseteq Build!States
BY DEF Build!States, Build!Ended

\* The times of a wait are numbers.
LEMMA BuildNumbers ==
  ASSUME Build!TypeOK
  PROVE  server.now \in Nat /\ client.timeout \in Nat /\ client.deadline \in Nat
<1>1. server.now \in Nat
  BY BuildConstants DEF Build!TypeOK
<1>2. client.timeout \in Nat
  BY BuildConstants DEF Build!TypeOK
<1>3. client.deadline \in Nat
  BY DEF Build!TypeOK
<1> QED
  BY <1>1, <1>2, <1>3

\* A step of the wait keeps the shapes of its state (waitForBuildTask).
LEMMA BuildTyped == ASSUME Build!TypeOK, Build!Next PROVE Build!TypeOK'
<1> USE DEF Build!TypeOK
<1>1. CASE Build!Create
  <2>1. CASE client.wait
    BY <1>1, <2>1 DEF Build!Create
  <2>2. CASE ~client.wait
    BY BuildStates, <1>1, <2>2 DEF Build!Create, Build!Exit
  <2> QED
    BY <2>1, <2>2
<1>2. CASE Build!Start
  <2>1. server.now + client.timeout \in Nat
    BY BuildNumbers
  <2> QED
    BY <1>2, <2>1 DEF Build!Start
<1>3. CASE Build!Ask
  <2>1. Build!Wakes \in Nat
    BY BuildConstants DEF Build!Wakes, Build!Remaining, Build!Limited
  <2>2. CASE client' = [client EXCEPT !.last = server.state, !.wakes = Build!Wakes]
    BY <1>3, <2>1, <2>2 DEF Build!Ask
  <2>3. CASE client' = [client EXCEPT !.at = "exited", !.last = server.state,
                                      !.exit = 1, !.overran = TRUE]
    BY <1>3, <2>3 DEF Build!Ask
  <2>4. CASE \E code \in {0, 1} : Build!Exit(server.state, code)
    BY <1>3, <2>4 DEF Build!Ask, Build!Exit
  <2> QED
    BY <1>3, <2>2, <2>3, <2>4 DEF Build!Ask
<1>4. CASE Build!RequestFails
  BY <1>4 DEF Build!RequestFails, Build!Exit
<1>5. CASE Build!Tick
  BY BuildConstants, <1>5 DEF Build!Tick
<1>6. CASE Build!TaskMoves
  BY <1>6 DEF Build!TaskMoves
<1>7. CASE Build!Restarted
  <2>1. server.starts + 1 \in 0..MaxStarts
    BY BuildConstants, <1>7 DEF Build!Restarted
  <2> QED
    BY BuildStates, <1>7, <2>1 DEF Build!Restarted
<1> QED
  BY <1>1, <1>2, <1>3, <1>4, <1>5, <1>6, <1>7 DEF Build!Next, Build!Request

\* The report of a wait is that of the last answer (waitAndReport).
LEMMA BuildStep == ASSUME Build!TypeOK, BuildInv, Build!Next PROVE BuildInv'
<1> USE DEF BuildInv, Build!ExitTellsBuild, Build!TypeOK
<1>1. CASE Build!Create
  BY <1>1 DEF Build!Create, Build!Exit
<1>2. CASE Build!Start
  BY <1>2 DEF Build!Start
<1>3. CASE Build!Ask
  <2>1. CASE ~client.wait
    BY <1>3, <2>1 DEF Build!Ask, Build!Exit
  <2>2. CASE client.wait /\ Build!Done(server.state)
    <3> DEFINE code == IF Build!Unsuccessful(server.state) THEN 1 ELSE 0
    <3>1. client' = [client EXCEPT !.at = "exited", !.last = server.state, !.exit = code]
      BY <1>3, <2>2 DEF Build!Ask, Build!Exit
    <3>2. client.at = "ask" /\ ~client.overran
      BY <1>3 DEF Build!Ask
    <3>3. code = 0 => server.state = "completed"
      BY <2>2 DEF Build!Unsuccessful
    <3> HIDE DEF code
    <3>4. client'.last = server.state /\ client'.exit = code /\ ~client'.overran
      BY <3>1, <3>2
    <3> QED
      BY <3>1, <3>3, <3>4
  <2>3. CASE client.wait /\ ~Build!Done(server.state) /\ Build!Over
    <3>1. server.now \in Nat /\ client.deadline \in Nat
      BY BuildNumbers
    <3>2. server.now >= client.deadline
      BY <2>3, <3>1 DEF Build!Over, Build!Remaining
    <3>3. /\ client' = [client EXCEPT !.at = "exited", !.last = server.state, !.exit = 1,
                                      !.overran = TRUE]
          /\ server' = server
      BY <1>3, <2>3 DEF Build!Ask
    <3>4. client'.last = server.state /\ client'.deadline = client.deadline /\ client'.exit = 1
      BY <3>3
    <3> QED
      BY <2>3, <3>2, <3>3, <3>4 DEF Build!Done
  <2>4. CASE client.wait /\ ~Build!Done(server.state) /\ ~Build!Over
    BY <1>3, <2>4 DEF Build!Ask
  <2> QED
    BY <2>1, <2>2, <2>3, <2>4
<1>4. CASE Build!RequestFails
  BY <1>4 DEF Build!RequestFails, Build!Exit
<1>5. CASE Build!Tick
  BY BuildConstants, <1>5 DEF Build!Tick
<1>6. CASE Build!TaskMoves
  BY <1>6 DEF Build!TaskMoves
<1>7. CASE Build!Restarted
  BY <1>7 DEF Build!Restarted
<1> QED
  BY <1>1, <1>2, <1>3, <1>4, <1>5, <1>6, <1>7 DEF Build!Next, Build!Request

\* A wait begins with no report.
LEMMA BuildInit == ASSUME Build!Init PROVE Build!TypeOK /\ BuildInv
BY BuildConstants, BuildStates DEF Build!Init, Build!TypeOK, BuildInv, Build!ExitTellsBuild

----------------------------------------------------------------------------
\* SignIn.

\* What is assumed of the constants of a sign-in.
LEMMA LoginConstants ==
  /\ LoginTimeouts \subseteq Nat
  /\ Expires \in Nat /\ AskInterval \in Nat /\ Backoff \in Nat /\ MaxSlow \in Nat
  /\ LoginTime \in Nat /\ None \notin Nat
BY ConstantsAssumption DEF ClientsAssumption, Login!SignInAssumption

\* The times of a sign-in are numbers.
LEMMA LoginNumbers ==
  ASSUME Login!TypeOK
  PROVE  /\ server.now \in Nat /\ client.timeout \in Nat /\ client.deadline \in Nat
         /\ client.interval \in Nat /\ server.slow \in Nat
         /\ server.approved # None => server.approved \in Nat
<1> USE DEF Login!TypeOK
<1>1. server.now \in Nat
  BY LoginConstants
<1>2. client.timeout \in Nat
  BY LoginConstants
<1>3. client.deadline \in Nat
  OBVIOUS
<1>4. client.interval \in Nat
  OBVIOUS
<1>5. server.slow \in Nat
  BY LoginConstants
<1>6. server.approved # None => server.approved \in Nat
  BY LoginConstants
<1> QED
  BY <1>1, <1>2, <1>3, <1>4, <1>5, <1>6

\* Approve keeps the shape of the platform.
LEMMA ApproveTyped ==
  ASSUME Login!TypeOK, Login!Approve
  PROVE  /\ server' \in [now : 0..LoginTime, approved : 0..LoginTime \cup {None},
                         denied : BOOLEAN, slow : 0..MaxSlow, issued : BOOLEAN]
         /\ server'.now = server.now
         /\ server.approved = None => server'.approved \in {None, server.now}
         /\ server.approved # None => server'.approved = server.approved
<1>1. CASE server.approved = None /\ ~server.denied
  BY <1>1 DEF Login!TypeOK, Login!Approve
<1>2. CASE ~(server.approved = None /\ ~server.denied)
  BY <1>2 DEF Login!TypeOK, Login!Approve
<1> QED
  BY <1>1, <1>2

\* A step of a sign-in keeps the shapes of its state (login flows).
LEMMA LoginTyped == ASSUME Login!TypeOK, Login!Next PROVE Login!TypeOK'
<1> USE DEF Login!TypeOK, Login!Go, Login!Throw
<1>1. CASE Login!RequestCode
  <2>1. server.now + Login!Min2(client.timeout, Expires) \in Nat
    BY LoginNumbers, LoginConstants DEF Login!Min2
  <2> DEFINE at == IF client.way = "password" THEN "forms" ELSE "wait"
             deadline == server.now + Login!Min2(client.timeout, Expires)
  <2>2. client' = [client EXCEPT !.deadline = deadline, !.at = at] /\ server' = server
    BY <1>1 DEF Login!RequestCode
  <2>3. at \in {"forms", "wait"}
    OBVIOUS
  <2> HIDE DEF at, deadline
  <2> QED
    BY <2>1, <2>2, <2>3 DEF deadline
<1>2. CASE Login!FillForms
  <2>1. CASE Login!Go("wait") /\ Login!Approve
    BY <2>1, ApproveTyped
  <2>2. CASE \E at \in {"wait", "threw"} : Login!Go(at) /\ UNCHANGED server
    BY <2>2
  <2> QED
    BY <1>2, <2>1, <2>2 DEF Login!FillForms
<1>3. CASE Login!Wait
  <2>1. server.now + client.interval \in Nat
    BY LoginNumbers
  <2>2. CASE client' = [client EXCEPT !.at = "poll", !.wakes = server.now + client.interval]
    BY <1>3, <2>1, <2>2 DEF Login!Wait
  <2>3. CASE Login!Go("timedOut")
    BY <1>3, <2>3 DEF Login!Wait
  <2> QED
    BY <1>3, <2>2, <2>3 DEF Login!Wait, Login!LoopOn
<1>4. CASE Login!Poll
  <2>1. CASE Login!Throw /\ UNCHANGED server
    BY <2>1
  <2>2. CASE /\ client' = [client EXCEPT !.at = "verify", !.tokens = TRUE]
             /\ server' = [server EXCEPT !.issued = TRUE]
    BY <2>2
  <2>3. CASE /\ client' = [client EXCEPT !.at = "wait", !.slowed = FALSE]
             /\ UNCHANGED server
    BY <2>3
  <2> QED
    BY <1>4, <2>1, <2>2, <2>3 DEF Login!Poll
<1>5. CASE Login!Listen
  <2>1. server.now + client.timeout \in Nat
    BY LoginNumbers
  <2> QED
    BY <1>5, <2>1 DEF Login!Listen
<1>6. CASE Login!Late
  BY <1>6 DEF Login!Late
<1>7. CASE Login!Exchange
  BY <1>7 DEF Login!Exchange
<1>8. CASE Login!Verify
  <2>1. CASE Login!Go("returned")
    BY <1>8, <2>1 DEF Login!Verify
  <2>2. CASE Login!Throw
    BY <1>8, <2>2 DEF Login!Verify
  <2> QED
    BY <1>8, <2>1, <2>2 DEF Login!Verify
<1>9. CASE Login!SlowDown
  <2>1. client.interval + Backoff \in Nat
    BY LoginNumbers, LoginConstants
  <2>2. server.slow + 1 \in 0..MaxSlow
    BY <1>9, LoginNumbers, LoginConstants DEF Login!SlowDown
  <2> QED
    BY <1>9, <2>1, <2>2 DEF Login!SlowDown
<1>10. CASE Login!PollFails
  <2>1. (server.issued \/ (server.approved # None /\ ~Login!Expired)) \in BOOLEAN
    OBVIOUS
  <2> QED
    BY <1>10, <2>1 DEF Login!PollFails
<1>11. CASE Login!Callback
  <2>1. CASE Login!Go("exchange")
    BY <1>11, <2>1 DEF Login!Callback
  <2>2. CASE Login!Throw
    BY <1>11, <2>2 DEF Login!Callback
  <2> QED
    BY <1>11, <2>1, <2>2 DEF Login!Callback
<1>12. CASE Login!Fails
  BY <1>12 DEF Login!Fails
<1>13. CASE Login!UserApproves
  BY <1>13, ApproveTyped DEF Login!UserApproves
<1>14. CASE Login!UserDenies
  BY <1>14 DEF Login!UserDenies
<1>15. CASE Login!Tick
  BY <1>15, LoginConstants DEF Login!Tick
<1> QED
  BY <1>1, <1>2, <1>3, <1>4, <1>5, <1>6, <1>7, <1>8, <1>9, <1>10, <1>11, <1>12, <1>13, <1>14,
     <1>15 DEF Login!Next, Login!Step

\* A step of a sign-in keeps what is known of the time of the approval (pollDeviceToken).
LEMMA LoginStep == ASSUME Login!TypeOK, LoginInv, Login!Next PROVE LoginInv'
<1> USE DEF LoginInv, Login!ApprovalIsSeen, Login!TypeOK, Login!Go, Login!Throw
<1>1. CASE Login!RequestCode
  <2>1. /\ client.at = "request" /\ client'.at \in {"forms", "wait"}
        /\ client'.tokens = client.tokens /\ client'.way = client.way /\ server' = server
    BY <1>1 DEF Login!RequestCode
  <2> QED
    BY <2>1
<1>2. CASE Login!FillForms
  <2>1. client.at = "forms" /\ server.approved = None
    BY <1>2 DEF Login!FillForms
  <2>2. CASE Login!Go("wait") /\ Login!Approve
    BY <2>1, <2>2, ApproveTyped
  <2>3. CASE \E at \in {"wait", "threw"} : Login!Go(at) /\ UNCHANGED server
    BY <2>1, <2>3
  <2> QED
    BY <1>2, <2>2, <2>3 DEF Login!FillForms
<1>3. CASE Login!Wait
  <2>1. client.at = "wait" /\ server' = server
    BY <1>3 DEF Login!Wait
  <2>2. CASE client' = [client EXCEPT !.at = "poll", !.wakes = server.now + client.interval]
    BY <2>1, <2>2
  <2>3. CASE Login!Go("timedOut") /\ ~(server.now < client.deadline)
    <3>1. (~client.slowed /\ server.approved # None) => server.approved >= client.deadline
      BY <2>1, <2>3, LoginNumbers
    <3> QED
      BY <2>1, <2>3, <3>1
  <2> QED
    BY <1>3, <2>2, <2>3 DEF Login!Wait, Login!LoopOn
<1>4. CASE Login!Poll
  <2>0. client.at = "poll"
    BY <1>4 DEF Login!Poll
  <2>1. CASE Login!Throw /\ UNCHANGED server
    BY <2>0, <2>1
  <2>2. CASE /\ client' = [client EXCEPT !.at = "verify", !.tokens = TRUE]
             /\ server' = [server EXCEPT !.issued = TRUE]
             /\ server.approved # None
    BY <2>0, <2>2
  <2>3. CASE /\ client' = [client EXCEPT !.at = "wait", !.slowed = FALSE]
             /\ UNCHANGED server
             /\ server.approved = None
    BY <2>0, <2>3
  <2> QED
    BY <1>4, <2>1, <2>2, <2>3 DEF Login!Poll
<1>5. CASE Login!Listen
  BY <1>5 DEF Login!Listen
<1>6. CASE Login!Late
  BY <1>6 DEF Login!Late
<1>7. CASE Login!Exchange
  BY <1>7 DEF Login!Exchange
<1>8. CASE Login!Verify
  BY <1>8 DEF Login!Verify
<1>9. CASE Login!SlowDown
  BY <1>9 DEF Login!SlowDown
<1>10. CASE Login!PollFails
  BY <1>10 DEF Login!PollFails
<1>11. CASE Login!Callback
  BY <1>11 DEF Login!Callback
<1>12. CASE Login!Fails
  BY <1>12 DEF Login!Fails
<1>13. CASE Login!UserApproves
  <2>1. /\ client' = client /\ server.approved = None
        /\ client.at \notin {"request", "listen", "forms", "timedOut"}
    BY <1>13 DEF Login!UserApproves, Login!Running
  <2>2. server'.approved = server.now /\ server'.now = server.now
    BY <1>13 DEF Login!UserApproves, Login!Approve
  <2> QED
    BY <2>1, <2>2, LoginNumbers, LoginConstants
<1>14. CASE Login!UserDenies
  BY <1>14 DEF Login!UserDenies
<1>15. CASE Login!Tick
  BY <1>15 DEF Login!Tick
<1> QED
  BY <1>1, <1>2, <1>3, <1>4, <1>5, <1>6, <1>7, <1>8, <1>9, <1>10, <1>11, <1>12, <1>13, <1>14,
     <1>15 DEF Login!Next, Login!Step

\* A sign-in begins before any approval.
LEMMA LoginInit == ASSUME Login!Init PROVE Login!TypeOK /\ LoginInv
<1>1. PICK way \in Login!Ways, timeout \in LoginTimeouts :
        /\ client = [command |-> "login", way |-> way, timeout |-> timeout,
                     at |-> CASE way = "token" -> "verify" [] way = "callback" -> "listen"
                              [] OTHER -> "request",
                     interval |-> AskInterval, wakes |-> 0, deadline |-> 0, slowed |-> FALSE,
                     tokens |-> way = "token"]
        /\ server = [now |-> 0, approved |-> None, denied |-> FALSE, slow |-> 0, issued |-> FALSE]
  BY DEF Login!Init
<1>2. client.at \in {"verify", "listen", "request"} /\ (client.at = "listen" => way = "callback")
  BY <1>1
<1>3. Login!TypeOK
  BY <1>1, <1>2, LoginConstants DEF Login!TypeOK
<1>4. LoginInv
  BY <1>1, <1>2 DEF LoginInv, Login!ApprovalIsSeen
<1> QED
  BY <1>3, <1>4

----------------------------------------------------------------------------
\* PythonTokens.

\* What is assumed of the constants of the tokens.
LEMMA TokensConstants == Nobody \notin Threads /\ Grants \in Nat \ {0} /\ CliRuns \in Nat
BY ConstantsAssumption DEF ClientsAssumption, Sessions!TokensAssumption

\* The parts of the state by which it is proved about.
LEMMA TokensNumbers ==
  ASSUME Sessions!TypeOK
  PROVE  /\ server.issued \in Nat /\ 1 <= server.issued /\ server.issued <= Grants
         /\ server.kept.grant \in Nat /\ client.held \in Nat /\ client.cli.read \in Nat
         /\ \A t \in Threads : client.threads[t].read \in Nat
<1> USE DEF Sessions!TypeOK, Sessions!Tokens
<1>1. server.issued \in Nat /\ 1 <= server.issued /\ server.issued <= Grants
  BY TokensConstants
<1>2. server.kept.grant \in Nat
  BY TokensConstants
<1>3. client.held \in Nat
  BY TokensConstants
<1>4. client.cli.read \in Nat
  BY TokensConstants
<1>5. \A t \in Threads : client.threads[t].read \in Nat
  BY TokensConstants
<1> QED
  BY <1>1, <1>2, <1>3, <1>4, <1>5

\* The shapes of the state, one for each variable.
TokensClient ==
  client \in [command : {"tokens"}, how : {"store", "app"}, held : 0 .. Grants,
              lock : Threads \cup {Nobody},
              threads : [Threads -> [at : Sessions!Steps, read : Sessions!Tokens, used : 0 .. Grants]],
              cli : [at : {"idle", "exchange", "write"}, read : Sessions!Tokens, runs : 0 .. CliRuns]]
TokensServer ==
  server \in [issued : Sessions!Tokens, age : [Sessions!Tokens -> {"fresh", "expiring", "expired"}],
              revoked : BOOLEAN, kept : [grant : Sessions!Tokens, dated : 0 .. Grants],
              lost : SUBSET {"answer", "write"}]

\* What becomes of the server: nothing a renewal is about, a grant, a refusal, or a loss.
GrantsKept ==
  /\ server'.issued = server.issued /\ server'.revoked = server.revoked
  /\ server'.kept = server.kept /\ server'.lost = server.lost
GrantsNext(n) ==
  /\ n = server.issued /\ ~server.revoked /\ server'.issued = server.issued + 1
  /\ server'.revoked = server.revoked /\ server'.kept = server.kept /\ server'.lost = server.lost
Denies(n) ==
  /\ n # server.issued \/ server.revoked
  /\ server'.revoked /\ server'.issued = server.issued /\ server'.kept = server.kept
  /\ server'.lost = server.lost
Loses(what) ==
  /\ server'.lost = server.lost \cup {what} /\ server'.issued = server.issued
  /\ server'.revoked = server.revoked /\ server'.kept = server.kept
Saves(n, dated) ==
  /\ server'.kept = [grant |-> n, dated |-> dated] /\ server'.issued = server.issued
  /\ server'.revoked = server.revoked /\ server'.lost = server.lost

\* What the server does is one of these, and keeps its shape.
LEMMA ServerSteps ==
  ASSUME Sessions!TypeOK
  PROVE  /\ UNCHANGED server => TokensServer' /\ GrantsKept
         /\ \A n \in Sessions!Tokens : Sessions!Grant(n) => TokensServer' /\ GrantsNext(n)
         /\ \A n \in Sessions!Tokens : Sessions!Deny(n) => TokensServer' /\ Denies(n)
         /\ \A what \in {"answer", "write"} : Sessions!Lose(what) => TokensServer' /\ Loses(what)
         /\ \A n \in Sessions!Tokens, d \in 0 .. Grants :
              server' = [server EXCEPT !.kept = [grant |-> n, dated |-> d]] =>
                TokensServer' /\ Saves(n, d)
         /\ \A n \in Sessions!Tokens : Sessions!Age(n) => TokensServer' /\ GrantsKept
<1> USE DEF Sessions!TypeOK, TokensServer
<1>1. UNCHANGED server => TokensServer' /\ GrantsKept
  BY DEF GrantsKept
<1>2. ASSUME NEW n \in Sessions!Tokens, Sessions!Grant(n) PROVE TokensServer' /\ GrantsNext(n)
  <2>1. server.issued + 1 \in Sessions!Tokens
    BY <1>2, TokensNumbers, TokensConstants DEF Sessions!Grant, Sessions!Tokens
  <2> QED
    BY <1>2, <2>1 DEF Sessions!Grant, GrantsNext
<1>3. ASSUME NEW n \in Sessions!Tokens, Sessions!Deny(n) PROVE TokensServer' /\ Denies(n)
  BY <1>3 DEF Sessions!Deny, Denies
<1>4. ASSUME NEW what \in {"answer", "write"}, Sessions!Lose(what) PROVE TokensServer' /\ Loses(what)
  BY <1>4 DEF Sessions!Lose, Loses
<1>5. ASSUME NEW n \in Sessions!Tokens, NEW d \in 0 .. Grants,
             server' = [server EXCEPT !.kept = [grant |-> n, dated |-> d]]
      PROVE  TokensServer' /\ Saves(n, d)
  BY <1>5 DEF Saves
<1>6. ASSUME NEW n \in Sessions!Tokens, Sessions!Age(n) PROVE TokensServer' /\ GrantsKept
  <2> DEFINE older == IF server.age[n] = "fresh" THEN "expiring" ELSE "expired"
  <2>1. server' = [server EXCEPT !.age[n] = older]
    BY <1>6 DEF Sessions!Age
  <2>2. older \in {"fresh", "expiring", "expired"}
    OBVIOUS
  <2> HIDE DEF older
  <2>3. [server.age EXCEPT ![n] = older] \in [Sessions!Tokens -> {"fresh", "expiring", "expired"}]
    BY <2>2
  <2> QED
    BY <2>1, <2>3 DEF GrantsKept
<1> QED
  BY <1>1, <1>2, <1>3, <1>4, <1>5, <1>6

\* The state of a thread.
ThreadShape == [at : Sessions!Steps, read : Sessions!Tokens, used : 0 .. Grants]
\* Thread t goes on; the rest of the client is told apart.
ThreadMoves(t, at, read) ==
  /\ client'.how = client.how
  /\ \A u \in Threads :
       /\ Sessions!At(u)' = IF u = t THEN at ELSE Sessions!At(u)
       /\ Sessions!Read(u)' = IF u = t THEN read ELSE Sessions!Read(u)

\* Thread t goes on as "thread", with what the holder then has.
ThreadBecomes(t, thread, held, lock) ==
  client' = [client EXCEPT !.held = held, !.lock = lock, !.threads[t] = thread]

\* What a thread that goes on leaves alone.
LEMMA ThreadFields ==
  ASSUME Sessions!TypeOK, NEW t \in Threads, NEW thread \in ThreadShape,
         NEW held \in 0 .. Grants, NEW lock \in Threads \cup {Nobody},
         ThreadBecomes(t, thread, held, lock)
  PROVE  /\ TokensClient' /\ client'.how = client.how
         /\ client'.held = held /\ client'.lock = lock /\ client'.cli = client.cli
         /\ \A u \in Threads : client'.threads[u] = IF u = t THEN thread ELSE client.threads[u]
BY DEF Sessions!TypeOK, TokensClient, ThreadShape, ThreadBecomes

\* A thread goes on with the context it has.
LEMMA ThreadGoes ==
  ASSUME Sessions!TypeOK, NEW t \in Threads, NEW at \in Sessions!Steps, NEW used \in 0 .. Grants,
         NEW held \in 0 .. Grants, NEW lock \in Threads \cup {Nobody},
         ThreadBecomes(t, Sessions!Thread(t, at, used), held, lock)
  PROVE  /\ TokensClient' /\ ThreadMoves(t, at, Sessions!Read(t))
         /\ client'.held = held /\ client'.lock = lock /\ client'.cli = client.cli
<1>1. PICK thread : thread = Sessions!Thread(t, at, used)
  OBVIOUS
<1>2. thread \in ThreadShape /\ thread.at = at /\ thread.read = Sessions!Read(t)
  BY <1>1 DEF Sessions!Thread, Sessions!Read, ThreadShape, Sessions!TypeOK
<1>3. ThreadBecomes(t, thread, held, lock)
  BY <1>1 DEF ThreadBecomes
<1>4. /\ TokensClient' /\ client'.how = client.how
      /\ client'.held = held /\ client'.lock = lock /\ client'.cli = client.cli
      /\ \A u \in Threads : client'.threads[u] = IF u = t THEN thread ELSE client.threads[u]
  BY <1>2, <1>3, ThreadFields
<1> QED
  BY <1>2, <1>4 DEF ThreadMoves, Sessions!At, Sessions!Read

\* The holder and the threads have grants of the model.
LEMMA TokensTyped ==
  ASSUME Sessions!TypeOK
  PROVE  /\ client.held \in 0 .. Grants /\ client.lock \in Threads \cup {Nobody}
         /\ \A t \in Threads : Sessions!Read(t) \in Sessions!Tokens /\ Sessions!Used(t) \in 0 .. Grants
<1>1. client.held \in 0 .. Grants
  BY DEF Sessions!TypeOK
<1>2. client.lock \in Threads \cup {Nobody}
  BY DEF Sessions!TypeOK
<1>3. ASSUME NEW t \in Threads
      PROVE  Sessions!Read(t) \in Sessions!Tokens /\ Sessions!Used(t) \in 0 .. Grants
  BY DEF Sessions!TypeOK, Sessions!Read, Sessions!Used
<1> QED
  BY <1>1, <1>2, <1>3

\* The ways in which the actions write it.
LEMMA ThreadWritings ==
  ASSUME Sessions!TypeOK, NEW t \in Threads, NEW thread, NEW held, NEW lock
  PROVE
    /\ [client EXCEPT !.threads[t] = thread] =
         [client EXCEPT !.held = client.held, !.lock = client.lock, !.threads[t] = thread]
    /\ [client EXCEPT !.lock = lock, !.threads[t] = thread] =
         [client EXCEPT !.held = client.held, !.lock = lock, !.threads[t] = thread]
    /\ [client EXCEPT !.held = held, !.threads[t] = thread] =
         [client EXCEPT !.held = held, !.lock = client.lock, !.threads[t] = thread]
<1> DEFINE f == [client.threads EXCEPT ![t] = thread]
<1>1. [client EXCEPT !.threads = f]
        = [client EXCEPT !.held = client.held, !.lock = client.lock, !.threads = f]
  BY DEF Sessions!TypeOK
<1>2. [client EXCEPT !.lock = lock, !.threads = f] =
         [client EXCEPT !.held = client.held, !.lock = lock, !.threads = f]
  BY DEF Sessions!TypeOK
<1>3. [client EXCEPT !.held = held, !.threads = f] =
         [client EXCEPT !.held = held, !.lock = client.lock, !.threads = f]
  BY DEF Sessions!TypeOK
<1> QED
  BY <1>1, <1>2, <1>3

\* The lock and who renews.
Renewing == {"exchange", "granted", "failed"}
LocksHeld == client.how = "app" => \A u \in Threads : Sessions!At(u) \in Renewing => client.lock = u

\* The lock stays with who renews, when it is taken or left by the thread that moves.
LEMMA LocksMove ==
  ASSUME Sessions!TypeOK, TokensInv, NEW t \in Threads, NEW at, NEW read, ThreadMoves(t, at, read),
         client'.lock = client.lock \/ client.lock \in {Nobody, t},
         at \in Renewing => client'.lock = t
  PROVE  LocksHeld'
BY TokensConstants DEF TokensInv, AppInv, LocksHeld, Renewing, ThreadMoves

\* No renewal begins or ends: what is known of the grants stays.
LEMMA GrantsRest ==
  ASSUME Sessions!TypeOK, TokensInv, NEW t \in Threads, NEW at, NEW read \in Nat,
         ThreadMoves(t, at, read), GrantsKept, LocksHeld', client'.cli = client.cli,
         \/ at \notin {"granted", "write"} /\ ~Holding(t)
         \/ /\ client.how = "store" /\ Sessions!At(t) = "granted"
            /\ at = "write" /\ read = Sessions!Read(t),
         \/ read = Sessions!Read(t)
         \/ client.how = "store" /\ read = server.kept.grant
         \/ client.how = "app" /\ read = 1,
         client'.held = client.held \/ client.how = "store"
  PROVE  TokensInv'
<1>1. \A u \in Threads : Holding(u)' <=> Holding(u)
  BY DEF ThreadMoves, Holding
<1>2. client.how = "app" =>
        \A u \in Threads : /\ Sessions!At(u)' = "granted" <=> Sessions!At(u) = "granted"
                           /\ Sessions!At(u)' = "write" <=> Sessions!At(u) = "write"
  BY DEF ThreadMoves, Holding
<1>3. \A u \in Threads : u # t => Sessions!Read(u)' = Sessions!Read(u)
  BY DEF ThreadMoves
<1>4. Sessions!Read(t)' = read
  BY DEF ThreadMoves
<1>5. ~Holding(t) \/ read = Sessions!Read(t)
  BY DEF Holding
<1>6. GrantsInv'
  <2>1. read <= server.issued
    BY TokensNumbers DEF TokensInv, GrantsInv, Sessions!Read
  <2>2. ASSUME NEW u \in Threads
        PROVE  /\ Sessions!Read(u)' <= server'.issued
               /\ Holding(u)' => Sessions!Read(u)' < server'.issued
    BY <1>1, <1>3, <1>4, <1>5, <2>1 DEF TokensInv, GrantsInv, GrantsKept
  <2> QED
    BY <2>2 DEF TokensInv, GrantsInv, GrantsKept
<1>7. client.how = "app" => AppInv'
  BY <1>2 DEF TokensInv, AppInv, GrantsKept, LocksHeld, Renewing, ThreadMoves
<1>8. client.how = "store" => StoreInv'
  <2>1. Sessions!Quiet' <=> Sessions!Quiet
    BY <1>1 DEF Sessions!Quiet, Holding
  <2>2. ASSUME client.how = "store", server.lost = {}, NEW u \in Threads
        PROVE  /\ Sessions!Read(u)' <= server'.kept.grant
               /\ Holding(u)' => Sessions!Read(u)' = server'.kept.grant
    BY <1>1, <1>3, <1>4, <2>2, TokensNumbers DEF TokensInv, StoreInv, GrantsKept
  <2> QED
    BY <1>1, <2>1, <2>2 DEF TokensInv, StoreInv, GrantsKept
<1> QED
  BY <1>6, <1>7, <1>8 DEF TokensInv, ThreadMoves

\* The steps a thread goes to.
LEMMA StepsAre ==
  \A at \in {"token", "send", "refused", "exchange", "granted", "failed", "write", "resend", "done"} :
    at \in Sessions!Steps
BY DEF Sessions!Steps

\* What To and ToSend do.
LEMMA ToGoes ==
  ASSUME Sessions!TypeOK, NEW t \in Threads, NEW at \in Sessions!Steps, NEW used \in 0 .. Grants,
         Sessions!To(t, at) \/ Sessions!ToSend(t, at, used)
  PROVE  /\ TokensClient' /\ ThreadMoves(t, at, Sessions!Read(t))
         /\ client'.held = client.held /\ client'.lock = client.lock /\ client'.cli = client.cli
<1>1. /\ client.held \in 0 .. Grants /\ client.lock \in Threads \cup {Nobody}
      /\ Sessions!Used(t) \in 0 .. Grants
  BY TokensTyped
<1>2. CASE Sessions!To(t, at)
  <2>1. ThreadBecomes(t, Sessions!Thread(t, at, Sessions!Used(t)), client.held, client.lock)
    BY <1>2, ThreadWritings DEF ThreadBecomes, Sessions!To
  <2> QED
    BY <1>1, <2>1, ThreadGoes
<1>3. CASE Sessions!ToSend(t, at, used)
  <2>1. ThreadBecomes(t, Sessions!Thread(t, at, used), client.held, client.lock)
    BY <1>3, ThreadWritings DEF ThreadBecomes, Sessions!ToSend
  <2> QED
    BY <1>1, <2>1, ThreadGoes
<1> QED
  BY <1>2, <1>3

\* What ToExchange does.
LEMMA ToExchangeGoes ==
  ASSUME Sessions!TypeOK, NEW t \in Threads, Sessions!ToExchange(t)
  PROVE  /\ TokensClient' /\ ThreadMoves(t, "exchange", Sessions!Read(t))
         /\ client'.held = client.held /\ client'.lock = t /\ client'.cli = client.cli
<1>1. client.held \in 0 .. Grants /\ t \in Threads \cup {Nobody} /\ Sessions!Used(t) \in 0 .. Grants
  BY TokensTyped
<1>2. ThreadBecomes(t, Sessions!Thread(t, "exchange", Sessions!Used(t)), client.held, t)
  BY ThreadWritings DEF ThreadBecomes, Sessions!ToExchange
<1>3. "exchange" \in Sessions!Steps
  BY StepsAre
<1> QED
  BY <1>1, <1>2, <1>3, ThreadGoes

\* What every step of the program comes to.
TokensGood == TokensClient' /\ TokensServer' /\ TokensInv'

\* A thread goes on with what it read, to a place where it holds no grant.
LEMMA GoesWithoutGrant ==
  ASSUME Sessions!TypeOK, TokensInv,
         NEW t \in Threads, NEW at \in Sessions!Steps, NEW used \in 0 .. Grants,
         Sessions!To(t, at) \/ Sessions!ToSend(t, at, used),
         at \notin {"granted", "write"}, ~Holding(t), UNCHANGED server,
         at \in Renewing => client.how = "store"
  PROVE  TokensGood
<1>1. /\ TokensClient' /\ ThreadMoves(t, at, Sessions!Read(t))
      /\ client'.held = client.held /\ client'.lock = client.lock /\ client'.cli = client.cli
  BY ToGoes
<1>2. TokensServer' /\ GrantsKept
  BY ServerSteps
<1>3. Sessions!Read(t) \in Nat
  BY TokensNumbers DEF Sessions!Read
<1>4. LocksHeld'
  BY <1>1, TokensConstants DEF TokensInv, AppInv, LocksHeld, Renewing, ThreadMoves
<1>5. TokensInv'
  BY <1>1, <1>2, <1>3, <1>4, GrantsRest
<1> QED
  BY <1>1, <1>2, <1>5 DEF TokensGood

\* A thread takes the lock to renew (_app_token, _app_refreshed).
LEMMA TakesLock ==
  ASSUME Sessions!TypeOK, TokensInv, NEW t \in Threads, Sessions!ToExchange(t),
         client.lock = Nobody, ~Holding(t), UNCHANGED server
  PROVE  TokensGood
<1>1. /\ TokensClient' /\ ThreadMoves(t, "exchange", Sessions!Read(t))
      /\ client'.held = client.held /\ client'.lock = t /\ client'.cli = client.cli
  BY ToExchangeGoes
<1>2. TokensServer' /\ GrantsKept
  BY ServerSteps
<1>3. Sessions!Read(t) \in Nat
  BY TokensNumbers DEF Sessions!Read
<1>4. LocksHeld'
  BY <1>1, TokensConstants DEF TokensInv, AppInv, LocksHeld, Renewing, ThreadMoves
<1>5. TokensInv'
  BY <1>1, <1>2, <1>3, <1>4, GrantsRest
<1> QED
  BY <1>1, <1>2, <1>5 DEF TokensGood

\* A query reads the store again, or the holder (resolve_context).
LEMMA ResolveStep ==
  ASSUME Sessions!TypeOK, TokensInv, NEW t \in Threads, Sessions!Resolve(t)
  PROVE  TokensGood
<1> DEFINE now == IF client.how = "store" THEN server.kept.grant ELSE 1
<1>1. now \in Sessions!Tokens /\ now \in Nat
  BY TokensConstants DEF Sessions!TypeOK, Sessions!Tokens
<1>2. PICK thread : thread = [at |-> "token", read |-> now, used |-> 0]
  OBVIOUS
<1>3. ThreadBecomes(t, thread, client.held, client.lock)
  BY <1>2, ThreadWritings DEF ThreadBecomes, Sessions!Resolve
<1> HIDE DEF now
<1>4. thread \in ThreadShape /\ thread.at = "token" /\ thread.read = now
  BY <1>1, <1>2, TokensConstants, StepsAre DEF ThreadShape
<1>5. /\ TokensClient' /\ client'.how = client.how
      /\ client'.held = client.held /\ client'.lock = client.lock /\ client'.cli = client.cli
      /\ \A u \in Threads : client'.threads[u] = IF u = t THEN thread ELSE client.threads[u]
  BY <1>3, <1>4, TokensTyped, ThreadFields
<1>6. ThreadMoves(t, "token", now)
  BY <1>4, <1>5 DEF ThreadMoves, Sessions!At, Sessions!Read
<1>7. TokensServer' /\ GrantsKept
  BY ServerSteps DEF Sessions!Resolve
<1>8. ~Holding(t)
  BY DEF Sessions!Resolve, Holding
<1>9. LocksHeld'
  BY <1>5, <1>6, LocksMove DEF Renewing
<1>10. (client.how = "store" /\ now = server.kept.grant) \/ (client.how = "app" /\ now = 1)
  BY DEF now, Sessions!TypeOK
<1>11. TokensInv'
  BY <1>1, <1>5, <1>6, <1>7, <1>8, <1>9, <1>10, GrantsRest
<1> QED
  BY <1>5, <1>7, <1>11 DEF TokensGood

\* The sends of a thread, and the answers to them, renew nothing.
LEMMA QuietSteps ==
  ASSUME Sessions!TypeOK, TokensInv, NEW t \in Threads,
         \/ Sessions!Again(t) \/ Sessions!StoredToken(t) \/ Sessions!AppToken(t)
         \/ Sessions!Answered(t) \/ Sessions!Refused(t) \/ Sessions!StoredRefresh(t)
         \/ Sessions!AppRefresh(t) \/ Sessions!StoredFailed(t)
  PROVE  TokensGood
<1>1. 0 \in 0 .. Grants /\ client.held \in 0 .. Grants /\ Sessions!Used(t) \in 0 .. Grants
      /\ (IF client.held # 0 THEN client.held ELSE Sessions!Read(t)) \in 0 .. Grants
  BY TokensTyped, TokensConstants DEF Sessions!Tokens
<1> USE StepsAre
<1>2. CASE Sessions!Again(t)
  BY <1>1, <1>2, GoesWithoutGrant DEF Sessions!Again, Holding, Renewing
<1>3. CASE Sessions!StoredToken(t)
  BY <1>1, <1>3, GoesWithoutGrant DEF Sessions!StoredToken, Holding, Renewing
<1>4. CASE Sessions!AppToken(t)
  <2>1. CASE Sessions!ToExchange(t)
    BY <1>4, <2>1, TakesLock DEF Sessions!AppToken, Sessions!Takes, Holding
  <2>2. CASE Sessions!ToSend(t, "send", client.held)
    BY <1>1, <1>4, <2>2, GoesWithoutGrant DEF Sessions!AppToken, Holding, Renewing
  <2> QED
    BY <1>4, <2>1, <2>2 DEF Sessions!AppToken
<1>5. CASE Sessions!Answered(t)
  BY <1>1, <1>5, GoesWithoutGrant DEF Sessions!Answered, Holding, Renewing
<1>6. CASE Sessions!Refused(t)
  BY <1>1, <1>6, GoesWithoutGrant DEF Sessions!Refused, Holding, Renewing
<1>7. CASE Sessions!StoredRefresh(t)
  <2>1. CASE Sessions!To(t, "exchange")
    BY <1>1, <1>7, <2>1, GoesWithoutGrant DEF Sessions!StoredRefresh, Holding, Renewing
  <2>2. CASE Sessions!ToSend(t, "resend", client.held)
    BY <1>1, <1>7, <2>2, GoesWithoutGrant DEF Sessions!StoredRefresh, Holding, Renewing
  <2> QED
    BY <1>7, <2>1, <2>2 DEF Sessions!StoredRefresh
<1>8. CASE Sessions!AppRefresh(t)
  <2>1. CASE Sessions!ToExchange(t)
    BY <1>8, <2>1, TakesLock DEF Sessions!AppRefresh, Sessions!Takes, Holding
  <2>2. CASE Sessions!ToSend(t, "resend", client.held)
    BY <1>1, <1>8, <2>2, GoesWithoutGrant DEF Sessions!AppRefresh, Holding, Renewing
  <2> QED
    BY <1>8, <2>1, <2>2 DEF Sessions!AppRefresh
<1>9. CASE Sessions!StoredFailed(t)
  BY <1>1, <1>9, GoesWithoutGrant DEF Sessions!StoredFailed, Holding, Renewing
<1> QED
  BY <1>2, <1>3, <1>4, <1>5, <1>6, <1>7, <1>8, <1>9

\* A failed renewal of an app leaves the lock (_renew).
LEMMA AppFailedStep ==
  ASSUME Sessions!TypeOK, TokensInv, NEW t \in Threads, Sessions!AppFailed(t)
  PROVE  TokensGood
<1>1. PICK at \in {"send", "done"}, used \in 0 .. Grants :
        ThreadBecomes(t, Sessions!Thread(t, at, used), client.held, Nobody)
  <2>1. CASE Sessions!Used(t) = 0
    <3>1. client' = [client EXCEPT !.lock = Nobody,
                                   !.threads[t] = Sessions!Thread(t, "send", client.held)]
      BY <2>1 DEF Sessions!AppFailed
    <3>2. ThreadBecomes(t, Sessions!Thread(t, "send", client.held), client.held, Nobody)
      BY <3>1, ThreadWritings DEF ThreadBecomes
    <3> QED
      BY <3>2, TokensTyped
  <2>2. CASE Sessions!Used(t) # 0
    <3>1. client' = [client EXCEPT !.lock = Nobody,
                                   !.threads[t] = Sessions!Thread(t, "done", Sessions!Used(t))]
      BY <2>2 DEF Sessions!AppFailed
    <3>2. ThreadBecomes(t, Sessions!Thread(t, "done", Sessions!Used(t)), client.held, Nobody)
      BY <3>1, ThreadWritings DEF ThreadBecomes
    <3> QED
      BY <3>2, TokensTyped
  <2> QED
    BY <2>1, <2>2
<1>2. /\ TokensClient' /\ ThreadMoves(t, at, Sessions!Read(t))
      /\ client'.held = client.held /\ client'.lock = Nobody /\ client'.cli = client.cli
  BY <1>1, TokensTyped, StepsAre, ThreadGoes
<1>3. TokensServer' /\ GrantsKept
  BY ServerSteps DEF Sessions!AppFailed
<1>4. ~Holding(t) /\ at \notin Renewing /\ at \notin {"granted", "write"}
  BY <1>1 DEF Sessions!AppFailed, Holding, Renewing
<1>5. client.lock = t
  BY DEF Sessions!AppFailed, TokensInv, AppInv
<1>6. LocksHeld'
  BY <1>2, <1>4, <1>5, LocksMove
<1>7. Sessions!Read(t) \in Nat
  BY TokensNumbers DEF Sessions!Read
<1>8. TokensInv'
  BY <1>2, <1>3, <1>4, <1>6, <1>7, GrantsRest
<1> QED
  BY <1>2, <1>3, <1>8 DEF TokensGood

\* A grant of a login is published before it is written (refreshed_token).
LEMMA StoredRenewedStep ==
  ASSUME Sessions!TypeOK, TokensInv, NEW t \in Threads, Sessions!StoredRenewed(t)
  PROVE  TokensGood
<1>1. Sessions!Read(t) \in Nat /\ Sessions!Read(t) + 1 \in 0 .. Grants
  BY TokensNumbers, TokensConstants
     DEF Sessions!Read, Sessions!StoredRenewed, TokensInv, GrantsInv, Holding
<1>2. ThreadBecomes(t, Sessions!Thread(t, "write", Sessions!Read(t) + 1),
                    Sessions!Read(t) + 1, client.lock)
  BY ThreadWritings DEF ThreadBecomes, Sessions!StoredRenewed
<1>3. /\ TokensClient' /\ ThreadMoves(t, "write", Sessions!Read(t))
      /\ client'.lock = client.lock /\ client'.cli = client.cli
  BY <1>1, <1>2, TokensTyped, StepsAre, ThreadGoes
<1>4. TokensServer' /\ GrantsKept
  BY ServerSteps DEF Sessions!StoredRenewed
<1>5. client.how = "store" /\ Sessions!At(t) = "granted"
  BY DEF Sessions!StoredRenewed
<1>6. LocksHeld'
  BY <1>3, <1>5, LocksMove DEF Renewing
<1>7. TokensInv'
  BY <1>1, <1>3, <1>4, <1>5, <1>6, GrantsRest
<1> QED
  BY <1>3, <1>4, <1>7 DEF TokensGood

\* An exchange spends the last grant, or the session is revoked (_exchange).
LEMMA ExchangeStep ==
  ASSUME Sessions!TypeOK, TokensInv, NEW t \in Threads, Sessions!Exchange(t)
  PROVE  TokensGood
<1>1. Sessions!At(t) = "exchange" /\ ~Holding(t)
  BY DEF Sessions!Exchange, Holding
<1>2. Sessions!Read(t) \in Nat /\ client.held \in Nat
  BY TokensNumbers DEF Sessions!Read
<1>3. client.how = "app" => \A u \in Threads : Sessions!At(u) \in Renewing => u = t
  BY <1>1 DEF TokensInv, AppInv, Renewing
<1>5. CASE Sessions!Grant(Sessions!Spends(t)) /\ Sessions!To(t, "granted")
  <2>1. /\ TokensClient' /\ ThreadMoves(t, "granted", Sessions!Read(t))
        /\ client'.held = client.held /\ client'.lock = client.lock /\ client'.cli = client.cli
    BY <1>5, ToGoes, StepsAre, TokensConstants
  <2>2. TokensServer' /\ GrantsNext(Sessions!Spends(t))
    <3>1. Sessions!Spends(t) \in Sessions!Tokens
      BY <1>5 DEF Sessions!Grant, Sessions!TypeOK
    <3> QED
      BY <1>5, <3>1, ServerSteps
  <2> USE DEF GrantsNext
  <2>3. \A u \in Threads : /\ Holding(u)' <=> Holding(u) \/ u = t
                           /\ Sessions!Read(u)' = Sessions!Read(u)
    BY <2>1 DEF ThreadMoves, Holding
  <2>4. GrantsInv'
    <3>1. ASSUME NEW u \in Threads
          PROVE  /\ Sessions!Read(u)' <= server'.issued
                 /\ Holding(u)' => Sessions!Read(u)' < server'.issued
      BY <2>2, <2>3, TokensNumbers DEF TokensInv, GrantsInv, Sessions!Read
    <3>2. /\ server'.kept.grant <= server'.issued
          /\ client'.cli.at = "write" => client'.cli.read < server'.issued
          /\ client'.cli.read <= server'.issued
      BY <2>1, <2>2, TokensNumbers DEF TokensInv, GrantsInv
    <3> QED
      BY <3>1, <3>2 DEF GrantsInv
  <2>5. client.how = "app" => AppInv'
    <3> SUFFICES ASSUME client.how = "app" PROVE AppInv'
      OBVIOUS
    <3>1. server.issued = client.held
      BY <2>2 DEF Sessions!Spends
    <3>2. \A u \in Threads : /\ Sessions!At(u)' # "write"
                             /\ Sessions!At(u)' \in Renewing => client'.lock = u
      BY <1>1, <1>3, <2>1 DEF ThreadMoves, TokensInv, AppInv, Renewing
    <3>3. Sessions!At(t)' = "granted" /\ server'.issued = client'.held + 1
      BY <2>1, <2>2, <3>1 DEF ThreadMoves
    <3> QED
      BY <2>1, <2>2, <3>2, <3>3 DEF AppInv, Renewing, TokensInv
  <2>6. client.how = "store" => StoreInv'
    <3> SUFFICES ASSUME client.how = "store", server.lost = {} PROVE StoreInv'
      BY <2>2 DEF StoreInv
    <3>1. server.issued = Sessions!Read(t) /\ Sessions!Read(t) <= server.kept.grant
      BY <2>2 DEF Sessions!Spends, TokensInv, StoreInv
    <3>2. client.cli.at # "write" /\ \A u \in Threads : ~Holding(u)
      BY <3>1, TokensNumbers, <1>2 DEF TokensInv, StoreInv, GrantsInv
    <3>3. server.issued = server.kept.grant /\ Sessions!Read(t) = server.kept.grant
      BY <3>1, <3>2 DEF TokensInv, StoreInv, Sessions!Quiet, Holding
    <3>4. ~Sessions!Quiet'
      BY <2>1 DEF ThreadMoves, Sessions!Quiet
    <3>5. \A u \in Threads : Holding(u)' => u = t
      BY <2>3, <3>2
    <3> QED
      BY <2>1, <2>2, <2>3, <3>2, <3>3, <3>4, <3>5 DEF TokensInv, StoreInv
  <2> QED
    BY <2>1, <2>2, <2>4, <2>5, <2>6 DEF TokensGood, TokensInv, ThreadMoves
<1>6. CASE Sessions!Deny(Sessions!Spends(t)) /\ Sessions!To(t, "failed")
  <2>1. /\ TokensClient' /\ ThreadMoves(t, "failed", Sessions!Read(t))
        /\ client'.held = client.held /\ client'.lock = client.lock /\ client'.cli = client.cli
    BY <1>6, ToGoes, StepsAre, TokensConstants
  <2>2. TokensServer' /\ Denies(Sessions!Spends(t))
    <3>1. Sessions!Spends(t) \in Sessions!Tokens \/ client.how = "app"
      BY TokensTyped DEF Sessions!Spends
    <3> QED
      BY <1>6, <3>1, ServerSteps DEF Sessions!Deny, TokensServer, Denies, Sessions!TypeOK
  <2>3. \A u \in Threads : /\ Holding(u)' <=> Holding(u)
                           /\ Sessions!Read(u)' = Sessions!Read(u)
    BY <1>1, <2>1 DEF ThreadMoves, Holding
  <2> USE DEF Denies
  <2>4. GrantsInv'
    BY <2>1, <2>2, <2>3 DEF TokensInv, GrantsInv
  <2>5. client.how = "app" => AppInv'
    <3> SUFFICES ASSUME client.how = "app" PROVE AppInv'
      OBVIOUS
    <3>1. \A u \in Threads : Sessions!At(u) # "granted"
      BY <1>1, <1>3 DEF Renewing
    <3>2. "answer" \in server.lost
      BY <2>2, <3>1 DEF Sessions!Spends, TokensInv, AppInv
    <3>3. \A u \in Threads : /\ Sessions!At(u)' # "write" /\ Sessions!At(u)' # "granted"
                             /\ Sessions!At(u)' \in Renewing => client'.lock = u
      BY <1>1, <1>3, <2>1, <3>1 DEF ThreadMoves, TokensInv, AppInv, Renewing
    <3> QED
      BY <2>1, <2>2, <3>2, <3>3 DEF AppInv, Renewing, TokensInv
  <2>6. client.how = "store" => StoreInv'
    <3>1. Sessions!Quiet' <=> Sessions!Quiet
      BY <2>1, <2>3 DEF Sessions!Quiet, Holding
    <3> QED
      BY <2>1, <2>2, <2>3, <3>1 DEF TokensInv, StoreInv
  <2> QED
    BY <2>1, <2>2, <2>4, <2>5, <2>6 DEF TokensGood, TokensInv, ThreadMoves
<1> QED
  BY <1>5, <1>6 DEF Sessions!Exchange

\* An answer or a write is lost: nothing is claimed of what is kept any more.
LEMMA ExchangeLostStep ==
  ASSUME Sessions!TypeOK, TokensInv, NEW t \in Threads, Sessions!ExchangeLost(t)
  PROVE  TokensGood
<1>1. /\ TokensClient' /\ ThreadMoves(t, "failed", Sessions!Read(t))
      /\ client'.held = client.held /\ client'.lock = client.lock /\ client'.cli = client.cli
  BY ToGoes, StepsAre, TokensConstants DEF Sessions!ExchangeLost
<1>2. Sessions!Read(t) \in Nat
  BY TokensNumbers DEF Sessions!Read
<1>3. LocksHeld'
  BY <1>1, TokensConstants DEF Sessions!ExchangeLost, TokensInv, AppInv, LocksHeld, Renewing, ThreadMoves
<1>4. CASE Sessions!At(t) = "exchange" /\ UNCHANGED server
  <2>1. TokensServer' /\ GrantsKept
    BY <1>4, ServerSteps
  <2>2. ~Holding(t)
    BY <1>4 DEF Holding
  <2> QED
    BY <1>1, <1>2, <1>3, <2>1, <2>2, GrantsRest DEF TokensGood
<1>5. CASE Sessions!At(t) = "granted" /\ Sessions!Lose("answer")
  <2>1. TokensServer' /\ Loses("answer")
    BY <1>5, ServerSteps
  <2>2. \A u \in Threads : /\ Holding(u)' => Holding(u)
                           /\ Sessions!Read(u)' = Sessions!Read(u)
                           /\ Sessions!At(u)' = "granted" => Sessions!At(u) = "granted"
                           /\ Sessions!At(u)' = "write" => Sessions!At(u) = "write"
    BY <1>1 DEF ThreadMoves, Holding
  <2>3. GrantsInv'
    BY <1>1, <2>1, <2>2 DEF TokensInv, GrantsInv, Loses
  <2>4. client.how = "app" => AppInv'
    BY <1>1, <1>3, <2>1, <2>2 DEF TokensInv, AppInv, Loses, LocksHeld, Renewing, ThreadMoves
  <2>5. StoreInv'
    BY <2>1 DEF StoreInv, Loses
  <2> QED
    BY <1>1, <2>1, <2>3, <2>4, <2>5 DEF TokensGood, TokensInv, ThreadMoves
<1> QED
  BY <1>4, <1>5 DEF Sessions!ExchangeLost

\* A write makes the grant the last that is kept (write_refreshed_token).
LEMMA WriteStep ==
  ASSUME Sessions!TypeOK, TokensInv, NEW t \in Threads, Sessions!Write(t)
  PROVE  TokensGood
<1>1. /\ TokensClient' /\ ThreadMoves(t, "resend", Sessions!Read(t))
      /\ client'.held = client.held /\ client'.lock = client.lock /\ client'.cli = client.cli
  BY ToGoes, StepsAre, TokensConstants DEF Sessions!Write
<1>2. client.how = "store" /\ Sessions!At(t) = "write" /\ Holding(t)
  BY DEF Sessions!Write, TokensInv, AppInv, Sessions!TypeOK, Holding
<1>3. Sessions!Read(t) \in Nat /\ Sessions!Read(t) < server.issued
  BY <1>2, TokensNumbers DEF Sessions!Read, TokensInv, GrantsInv
<1>4. \A u \in Threads : /\ Holding(u)' <=> Holding(u) /\ u # t
                         /\ Sessions!Read(u)' = Sessions!Read(u)
  BY <1>1 DEF ThreadMoves, Holding
<1>5. CASE server' = [server EXCEPT !.kept = Sessions!Written(Sessions!Read(t) + 1)]
  <2>1. TokensServer' /\ Saves(Sessions!Read(t) + 1, 0)
    <3>1. Sessions!Read(t) + 1 \in Sessions!Tokens /\ 0 \in 0 .. Grants
      BY <1>3, TokensNumbers, TokensConstants DEF Sessions!Tokens
    <3> QED
      BY <1>5, <3>1, ServerSteps DEF Sessions!Written
  <2>2. GrantsInv'
    BY <1>1, <1>3, <1>4, <2>1, TokensNumbers DEF TokensInv, GrantsInv, Saves
  <2>3. StoreInv'
    <3> SUFFICES ASSUME server.lost = {} PROVE StoreInv'
      BY <2>1 DEF StoreInv, Saves
    <3>1. /\ Sessions!Read(t) = server.kept.grant /\ server.issued = server.kept.grant + 1
          /\ client.cli.at # "write" /\ \A u \in Threads : Holding(u) => u = t
      BY <1>2 DEF TokensInv, StoreInv
    <3>2. \A u \in Threads : ~Holding(u)'
      BY <1>4, <3>1
    <3>3. \A u \in Threads : Sessions!Read(u)' <= server'.kept.grant
      BY <1>2, <1>4, <2>1, <3>1, TokensNumbers DEF TokensInv, StoreInv, Saves, Sessions!Read
    <3>4. client'.cli.read <= server'.kept.grant /\ client'.cli.at # "write"
      BY <1>1, <1>2, <2>1, <3>1, TokensNumbers DEF TokensInv, StoreInv, Saves
    <3> QED
      BY <2>1, <3>1, <3>2, <3>3, <3>4 DEF StoreInv, Saves
  <2> QED
    BY <1>1, <1>2, <2>1, <2>2, <2>3 DEF TokensGood, TokensInv, ThreadMoves
<1>6. CASE Sessions!Lose("write")
  <2>1. TokensServer' /\ Loses("write")
    BY <1>6, ServerSteps
  <2>2. GrantsInv'
    BY <1>1, <1>4, <2>1 DEF TokensInv, GrantsInv, Loses
  <2>3. StoreInv'
    BY <2>1 DEF StoreInv, Loses
  <2> QED
    BY <1>1, <1>2, <2>1, <2>2, <2>3 DEF TokensGood, TokensInv, ThreadMoves
<1> QED
  BY <1>5, <1>6 DEF Sessions!Write

\* A grant of an app is the holder's, and saved, before the lock is left (_renew).
LEMMA AppRenewedStep ==
  ASSUME Sessions!TypeOK, TokensInv, NEW t \in Threads, Sessions!AppRenewed(t)
  PROVE  TokensGood
<1> DEFINE n == client.held + 1
<1>1. /\ client.how = "app" /\ Sessions!At(t) = "granted"
      /\ client.lock = t /\ server.issued = n
  BY DEF Sessions!AppRenewed, TokensInv, AppInv
<1>2. n \in Nat /\ n \in 0 .. Grants /\ n \in Sessions!Tokens /\ client.held \in Nat
  BY <1>1, TokensNumbers, TokensConstants DEF Sessions!Tokens
<1>3. PICK at \in {"send", "resend", "done"}, used \in 0 .. Grants :
        /\ ThreadBecomes(t, Sessions!Thread(t, at, used), n, Nobody)
        /\ \/ server' = [server EXCEPT !.kept = [grant |-> n, dated |-> n]]
           \/ Sessions!Lose("write")
  <2>1. CASE /\ client' = [client EXCEPT !.held = n, !.lock = Nobody,
                             !.threads[t] = Sessions!Thread(t, Sessions!Sends(t), n)]
             /\ server' = [server EXCEPT !.kept = [grant |-> n, dated |-> n]]
    <3>1. ThreadBecomes(t, Sessions!Thread(t, Sessions!Sends(t), n), n, Nobody)
      BY <2>1 DEF ThreadBecomes
    <3> QED
      BY <1>2, <2>1, <3>1 DEF Sessions!Sends
  <2>2. CASE /\ client' = [client EXCEPT !.held = n, !.lock = Nobody,
                             !.threads[t] = Sessions!Thread(t, "done", Sessions!Used(t))]
             /\ Sessions!Lose("write")
    <3>1. ThreadBecomes(t, Sessions!Thread(t, "done", Sessions!Used(t)), n, Nobody)
      BY <2>2 DEF ThreadBecomes
    <3> QED
      BY <2>2, <3>1, TokensTyped
  <2> QED
    BY <2>1, <2>2 DEF Sessions!AppRenewed
<1> HIDE DEF n
<1>4. /\ TokensClient' /\ ThreadMoves(t, at, Sessions!Read(t))
      /\ client'.held = n /\ client'.lock = Nobody /\ client'.cli = client.cli
  BY <1>2, <1>3, StepsAre, ThreadGoes
<1>5. at \notin {"granted", "write", "exchange", "failed"}
  BY <1>3
<1>6. \A u \in Threads : /\ Sessions!At(u)' \notin {"granted", "write", "exchange", "failed"}
                         /\ Sessions!Read(u)' = Sessions!Read(u)
  BY <1>1, <1>4, <1>5 DEF ThreadMoves, TokensInv, AppInv
<1>7. CASE server' = [server EXCEPT !.kept = [grant |-> n, dated |-> n]]
  <2>1. TokensServer' /\ Saves(n, n)
    BY <1>2, <1>7, ServerSteps
  <2>2. GrantsInv'
    <3>1. server'.kept.grant <= server'.issued
      BY <1>1, <1>2, <2>1 DEF Saves
    <3> QED
      BY <1>4, <1>6, <2>1, <3>1 DEF TokensInv, GrantsInv, Saves, Holding
  <2>3. AppInv'
    BY <1>1, <1>4, <1>6, <2>1 DEF TokensInv, AppInv, Saves
  <2> QED
    BY <1>1, <1>4, <2>1, <2>2, <2>3 DEF TokensGood, TokensInv, ThreadMoves
<1>8. CASE Sessions!Lose("write")
  <2>1. TokensServer' /\ Loses("write")
    BY <1>8, ServerSteps
  <2>2. GrantsInv'
    BY <1>4, <1>6, <2>1 DEF TokensInv, GrantsInv, Loses, Holding
  <2>3. AppInv'
    BY <1>1, <1>4, <1>6, <2>1 DEF TokensInv, AppInv, Loses
  <2> QED
    BY <1>1, <1>4, <2>1, <2>2, <2>3 DEF TokensGood, TokensInv, ThreadMoves
<1> QED
  BY <1>3, <1>7, <1>8

\* The threads stay where they are.
ThreadsRest ==
  /\ client'.how = client.how /\ client'.held = client.held /\ client'.lock = client.lock
  /\ client'.threads = client.threads

\* Where the command of the CLI is.
CliSteps == {"idle", "exchange", "write"}

\* A step of the command leaves the threads alone.
LEMMA CliMoves ==
  ASSUME Sessions!TypeOK,
         NEW cli \in [at : CliSteps, read : Sessions!Tokens, runs : 0 .. CliRuns],
         client' = [client EXCEPT !.cli = cli]
  PROVE  TokensClient' /\ ThreadsRest /\ client'.cli = cli
BY DEF Sessions!TypeOK, TokensClient, ThreadsRest, CliSteps

\* The command has a grant of the model.
LEMMA CliTyped ==
  ASSUME Sessions!TypeOK
  PROVE  /\ client.cli \in [at : CliSteps, read : Sessions!Tokens, runs : 0 .. CliRuns]
         /\ client.cli.read \in Sessions!Tokens /\ client.cli.runs \in 0 .. CliRuns
<1>1. client.cli \in [at : CliSteps, read : Sessions!Tokens, runs : 0 .. CliRuns]
  BY DEF Sessions!TypeOK, CliSteps
<1> QED
  BY <1>1

\* Threads that rest are where they were.
LEMMA ThreadsAreTheSame ==
  ASSUME ThreadsRest
  PROVE  \A u \in Threads : /\ Sessions!At(u)' = Sessions!At(u)
                            /\ Sessions!Read(u)' = Sessions!Read(u)
                            /\ Holding(u)' <=> Holding(u)
BY DEF ThreadsRest, Sessions!At, Sessions!Read, Holding

\* The command goes on, and only tells of what it read.
LEMMA CliRests ==
  ASSUME Sessions!TypeOK, TokensInv, ThreadsRest, GrantsKept \/ \E n : Denies(n),
         client.how = "store", client.cli.at # "write", client'.cli.at # "write",
         client'.cli.read \in {client.cli.read, server.kept.grant}
  PROVE  TokensInv'
<1>1. GrantsInv'
  BY ThreadsAreTheSame, TokensNumbers DEF TokensInv, GrantsInv, GrantsKept, Denies
<1>2. Sessions!Quiet' <=> Sessions!Quiet
  BY ThreadsAreTheSame DEF Sessions!Quiet
<1>3. client'.cli.read <= server'.kept.grant \/ server.lost # {}
  BY TokensNumbers DEF TokensInv, StoreInv, GrantsKept, Denies
<1>4. StoreInv'
  BY <1>2, <1>3, ThreadsAreTheSame DEF TokensInv, StoreInv, GrantsKept, Denies
<1> QED
  BY <1>1, <1>4 DEF TokensInv, ThreadsRest

\* The command reads what is kept.
LEMMA CliReadsStep ==
  ASSUME Sessions!TypeOK, TokensInv, Sessions!CliReads
  PROVE  TokensGood
<1>1. PICK cli \in [at : CliSteps, read : Sessions!Tokens, runs : 0 .. CliRuns] :
        /\ cli.at = "exchange" /\ cli.read = server.kept.grant
        /\ client' = [client EXCEPT !.cli = cli]
  <2> DEFINE cli == [at |-> "exchange", read |-> server.kept.grant, runs |-> client.cli.runs + 1]
  <2>1. client.cli.runs + 1 \in 0 .. CliRuns
    BY CliTyped, TokensConstants DEF Sessions!CliReads
  <2>2. cli \in [at : CliSteps, read : Sessions!Tokens, runs : 0 .. CliRuns]
    BY <2>1 DEF CliSteps, Sessions!TypeOK
  <2>3. client' = [client EXCEPT !.cli = cli]
    BY DEF Sessions!CliReads
  <2> QED
    BY <2>2, <2>3
<1>2. TokensClient' /\ ThreadsRest /\ client'.cli = cli
  BY <1>1, CliMoves
<1>3. TokensServer' /\ GrantsKept
  BY ServerSteps DEF Sessions!CliReads
<1>4. TokensInv'
  BY <1>1, <1>2, <1>3, CliRests DEF Sessions!CliReads
<1> QED
  BY <1>2, <1>3, <1>4 DEF TokensGood

\* The command goes to a step, with what it has read.
LEMMA CliGoes ==
  ASSUME Sessions!TypeOK, NEW at \in CliSteps, client' = [client EXCEPT !.cli.at = at]
  PROVE  TokensClient' /\ ThreadsRest /\ client'.cli.at = at /\ client'.cli.read = client.cli.read
<1>1. PICK cli : cli = [at |-> at, read |-> client.cli.read, runs |-> client.cli.runs]
  OBVIOUS
<1>2. [client.cli EXCEPT !.at = at] = cli
  BY <1>1, CliTyped
<1>3. client' = [client EXCEPT !.cli = cli]
  BY <1>2
<1>4. cli \in [at : CliSteps, read : Sessions!Tokens, runs : 0 .. CliRuns]
  BY <1>1, CliTyped
<1>5. TokensClient' /\ ThreadsRest /\ client'.cli = cli
  BY <1>3, <1>4, CliMoves
<1> QED
  BY <1>1, <1>5

\* The command spends the last grant, or the session is revoked.
LEMMA CliExchangesStep ==
  ASSUME Sessions!TypeOK, TokensInv, Sessions!CliExchanges
  PROVE  TokensGood
<1>1. client.how = "store" /\ client.cli.at = "exchange"
  BY DEF Sessions!CliExchanges, TokensInv, AppInv, Sessions!TypeOK
<1>2. CASE Sessions!Grant(client.cli.read) /\ client' = [client EXCEPT !.cli.at = "write"]
  <2>1. TokensClient' /\ ThreadsRest /\ client'.cli.at = "write" /\ client'.cli.read = client.cli.read
    BY <1>2, CliGoes DEF CliSteps
  <2>2. TokensServer' /\ GrantsNext(client.cli.read)
    BY <1>2, CliTyped, ServerSteps
  <2> USE DEF GrantsNext
  <2>3. GrantsInv'
    BY <2>1, <2>2, ThreadsAreTheSame, TokensNumbers DEF TokensInv, GrantsInv, Sessions!Read
  <2>4. StoreInv'
    <3> SUFFICES ASSUME server.lost = {} PROVE StoreInv'
      BY <2>2 DEF StoreInv
    <3>1. server.issued = client.cli.read /\ client.cli.read <= server.kept.grant
      BY <1>1, <2>2 DEF TokensInv, StoreInv
    <3>2. \A u \in Threads : ~Holding(u)
      BY <1>1, <3>1, TokensNumbers DEF TokensInv, StoreInv
    <3>3. server.issued = server.kept.grant /\ client.cli.read = server.kept.grant
      BY <1>1, <3>1, <3>2 DEF TokensInv, StoreInv, Sessions!Quiet, Holding
    <3>4. ~Sessions!Quiet'
      BY <2>1 DEF Sessions!Quiet
    <3>5. \A u \in Threads : ~Holding(u)' /\ Sessions!Read(u)' <= server'.kept.grant
      BY <1>1, <2>1, <2>2, <3>2, ThreadsAreTheSame DEF TokensInv, StoreInv
    <3> QED
      BY <1>1, <2>1, <2>2, <3>3, <3>4, <3>5 DEF TokensInv, StoreInv
  <2> QED
    BY <1>1, <2>1, <2>2, <2>3, <2>4 DEF TokensGood, TokensInv, ThreadsRest
<1>3. CASE Sessions!Deny(client.cli.read) /\ client' = [client EXCEPT !.cli.at = "idle"]
  <2>1. TokensClient' /\ ThreadsRest /\ client'.cli.at = "idle" /\ client'.cli.read = client.cli.read
    BY <1>3, CliGoes DEF CliSteps
  <2>2. TokensServer' /\ Denies(client.cli.read)
    BY <1>3, CliTyped, ServerSteps
  <2> QED
    BY <1>1, <2>1, <2>2, CliRests DEF TokensGood
<1> QED
  BY <1>2, <1>3 DEF Sessions!CliExchanges

\* The command writes the grant it was given.
LEMMA CliWritesStep ==
  ASSUME Sessions!TypeOK, TokensInv, Sessions!CliWrites
  PROVE  TokensGood
<1> DEFINE n == client.cli.read + 1
<1>1. client.how = "store" /\ client.cli.at = "write"
  BY DEF Sessions!CliWrites, TokensInv, AppInv, Sessions!TypeOK
<1>2. n \in Sessions!Tokens /\ n \in 0 .. Grants /\ n <= server.issued
  BY <1>1, TokensNumbers, TokensConstants DEF TokensInv, GrantsInv, Sessions!Tokens
<1>3. TokensClient' /\ ThreadsRest /\ client'.cli.at = "idle" /\ client'.cli.read = client.cli.read
  BY CliGoes DEF CliSteps, Sessions!CliWrites
<1>4. CASE server' = [server EXCEPT !.kept = [grant |-> n, dated |-> n]]
  <2>1. TokensServer' /\ Saves(n, n)
    BY <1>2, <1>4, ServerSteps
  <2>2. GrantsInv'
    BY <1>2, <1>3, <2>1, ThreadsAreTheSame, TokensNumbers DEF TokensInv, GrantsInv, Saves
  <2>3. StoreInv'
    <3> SUFFICES ASSUME server.lost = {} PROVE StoreInv'
      BY <2>1 DEF StoreInv, Saves
    <3>1. /\ client.cli.read = server.kept.grant /\ server.issued = server.kept.grant + 1
          /\ \A u \in Threads : ~Holding(u)
      BY <1>1 DEF TokensInv, StoreInv
    <3>2. \A u \in Threads : ~Holding(u)' /\ Sessions!Read(u)' <= server'.kept.grant
      BY <1>1, <1>3, <2>1, <3>1, ThreadsAreTheSame, TokensNumbers
         DEF TokensInv, StoreInv, Saves, Sessions!Read
    <3>3. client'.cli.read <= server'.kept.grant /\ client'.cli.at # "write"
      BY <1>3, <2>1, <3>1, TokensNumbers DEF Saves
    <3> QED
      BY <2>1, <3>1, <3>2, <3>3 DEF StoreInv, Saves
  <2> QED
    BY <1>1, <1>3, <2>1, <2>2, <2>3 DEF TokensGood, TokensInv, ThreadsRest
<1>5. CASE Sessions!Lose("write")
  <2>1. TokensServer' /\ Loses("write")
    BY <1>5, ServerSteps
  <2>2. GrantsInv'
    BY <1>3, <2>1, ThreadsAreTheSame DEF TokensInv, GrantsInv, Loses
  <2>3. StoreInv'
    BY <2>1 DEF StoreInv, Loses
  <2> QED
    BY <1>1, <1>3, <2>1, <2>2, <2>3 DEF TokensGood, TokensInv, ThreadsRest
<1> QED
  BY <1>4, <1>5 DEF Sessions!CliWrites

\* Time changes the ages alone.
LEMMA AgeStep ==
  ASSUME Sessions!TypeOK, TokensInv, NEW n \in Sessions!Tokens, Sessions!Age(n)
  PROVE  TokensGood
<1>1. TokensServer' /\ GrantsKept
  BY ServerSteps
<1>2. client' = client
  BY DEF Sessions!Age
<1>3. TokensClient' /\ ThreadsRest
  BY <1>2 DEF Sessions!TypeOK, TokensClient, ThreadsRest
<1>4. Sessions!Quiet' <=> Sessions!Quiet
  BY <1>2 DEF Sessions!Quiet, Sessions!At
<1>5. TokensInv'
  BY <1>1, <1>2, <1>3, <1>4, ThreadsAreTheSame DEF TokensInv, GrantsInv, AppInv, StoreInv, GrantsKept
<1> QED
  BY <1>1, <1>3, <1>5 DEF TokensGood

\* A step of the threads or of the CLI keeps what is known of the grants (auth.py, config.py).
LEMMA TokensStep ==
  ASSUME Sessions!TypeOK, TokensInv, Sessions!Next
  PROVE  Sessions!TypeOK' /\ TokensInv'
<1>1. ASSUME NEW t \in Threads, Sessions!Step(t) PROVE TokensGood
  BY <1>1, ResolveStep, QuietSteps, ExchangeStep, ExchangeLostStep, StoredRenewedStep, WriteStep,
     AppRenewedStep, AppFailedStep DEF Sessions!Step
<1>2. TokensGood
  BY <1>1, AgeStep, CliReadsStep, CliExchangesStep, CliWritesStep DEF Sessions!Next
<1> QED
  BY <1>2 DEF TokensGood, Sessions!TypeOK, TokensClient, TokensServer

\* A process begins with the last grant kept.
LEMMA TokensInit ==
  ASSUME Sessions!Init
  PROVE  Sessions!TypeOK /\ TokensInv
<1>1. PICK how \in {"store", "app"} :
        /\ client = [command |-> "tokens", how |-> how, held |-> IF how = "app" THEN 1 ELSE 0,
                     lock |-> Nobody,
                     threads |-> [t \in Threads |-> [at |-> "idle", read |-> 1, used |-> 0]],
                     cli |-> [at |-> "idle", read |-> 1, runs |-> 0]]
        /\ server = [issued |-> 1, age |-> [n \in Sessions!Tokens |-> "fresh"], revoked |-> FALSE,
                     kept |-> [grant |-> 1, dated |-> 1], lost |-> {}]
  BY DEF Sessions!Init
<1>2. 1 \in Sessions!Tokens /\ 0 \in 0 .. Grants /\ 1 \in 0 .. Grants /\ 0 \in 0 .. CliRuns
  BY TokensConstants DEF Sessions!Tokens
<1>3. "idle" \in Sessions!Steps
  BY DEF Sessions!Steps
<1>4. Sessions!TypeOK
  <2>1. [t \in Threads |-> [at |-> "idle", read |-> 1, used |-> 0]] \in
          [Threads -> [at : Sessions!Steps, read : Sessions!Tokens, used : 0 .. Grants]]
    BY <1>2, <1>3
  <2>2. client \in [command : {"tokens"}, how : {"store", "app"}, held : 0 .. Grants,
                 lock : Threads \cup {Nobody},
                 threads : [Threads -> [at : Sessions!Steps, read : Sessions!Tokens,
                                        used : 0 .. Grants]],
                 cli : [at : {"idle", "exchange", "write"}, read : Sessions!Tokens, runs : 0 .. CliRuns]]
    BY <1>1, <1>2, <2>1
  <2>3. server \in [issued : Sessions!Tokens,
                    age : [Sessions!Tokens -> {"fresh", "expiring", "expired"}],
                 revoked : BOOLEAN, kept : [grant : Sessions!Tokens, dated : 0 .. Grants],
                 lost : SUBSET {"answer", "write"}]
    <3>1. [n \in Sessions!Tokens |-> "fresh"] \in [Sessions!Tokens -> {"fresh", "expiring", "expired"}]
      OBVIOUS
    <3>2. [grant |-> 1, dated |-> 1] \in [grant : Sessions!Tokens, dated : 0 .. Grants]
      BY <1>2
    <3> QED
      BY <1>1, <1>2, <3>1, <3>2
  <2> QED
    BY <2>2, <2>3 DEF Sessions!TypeOK
<1>5. \A t \in Threads : Sessions!At(t) = "idle" /\ Sessions!Read(t) = 1
  BY <1>1 DEF Sessions!At, Sessions!Read
<1>6. client.cli.at = "idle" /\ client.cli.read = 1
  BY <1>1
<1>7. server.issued = 1 /\ ~server.revoked /\ server.kept.grant = 1 /\ server.kept.dated = 1
  BY <1>1
<1>8. client.how = "app" => client.held = 1
  BY <1>1
<1>9. \A t \in Threads : ~Holding(t)
  BY <1>5 DEF Holding
<1>10. GrantsInv
  BY <1>5, <1>6, <1>7, <1>9 DEF GrantsInv
<1>11. client.how = "app" => AppInv
  BY <1>5, <1>6, <1>7, <1>8 DEF AppInv
<1>12. StoreInv
  BY <1>5, <1>6, <1>7, <1>9 DEF StoreInv
<1> QED
  BY <1>4, <1>10, <1>11, <1>12 DEF TokensInv

\* What is known of the grants is what is promised (TokenHolder, write_refreshed_token).
LEMMA TokensKept ==
  ASSUME Sessions!TypeOK, TokensInv
  PROVE  Sessions!AppNoReplay /\ Sessions!KeptIsCurrent
<1>1. Sessions!AppNoReplay
  BY DEF TokensInv, AppInv, Sessions!AppNoReplay
<1>2. CASE client.how = "app" /\ Sessions!Quiet /\ server.lost = {}
  BY <1>1, <1>2 DEF TokensInv, AppInv, Sessions!Quiet, Sessions!KeptIsCurrent
<1>3. CASE client.how = "store"
  BY <1>1, <1>3 DEF TokensInv, StoreInv, Sessions!KeptIsCurrent
<1> QED
  BY <1>1, <1>2, <1>3 DEF Sessions!KeptIsCurrent, Sessions!TypeOK

----------------------------------------------------------------------------
\* A turn is of a call, the caller's, or none.
LEMMA TurnsConstants == Caller \notin Calls /\ None \notin Calls /\ None # Caller
BY ConstantsAssumption DEF ClientsAssumption, Turns!TurnsAssumption

\* The shapes of the state.
CallShape ==
  [at : Turns!Stages, kn : Kns \cup {None}, kind : Turns!Kinds,
   turn : Calls \cup {Caller, None}, answered : BOOLEAN]
BlockShape ==
  client \in [command : {"turns"}, traced : BOOLEAN, owned : BOOLEAN, shared : BOOLEAN,
              scope : {"none", "open", "closing", "closed", "broken"},
              ending : {"none", "cancelled", "failed"}, registry : [Kns -> Calls \cup {Caller, None}],
              calls : [Calls -> CallShape]]
TurnsShape ==
  server \in [turns : [Calls \cup {Caller} -> {"none", "active", "cancelled", "failed"}],
              untold : SUBSET Calls, displaced : SUBSET Calls, unheard : SUBSET Calls]

\* The parts of the state have their shapes.
LEMMA TurnsTyped ==
  ASSUME Turns!TypeOK
  PROVE  /\ BlockShape /\ TurnsShape
         /\ client.registry \in [Kns -> Calls \cup {Caller, None}]
         /\ client.calls \in [Calls -> CallShape]
         /\ server.turns \in [Calls \cup {Caller} -> {"none", "active", "cancelled", "failed"}]
<1>1. BlockShape /\ TurnsShape
  BY DEF Turns!TypeOK, BlockShape, TurnsShape, CallShape
<1>2. client.registry \in [Kns -> Calls \cup {Caller, None}]
  BY <1>1 DEF BlockShape
<1>3. client.calls \in [Calls -> CallShape]
  BY <1>1 DEF BlockShape
<1>4. server.turns \in [Calls \cup {Caller} -> {"none", "active", "cancelled", "failed"}]
  BY <1>1 DEF TurnsShape
<1> QED
  BY <1>1, <1>2, <1>3, <1>4

\* What a call leaves alone of the block.
SameBlock ==
  /\ client'.traced = client.traced /\ client'.owned = client.owned
  /\ client'.shared = client.shared /\ client'.scope = client.scope
  /\ client'.ending = client.ending

\* Call c goes on, and nobody else.
OneCallGoes(c, call) == \A d \in Calls : client'.calls[d] = IF d = c THEN call ELSE client.calls[d]
\* What is written of a call that goes on.
CallAdvances(c, call, registry) == client' = [client EXCEPT !.calls[c] = call, !.registry = registry]

\* What a call that goes on leaves alone.
LEMMA CallFields ==
  ASSUME Turns!TypeOK, NEW c \in Calls, NEW call \in CallShape,
         NEW registry \in [Kns -> Calls \cup {Caller, None}], CallAdvances(c, call, registry)
  PROVE  BlockShape' /\ SameBlock /\ OneCallGoes(c, call) /\ client'.registry = registry
<1>2. client' = [command |-> "turns", traced |-> client.traced, owned |-> client.owned,
                 shared |-> client.shared, scope |-> client.scope, ending |-> client.ending,
                 registry |-> registry, calls |-> [client.calls EXCEPT ![c] = call]]
  BY DEF Turns!TypeOK, CallAdvances
<1>3. [client.calls EXCEPT ![c] = call] \in [Calls -> CallShape]
  BY TurnsTyped
<1>4. OneCallGoes(c, call)
  <2>1. client'.calls = [client.calls EXCEPT ![c] = call]
    BY <1>2
  <2>2. DOMAIN client.calls = Calls
    BY TurnsTyped
  <2> QED
    BY <2>1, <2>2 DEF OneCallGoes
<1>5. BlockShape'
  BY <1>2, <1>3, TurnsTyped DEF BlockShape
<1> QED
  BY <1>2, <1>4, <1>5 DEF SameBlock

\* A call of which the stage, the turn and the answer are given.
CallMoves(c, at, kn, turn, answered) ==
  /\ \A d \in Calls :
       /\ Turns!At(d)' = IF d = c THEN at ELSE Turns!At(d)
       /\ Turns!Kn(d)' = IF d = c THEN kn ELSE Turns!Kn(d)
       /\ Turns!Turn(d)' = IF d = c THEN turn ELSE Turns!Turn(d)
       /\ Turns!Answered(d)' = IF d = c THEN answered ELSE Turns!Answered(d)
  /\ SameBlock

\* A call goes on with its network and its kind.
LEMMA CallGoes ==
  ASSUME Turns!TypeOK, NEW c \in Calls, NEW at \in Turns!Stages,
         NEW turn \in Calls \cup {Caller, None}, NEW answered \in BOOLEAN,
         NEW registry \in [Kns -> Calls \cup {Caller, None}],
         CallAdvances(c, Turns!With(c, at, turn, answered), registry)
  PROVE  BlockShape' /\ CallMoves(c, at, Turns!Kn(c), turn, answered) /\ client'.registry = registry
<1>1. PICK call : call = Turns!With(c, at, turn, answered)
  OBVIOUS
<1>2. call \in CallShape /\ call.at = at /\ call.kn = Turns!Kn(c) /\ call.turn = turn
      /\ call.answered = answered
  BY <1>1, TurnsTyped DEF Turns!With, CallShape, Turns!Kn
<1>3. CallAdvances(c, call, registry)
  BY <1>1 DEF CallAdvances
<1>4. BlockShape' /\ SameBlock /\ OneCallGoes(c, call) /\ client'.registry = registry
  BY <1>2, <1>3, CallFields
<1> QED
  BY <1>2, <1>4 DEF CallMoves, OneCallGoes, Turns!At, Turns!Kn, Turns!Turn, Turns!Answered

\* The ways in which the actions write it.
LEMMA CallWritings ==
  ASSUME Turns!TypeOK, NEW c \in Calls, NEW call
  PROVE  /\ [client EXCEPT !.calls[c] = call] =
              [client EXCEPT !.calls[c] = call, !.registry = client.registry]
         /\ \A kn, turn : [client EXCEPT !.calls[c] = call, !.registry[kn] = turn] =
              [client EXCEPT !.calls[c] = call, !.registry = [client.registry EXCEPT ![kn] = turn]]
<1> DEFINE f == [client.calls EXCEPT ![c] = call]
<1>1. [client EXCEPT !.calls = f] = [client EXCEPT !.calls = f, !.registry = client.registry]
  BY DEF Turns!TypeOK
<1>2. ASSUME NEW kn, NEW turn
      PROVE  [client EXCEPT !.calls = f, !.registry[kn] = turn] =
               [client EXCEPT !.calls = f, !.registry = [client.registry EXCEPT ![kn] = turn]]
  BY DEF Turns!TypeOK
<1> QED
  BY <1>1, <1>2

\* What becomes of the turns.
TurnIs(c, state) ==
  \A d \in Calls \cup {Caller} :
    server'.turns[d] = IF d = c THEN state ELSE server.turns[d]
AddsLost(untold, displaced, unheard) ==
  /\ server'.untold = server.untold \cup untold
  /\ server'.displaced = server.displaced \cup displaced
  /\ server'.unheard = server.unheard \cup unheard
SameTurns == server'.turns = server.turns /\ AddsLost({}, {}, {})

\* A step without the platform changes no turn.
LEMMA TurnsStay ==
  ASSUME Turns!TypeOK, UNCHANGED server
  PROVE  TurnsShape' /\ SameTurns
BY TurnsTyped DEF TurnsShape, SameTurns, AddsLost

\* A finish closes one turn (finish).
LEMMA ClosesTurn ==
  ASSUME Turns!TypeOK, NEW c \in Calls, NEW ok \in BOOLEAN, server' = Turns!Close(c, ok)
  PROVE  TurnsShape' /\ TurnIs(c, IF ok THEN "cancelled" ELSE "failed") /\ AddsLost({}, {}, {})
<1> DEFINE end == IF ok THEN "cancelled" ELSE "failed"
<1>1. end \in {"cancelled", "failed"}
  OBVIOUS
<1>2. server' = [server EXCEPT !.turns[c] = end]
  BY DEF Turns!Close, Turns!Outcome
<1> HIDE DEF end
<1>3. /\ server'.turns = [server.turns EXCEPT ![c] = end]
      /\ server'.untold = server.untold /\ server'.displaced = server.displaced
      /\ server'.unheard = server.unheard
  BY <1>2 DEF Turns!TypeOK
<1>4. server'.turns \in [Calls \cup {Caller} -> {"none", "active", "cancelled", "failed"}]
  BY <1>1, <1>3, TurnsTyped
<1>5. TurnsShape'
  BY <1>1, <1>2, <1>4 DEF Turns!TypeOK, TurnsShape
<1>6. TurnIs(c, end)
  BY <1>3, TurnsTyped DEF TurnIs
<1> QED
  BY <1>3, <1>5, <1>6 DEF AddsLost, end, TurnIs

\* A finish that failed gives up one turn (finish).
LEMMA LosesTurn ==
  ASSUME Turns!TypeOK, NEW c \in Calls, server' = Turns!CloseUnheard(c)
  PROVE  TurnsShape' /\ server'.turns = server.turns /\ AddsLost({}, {}, {c})
BY DEF Turns!CloseUnheard, Turns!TypeOK, TurnsShape, AddsLost

\* What every step of the program comes to.
TurnsGood == BlockShape' /\ TurnsShape' /\ TurnsInv'

\* The parts of the invariant.
LEMMA TurnsParts ==
  ASSUME TurnsInv
  PROVE  StagesInv /\ RegistryInv /\ AloneInv /\ OpenInv /\ OutcomesInv
BY DEF TurnsInv

\* A call under way has its block open, and is alone unless the block has threads.
LEMMA UnderWay ==
  ASSUME Turns!TypeOK, TurnsInv, NEW c \in Calls, ~Idle(c)
  PROVE  /\ client.scope \in {"open", "none"} /\ Turns!Kn(c) \in Kns
         /\ ~client.shared => \A d \in Calls : d # c => Idle(d)
<1>1. client.scope \in {"none", "open", "closing", "closed", "broken"}
  BY DEF Turns!TypeOK
<1>2. client.scope \in {"open", "none"}
  BY <1>1, TurnsParts DEF StagesInv
<1>3. Turns!Kn(c) \in Kns
  BY TurnsParts DEF StagesInv, Idle
<1> QED
  BY <1>2, <1>3, TurnsParts DEF AloneInv

\* A call that has no turn yet goes on, and opens none.
LEMMA BeforeTurn ==
  ASSUME Turns!TypeOK, TurnsInv, NEW c \in Calls, NEW at, NEW kn \in Kns, NEW turn, NEW answered,
         Turns!At(c) \in {"idle", "bare", "join", "start"},
         at \in {"bare", "join", "start", "send", "returned", "raised"},
         CallMoves(c, at, kn, turn, answered), SameTurns,
         client.scope \in {"open", "none"},
         ~client.shared => \A d \in Calls : d # c => Idle(d),
         at = "start" => ~client.owned /\ (client.traced => client'.registry[kn] = None),
         \A k \in Kns : \/ client'.registry[k] = client.registry[k]
                        \/ /\ client.registry[k] = None /\ client'.registry[k] = Caller
                           /\ client.owned /\ client.traced
  PROVE  TurnsInv'
<1> USE TurnsParts, TurnsConstants DEF CallMoves, SameBlock, SameTurns, AddsLost
<1>1. \A d \in Calls : d # c => (Idle(d)' <=> Idle(d)) /\ (Turns!Over(d)' <=> Turns!Over(d))
  BY DEF Idle, Turns!Over
<1>2. server.turns[c] = "none"
  BY DEF StagesInv
<1>3. \A k \in Kns : client.registry[k] # c
  BY DEF RegistryInv
<1>4. \A k \in Kns : client'.registry[k] \in Calls => client'.registry[k] = client.registry[k]
  OBVIOUS
<1>5. StagesInv'
  <2>1. ASSUME NEW d \in Calls
        PROVE  /\ Turns!At(d)' # "idle" => Turns!Kn(d)' \in Kns
               /\ Turns!At(d)' \in {"idle", "bare", "join", "start"} => server'.turns[d] = "none"
               /\ ~Turns!Over(d)' => server'.turns[d] \notin Closed
               /\ Turns!At(d)' = "start" => ~client'.owned
               /\ Turns!At(d)' = "finish" => ~client'.traced /\ Turns!Turn(d)' = d
    BY <1>1, <1>2 DEF StagesInv, Closed
  <2> QED
    BY <2>1 DEF StagesInv
<1>6. RegistryInv'
  BY <1>3, <1>4 DEF RegistryInv
<1>7. AloneInv'
  <2>1. ~client.shared => \A d, e \in Calls : d # e => Idle(d)' \/ Idle(e)'
    BY <1>1
  <2>2. ~client.shared /\ client.traced =>
          \A d \in Calls : Turns!At(d)' = "start" => client'.registry[Turns!Kn(d)'] = None
    BY DEF Idle, Turns!Over
  <2> QED
    BY <2>1, <2>2 DEF AloneInv
<1>8. OpenInv'
  <2> SUFFICES ASSUME NEW d \in Calls, server'.turns[d] = "active",
                      d \notin server'.untold \cup server'.unheard \cup server'.displaced
               PROVE  IF client'.traced
                      THEN client'.scope \in {"open", "closing"} /\ client'.registry[Turns!Kn(d)'] = d
                      ELSE Turns!At(d)' \in {"send", "finish"} /\ Turns!Turn(d)' = d
    BY DEF OpenInv
  <2>1. d # c /\ Turns!At(d) # "idle" /\ Turns!Kn(d) \in Kns
    BY <1>2 DEF StagesInv
  <2> QED
    BY <2>1 DEF OpenInv
<1>9. OutcomesInv'
  BY <1>2 DEF OutcomesInv, Turns!OutcomesTold, Closed
<1> QED
  BY <1>5, <1>6, <1>7, <1>8, <1>9 DEF TurnsInv

\* How the actions of a call are steps of CallMoves.
LEMMA CallGoesAlone ==
  ASSUME Turns!TypeOK, NEW c \in Calls, NEW at \in Turns!Stages,
         NEW turn \in Calls \cup {Caller, None}, NEW answered \in BOOLEAN,
         client' = [client EXCEPT !.calls[c] = Turns!With(c, at, turn, answered)]
  PROVE  /\ BlockShape' /\ CallMoves(c, at, Turns!Kn(c), turn, answered)
         /\ client'.registry = client.registry
<1>1. PICK registry : registry = client.registry
  OBVIOUS
<1>2. CallAdvances(c, Turns!With(c, at, turn, answered), registry)
  BY <1>1, CallWritings DEF CallAdvances
<1>3. registry \in [Kns -> Calls \cup {Caller, None}]
  BY <1>1, TurnsTyped
<1> QED
  BY <1>1, <1>2, <1>3, CallGoes

\* The parts of a call have their shapes.
LEMMA CallTyped ==
  ASSUME Turns!TypeOK, NEW c \in Calls
  PROVE  Turns!Turn(c) \in Calls \cup {Caller, None} /\ Turns!Answered(c) \in BOOLEAN
         /\ Turns!Kn(c) \in Kns \cup {None} /\ Turns!At(c) \in Turns!Stages
BY TurnsTyped DEF CallShape, Turns!Turn, Turns!Answered, Turns!Kn, Turns!At

\* The stages a call goes to.
LEMMA StagesAre ==
  \A at \in {"bare", "join", "start", "send", "finish", "returned", "raised"} : at \in Turns!Stages
BY DEF Turns!Stages

\* A call begins without a turn (with_context_retry).
LEMMA BeginStep ==
  ASSUME Turns!TypeOK, TurnsInv, NEW c \in Calls, NEW kn \in Kns, NEW kind \in Turns!Kinds,
         Turns!Begin(c, kn, kind)
  PROVE  TurnsGood
<1>0. PICK at \in {"bare", "join"} :
        client' = [client EXCEPT !.calls[c] = [at |-> at, kn |-> kn, kind |-> kind,
                                               turn |-> None, answered |-> FALSE]]
  BY DEF Turns!Begin
<1>1. PICK call :
        /\ call = [at |-> at, kn |-> kn, kind |-> kind, turn |-> None, answered |-> FALSE]
        /\ client' = [client EXCEPT !.calls[c] = call]
  BY <1>0
<1>2. call \in CallShape
  BY <1>1, StagesAre DEF CallShape
<1>3. CallAdvances(c, call, client.registry)
  <2>1. [client EXCEPT !.calls[c] = call] =
          [client EXCEPT !.calls[c] = call, !.registry = client.registry]
    BY <1>2, CallWritings, Zenon
  <2> QED
    BY <1>1, <2>1 DEF CallAdvances
<1>4. BlockShape' /\ SameBlock /\ OneCallGoes(c, call) /\ client'.registry = client.registry
  BY <1>2, <1>3, TurnsTyped, CallFields
<1>5. CallMoves(c, at, kn, call.turn, call.answered)
  <2>1. call.at = at /\ call.kn = kn
    BY <1>1
  <2> QED
    BY <2>1, <1>4 DEF CallMoves, OneCallGoes, Turns!At, Turns!Kn, Turns!Turn, Turns!Answered
<1>6. TurnsShape' /\ SameTurns
  BY TurnsStay DEF Turns!Begin
<1>7. ~client.shared => \A d \in Calls : d # c => Idle(d)
  BY DEF Turns!Begin, Idle
<1>8. Turns!At(c) = "idle" /\ client.scope \in {"open", "none"}
  BY DEF Turns!Begin
<1>9. at \in {"bare", "join", "start", "send", "returned", "raised"} /\ at # "start"
  BY <1>1
<1>10. TurnsInv'
  BY <1>4, <1>5, <1>6, <1>7, <1>8, <1>9, BeforeTurn
<1> QED
  BY <1>4, <1>6, <1>10 DEF TurnsGood

\* A call without a turn goes on or fails.
LEMMA CallGoesBefore ==
  ASSUME Turns!TypeOK, TurnsInv, NEW c \in Calls, NEW at \in {"join", "returned", "raised"},
         NEW answered \in BOOLEAN, Turns!At(c) \in {"bare", "start"},
         client' = [client EXCEPT !.calls[c] = Turns!With(c, at, Turns!Turn(c), answered)],
         UNCHANGED server
  PROVE  TurnsGood
<1>1. /\ BlockShape' /\ CallMoves(c, at, Turns!Kn(c), Turns!Turn(c), answered)
      /\ client'.registry = client.registry
  BY CallTyped, StagesAre, CallGoesAlone
<1>2. TurnsShape' /\ SameTurns
  BY TurnsStay
<1>3. ~Idle(c)
  BY DEF Idle, Turns!Over
<1>4. TurnsInv'
  BY <1>1, <1>2, <1>3, UnderWay, BeforeTurn
<1> QED
  BY <1>1, <1>2, <1>4 DEF TurnsGood

\* A bare read, and a start that opened nothing, change no turn.
LEMMA SendBareStep ==
  ASSUME Turns!TypeOK, TurnsInv, NEW c \in Calls, Turns!SendBare(c) \/ Turns!NotStarted(c)
  PROVE  TurnsGood
<1>1. PICK at \in {"join", "returned", "raised"}, answered \in BOOLEAN :
        client' = [client EXCEPT !.calls[c] = Turns!With(c, at, Turns!Turn(c), answered)]
  BY CallTyped DEF Turns!SendBare, Turns!NotStarted, Turns!Go
<1>2. Turns!At(c) \in {"bare", "start"} /\ UNCHANGED server
  BY DEF Turns!SendBare, Turns!NotStarted
<1> QED
  BY <1>1, <1>2, CallGoesBefore

\* A call joins the turn of its scope or of its caller, or starts one (current_interaction).
LEMMA JoinStep ==
  ASSUME Turns!TypeOK, TurnsInv, NEW c \in Calls, Turns!Join(c)
  PROVE  TurnsGood
<1>1. Turns!At(c) = "join" /\ UNCHANGED server /\ ~Idle(c)
  BY DEF Turns!Join, Idle, Turns!Over
<1>2. Turns!Kn(c) \in Kns /\ client.scope \in {"open", "none"}
      /\ (~client.shared => \A d \in Calls : d # c => Idle(d))
  BY <1>1, UnderWay
<1> DEFINE known == IF client.traced THEN client.registry[Turns!Kn(c)] ELSE None
           turn == IF known = None /\ client.owned THEN Caller ELSE known
           at == IF turn = None THEN "start" ELSE "send"
           held == IF client.traced /\ known = None THEN turn ELSE client.registry[Turns!Kn(c)]
           registry == [client.registry EXCEPT ![Turns!Kn(c)] = held]
<1>3. /\ turn \in Calls \cup {Caller, None} /\ held \in Calls \cup {Caller, None}
      /\ at \in {"start", "send"}
  BY <1>2, TurnsTyped
<1>4. /\ held = client.registry[Turns!Kn(c)] \/
           (client.registry[Turns!Kn(c)] = None /\ held = Caller /\ client.owned /\ client.traced)
      /\ at = "start" => ~client.owned /\ (client.traced => held = None)
  BY TurnsConstants
<1>5. client' = [client EXCEPT !.calls[c] = Turns!With(c, at, turn, Turns!Answered(c)),
                               !.registry[Turns!Kn(c)] = held]
  BY DEF Turns!Join
<1> HIDE DEF known, turn, at, held
<1>6. CallAdvances(c, Turns!With(c, at, turn, Turns!Answered(c)), registry)
  BY <1>5, CallWritings DEF CallAdvances
<1>7. registry \in [Kns -> Calls \cup {Caller, None}]
      /\ \A k \in Kns : registry[k] = IF k = Turns!Kn(c) THEN held ELSE client.registry[k]
  BY <1>2, <1>3, TurnsTyped
<1> HIDE DEF registry
<1>8. /\ BlockShape' /\ CallMoves(c, at, Turns!Kn(c), turn, Turns!Answered(c))
      /\ client'.registry = registry
  <2>1. at \in Turns!Stages
    BY <1>3, StagesAre
  <2> QED
    BY <2>1, <1>3, <1>6, <1>7, CallTyped, CallGoes
<1>9. TurnsShape' /\ SameTurns
  BY <1>1, TurnsStay
<1>10. /\ at = "start" => ~client.owned /\ (client.traced => client'.registry[Turns!Kn(c)] = None)
       /\ \A k \in Kns : \/ client'.registry[k] = client.registry[k]
                         \/ /\ client.registry[k] = None /\ client'.registry[k] = Caller
                            /\ client.owned /\ client.traced
  BY <1>2, <1>4, <1>7, <1>8
<1>11. at \in {"bare", "join", "start", "send", "returned", "raised"}
  BY <1>3
<1>12. TurnsInv'
  BY <1>1, <1>2, <1>8, <1>9, <1>10, <1>11, BeforeTurn
<1> QED
  BY <1>8, <1>9, <1>12 DEF TurnsGood

\* What a start leaves: the turn is open.
LEMMA StartedUntoldStep ==
  ASSUME Turns!TypeOK, TurnsInv, NEW c \in Calls, Turns!StartedUntold(c)
  PROVE  TurnsGood
<1> USE TurnsParts, TurnsConstants
<1>1. BlockShape' /\ CallMoves(c, "raised", Turns!Kn(c), Turns!Turn(c), Turns!Answered(c))
      /\ client'.registry = client.registry
  BY CallTyped, StagesAre, CallGoesAlone DEF Turns!StartedUntold, Turns!Go
<1>2. TurnsShape' /\ TurnIs(c, "active") /\ AddsLost({c}, {}, {})
  <2>1. server' = [server EXCEPT !.turns[c] = "active", !.untold = @ \cup {c}]
    BY DEF Turns!StartedUntold
  <2>2. /\ server'.turns = [server.turns EXCEPT ![c] = "active"]
        /\ server'.untold = server.untold \cup {c} /\ server'.displaced = server.displaced
        /\ server'.unheard = server.unheard
    BY <2>1 DEF Turns!TypeOK
  <2>3. server'.turns \in [Calls \cup {Caller} -> {"none", "active", "cancelled", "failed"}]
    BY <2>2, TurnsTyped
  <2>4. TurnsShape'
    <3>1. server.untold \cup {c} \in SUBSET Calls
      BY DEF Turns!TypeOK
    <3>2. server' = [turns |-> server'.turns, untold |-> server.untold \cup {c},
                     displaced |-> server.displaced, unheard |-> server.unheard]
      BY <2>1, <2>2 DEF Turns!TypeOK
    <3> QED
      BY <2>3, <3>1, <3>2 DEF Turns!TypeOK, TurnsShape
  <2>5. TurnIs(c, "active")
    BY <2>2, TurnsTyped DEF TurnIs
  <2> QED
    BY <2>2, <2>4, <2>5 DEF AddsLost
<1>3. Turns!At(c) = "start" /\ ~Idle(c) /\ server.turns[c] = "none"
  BY DEF Turns!StartedUntold, Idle, Turns!Over, StagesInv
<1>4. client.scope \in {"open", "none"} /\ \A k \in Kns : client.registry[k] # c
  BY <1>3, UnderWay DEF RegistryInv
<1> USE DEF CallMoves, SameBlock, TurnIs, AddsLost
<1>5. \A d \in Calls : d # c => (Idle(d)' <=> Idle(d)) /\ (Turns!Over(d)' <=> Turns!Over(d))
  BY <1>1 DEF Idle, Turns!Over
<1>6. StagesInv'
  <2>1. ASSUME NEW d \in Calls
        PROVE  /\ Turns!At(d)' # "idle" => Turns!Kn(d)' \in Kns
               /\ Turns!At(d)' \in {"idle", "bare", "join", "start"} => server'.turns[d] = "none"
               /\ ~Turns!Over(d)' => server'.turns[d] \notin Closed
               /\ Turns!At(d)' = "start" => ~client'.owned
               /\ Turns!At(d)' = "finish" => ~client'.traced /\ Turns!Turn(d)' = d
    BY <1>1, <1>2, <1>3, <1>5 DEF StagesInv, Closed
  <2> QED
    BY <1>1, <1>4, <2>1 DEF StagesInv
<1>7. RegistryInv'
  BY <1>1, <1>4 DEF RegistryInv
<1>8. AloneInv'
  <2>1. ~client.shared => \A d, e \in Calls : d # e => Idle(d)' \/ Idle(e)'
    BY <1>3, <1>5, UnderWay
  <2> QED
    BY <1>1, <1>2, <2>1 DEF AloneInv
<1>9. OpenInv'
  <2> SUFFICES ASSUME NEW d \in Calls, server'.turns[d] = "active",
                      d \notin server'.untold \cup server'.unheard \cup server'.displaced
               PROVE  IF client'.traced
                      THEN client'.scope \in {"open", "closing"} /\ client'.registry[Turns!Kn(d)'] = d
                      ELSE Turns!At(d)' \in {"send", "finish"} /\ Turns!Turn(d)' = d
    BY DEF OpenInv
  <2>1. d # c
    BY <1>2
  <2> QED
    BY <1>1, <1>2, <2>1 DEF OpenInv
<1>10. OutcomesInv'
  BY <1>1, <1>2 DEF OutcomesInv, Turns!OutcomesTold, Closed
<1> QED
  BY <1>1, <1>2, <1>6, <1>7, <1>8, <1>9, <1>10 DEF TurnsInv, TurnsGood

\* A start opens the turn of its call, which its scope then holds (_start).
LEMMA StartedStep ==
  ASSUME Turns!TypeOK, TurnsInv, NEW c \in Calls, Turns!Started(c)
  PROVE  TurnsGood
<1> USE TurnsParts, TurnsConstants
<1>1. Turns!At(c) = "start" /\ ~Idle(c) /\ server.turns[c] = "none" /\ ~client.owned
  BY DEF Turns!Started, Idle, Turns!Over, StagesInv
<1>2. Turns!Kn(c) \in Kns /\ client.scope \in {"open", "none"}
      /\ (~client.shared => \A d \in Calls : d # c => Idle(d))
  BY <1>1, UnderWay
<1> DEFINE kn == Turns!Kn(c)
           held == IF client.traced THEN c ELSE client.registry[kn]
           out == IF client.traced THEN {client.registry[kn]} \ {None} ELSE {}
<1>3. PICK registry : registry = [client.registry EXCEPT ![Turns!Kn(c)] = held]
  OBVIOUS
<1>4. registry \in [Kns -> Calls \cup {Caller, None}]
      /\ \A k \in Kns : registry[k] = IF k = kn THEN held ELSE client.registry[k]
  BY <1>2, <1>3, TurnsTyped
<1>5. CallAdvances(c, Turns!With(c, "send", c, Turns!Answered(c)), registry)
  <2>1. client' = [client EXCEPT !.calls[c] = Turns!With(c, "send", c, Turns!Answered(c)),
                                 !.registry[Turns!Kn(c)] = held]
    BY DEF Turns!Started
  <2> HIDE DEF held
  <2> QED
    BY <1>3, <2>1, CallWritings DEF CallAdvances
<1>6. /\ BlockShape' /\ CallMoves(c, "send", Turns!Kn(c), c, Turns!Answered(c))
      /\ client'.registry = registry
  BY <1>4, <1>5, CallTyped, StagesAre, CallGoes
<1>7. out \subseteq Calls
  <2>1. client.registry[kn] \in Calls \cup {Caller, None} /\ client.registry[kn] # Caller
    BY <1>1, <1>2, TurnsTyped DEF RegistryInv
  <2> QED
    BY <2>1
<1>8. TurnsShape' /\ TurnIs(c, "active") /\ AddsLost({}, out, {})
  <2>1. server' = [server EXCEPT !.turns[c] = "active", !.displaced = server.displaced \cup out]
    BY DEF Turns!Started, Turns!TypeOK
  <2> HIDE DEF out
  <2>2. /\ server'.turns = [server.turns EXCEPT ![c] = "active"]
        /\ server'.untold = server.untold /\ server'.displaced = server.displaced \cup out
        /\ server'.unheard = server.unheard
    BY <2>1 DEF Turns!TypeOK
  <2>3. server'.turns \in [Calls \cup {Caller} -> {"none", "active", "cancelled", "failed"}]
    BY <2>2, TurnsTyped
  <2>4. TurnsShape'
    BY <1>7, <2>1, <2>2, <2>3 DEF Turns!TypeOK, TurnsShape
  <2>5. TurnIs(c, "active")
    BY <2>2, TurnsTyped DEF TurnIs
  <2> QED
    BY <2>2, <2>4, <2>5 DEF AddsLost
<1> USE DEF CallMoves, SameBlock, TurnIs, AddsLost
<1>9. \A d \in Calls : d # c => (Idle(d)' <=> Idle(d)) /\ (Turns!Over(d)' <=> Turns!Over(d))
  BY <1>6 DEF Idle, Turns!Over
<1>10. StagesInv'
  <2>1. ASSUME NEW d \in Calls
        PROVE  /\ Turns!At(d)' # "idle" => Turns!Kn(d)' \in Kns
               /\ Turns!At(d)' \in {"idle", "bare", "join", "start"} => server'.turns[d] = "none"
               /\ ~Turns!Over(d)' => server'.turns[d] \notin Closed
               /\ Turns!At(d)' = "start" => ~client'.owned
               /\ Turns!At(d)' = "finish" => ~client'.traced /\ Turns!Turn(d)' = d
    BY <1>1, <1>6, <1>8, <1>9 DEF StagesInv, Closed
  <2> QED
    BY <1>2, <1>6, <2>1 DEF StagesInv
<1>11. RegistryInv'
  <2>1. ASSUME NEW k \in Kns, k # kn
        PROVE  client'.registry[k] = client.registry[k] /\ client.registry[k] # c
    BY <1>1, <1>4, <1>6, <2>1 DEF RegistryInv
  <2>2. client.traced => client'.registry[kn] = c
    BY <1>2, <1>4, <1>6
  <2>3. ~client.traced => client'.registry[kn] = None
    BY <1>2, <1>4, <1>6 DEF RegistryInv
  <2> QED
    BY <1>6, <2>1, <2>2, <2>3 DEF RegistryInv
<1>12. AloneInv'
  <2>1. ~client.shared => \A d, e \in Calls : d # e => Idle(d)' \/ Idle(e)'
    BY <1>2, <1>9
  <2>2. ~client.shared => server'.displaced = {}
    BY <1>1, <1>8 DEF AloneInv
  <2>3. ~client.shared => \A d \in Calls : Turns!At(d)' # "start"
    BY <1>2, <1>6 DEF Idle, Turns!Over
  <2> QED
    BY <1>6, <2>1, <2>2, <2>3 DEF AloneInv
<1>13. OpenInv'
  <2> SUFFICES ASSUME NEW d \in Calls, server'.turns[d] = "active",
                      d \notin server'.untold \cup server'.unheard \cup server'.displaced
               PROVE  IF client'.traced
                      THEN client'.scope \in {"open", "closing"} /\ client'.registry[Turns!Kn(d)'] = d
                      ELSE Turns!At(d)' \in {"send", "finish"} /\ Turns!Turn(d)' = d
    BY DEF OpenInv
  <2>1. CASE d = c
    <3>1. client.traced => client.scope = "open"
      BY <1>2 DEF StagesInv
    <3> QED
      BY <1>2, <1>4, <1>6, <2>1, <3>1
  <2>2. CASE d # c
    <3>1. client.traced => client.registry[kn] # d
      BY <1>8, <2>2
    <3>2. Turns!Kn(d) \in Kns
      BY <1>8, <2>2 DEF StagesInv
    <3> QED
      BY <1>4, <1>6, <1>8, <2>2, <3>1, <3>2 DEF OpenInv
  <2> QED
    BY <2>1, <2>2
<1>14. OutcomesInv'
  BY <1>1, <1>6, <1>8 DEF OutcomesInv, Turns!OutcomesTold, Closed
<1> QED
  BY <1>6, <1>8, <1>10, <1>11, <1>12, <1>13, <1>14 DEF TurnsInv, TurnsGood

\* A call that was sent is over, or finishes its own turn (with_context_retry).
LEMMA SentStep ==
  ASSUME Turns!TypeOK, TurnsInv, NEW c \in Calls, Turns!Sent(c)
  PROVE  TurnsGood
<1> USE TurnsParts, TurnsConstants
<1>1. Turns!At(c) = "send" /\ ~Idle(c) /\ server.turns[c] \notin Closed
  BY DEF Turns!Sent, Idle, Turns!Over, StagesInv
<1>2. Turns!Kn(c) \in Kns /\ client.scope \in {"open", "none"}
      /\ (~client.shared => \A d \in Calls : d # c => Idle(d))
  BY <1>1, UnderWay
<1>3. PICK answered \in BOOLEAN, at \in {"finish", "returned", "raised"} :
        /\ at = "finish" <=> Turns!FinishesOwn(c)
        /\ client' = [client EXCEPT !.calls[c] = Turns!With(c, at, Turns!Turn(c), answered)]
  BY DEF Turns!Sent
<1>4. BlockShape' /\ CallMoves(c, at, Turns!Kn(c), Turns!Turn(c), answered)
      /\ client'.registry = client.registry
  BY <1>3, CallTyped, StagesAre, CallGoesAlone
<1>5. TurnsShape' /\ SameTurns
  BY TurnsStay DEF Turns!Sent
<1> USE DEF CallMoves, SameBlock, SameTurns, AddsLost
<1>6. \A d \in Calls : d # c => (Idle(d)' <=> Idle(d)) /\ (Turns!Over(d)' <=> Turns!Over(d))
  BY <1>4 DEF Idle, Turns!Over
<1>7. StagesInv'
  <2>1. ASSUME NEW d \in Calls
        PROVE  /\ Turns!At(d)' # "idle" => Turns!Kn(d)' \in Kns
               /\ Turns!At(d)' \in {"idle", "bare", "join", "start"} => server'.turns[d] = "none"
               /\ ~Turns!Over(d)' => server'.turns[d] \notin Closed
               /\ Turns!At(d)' = "start" => ~client'.owned
               /\ Turns!At(d)' = "finish" => ~client'.traced /\ Turns!Turn(d)' = d
    BY <1>1, <1>2, <1>3, <1>4, <1>5, <1>6 DEF StagesInv, Closed, Turns!FinishesOwn
  <2> QED
    BY <1>2, <1>4, <2>1 DEF StagesInv
<1>8. RegistryInv'
  BY <1>3, <1>4 DEF RegistryInv, Turns!FinishesOwn
<1>9. AloneInv'
  <2>1. ~client.shared => \A d, e \in Calls : d # e => Idle(d)' \/ Idle(e)'
    BY <1>2, <1>6
  <2>2. ~client.shared => \A d \in Calls : Turns!At(d)' # "start"
    BY <1>2, <1>3, <1>4 DEF Idle, Turns!Over
  <2> QED
    BY <1>4, <1>5, <2>1, <2>2 DEF AloneInv
<1>10. OpenInv'
  <2> SUFFICES ASSUME NEW d \in Calls, server'.turns[d] = "active",
                      d \notin server'.untold \cup server'.unheard \cup server'.displaced
               PROVE  IF client'.traced
                      THEN client'.scope \in {"open", "closing"} /\ client'.registry[Turns!Kn(d)'] = d
                      ELSE Turns!At(d)' \in {"send", "finish"} /\ Turns!Turn(d)' = d
    BY DEF OpenInv
  <2>1. CASE d = c
    BY <1>3, <1>4, <1>5, <2>1 DEF OpenInv, Turns!FinishesOwn
  <2>2. CASE d # c
    BY <1>4, <1>5, <2>2 DEF OpenInv
  <2> QED
    BY <2>1, <2>2
<1>11. OutcomesInv'
  BY <1>1, <1>4, <1>5 DEF OutcomesInv, Turns!OutcomesTold, Closed
<1> QED
  BY <1>4, <1>5, <1>7, <1>8, <1>9, <1>10, <1>11 DEF TurnsInv, TurnsGood

\* A turn is closed as its call went, or its finish was not heard.
LEMMA FinishStep ==
  ASSUME Turns!TypeOK, TurnsInv, NEW c \in Calls, Turns!Finish(c)
  PROVE  TurnsGood
<1> USE TurnsParts, TurnsConstants
<1> DEFINE ok == Turns!Answered(c)
<1>1. Turns!At(c) = "finish" /\ ~Idle(c) /\ ~client.traced /\ Turns!Turn(c) = c /\ ok \in BOOLEAN
  BY CallTyped DEF Turns!Finish, Idle, Turns!Over, StagesInv
<1>2. Turns!Kn(c) \in Kns /\ client.scope \in {"open", "none"}
      /\ (~client.shared => \A d \in Calls : d # c => Idle(d))
  BY <1>1, UnderWay
<1>3. PICK at \in {"returned", "raised"} :
        /\ client' = [client EXCEPT !.calls[c] = Turns!With(c, at, Turns!Turn(c), Turns!Answered(c))]
        /\ server' \in {Turns!Close(c, ok), Turns!CloseUnheard(c)}
  BY DEF Turns!Finish, Turns!Go
<1>4. BlockShape' /\ CallMoves(c, at, Turns!Kn(c), Turns!Turn(c), Turns!Answered(c))
      /\ client'.registry = client.registry
  BY <1>3, CallTyped, StagesAre, CallGoesAlone
<1>5. /\ TurnsShape'
      /\ \/ TurnIs(c, IF ok THEN "cancelled" ELSE "failed") /\ AddsLost({}, {}, {})
         \/ server'.turns = server.turns /\ AddsLost({}, {}, {c})
  BY <1>1, <1>3, ClosesTurn, LosesTurn
<1> USE DEF CallMoves, SameBlock, TurnIs, AddsLost
<1>6. \A d \in Calls : d # c => /\ Idle(d)' <=> Idle(d)
                                /\ Turns!Over(d)' <=> Turns!Over(d)
                                /\ server'.turns[d] = server.turns[d]
  BY <1>4, <1>5 DEF Idle, Turns!Over
<1>7. StagesInv'
  <2>1. ASSUME NEW d \in Calls
        PROVE  /\ Turns!At(d)' # "idle" => Turns!Kn(d)' \in Kns
               /\ Turns!At(d)' \in {"idle", "bare", "join", "start"} => server'.turns[d] = "none"
               /\ ~Turns!Over(d)' => server'.turns[d] \notin Closed
               /\ Turns!At(d)' = "start" => ~client'.owned
               /\ Turns!At(d)' = "finish" => ~client'.traced /\ Turns!Turn(d)' = d
    <3>1. CASE d = c
      BY <1>2, <1>3, <1>4, <3>1 DEF Turns!Over
    <3>2. CASE d # c
      BY <1>4, <1>6, <3>2 DEF StagesInv
    <3> QED
      BY <3>1, <3>2
  <2> QED
    BY <1>2, <1>4, <2>1 DEF StagesInv
<1>8. RegistryInv'
  BY <1>1, <1>3, <1>4 DEF RegistryInv
<1>9. AloneInv'
  <2>1. ~client.shared => \A d, e \in Calls : d # e => Idle(d)' \/ Idle(e)'
    BY <1>2, <1>6
  <2> QED
    BY <1>1, <1>4, <1>5, <2>1 DEF AloneInv
<1>10. OpenInv'
  <2> SUFFICES ASSUME NEW d \in Calls, server'.turns[d] = "active",
                      d \notin server'.untold \cup server'.unheard \cup server'.displaced
               PROVE  IF client'.traced
                      THEN client'.scope \in {"open", "closing"} /\ client'.registry[Turns!Kn(d)'] = d
                      ELSE Turns!At(d)' \in {"send", "finish"} /\ Turns!Turn(d)' = d
    BY DEF OpenInv
  <2>1. d # c
    BY <1>5
  <2> QED
    BY <1>4, <1>5, <1>6, <2>1 DEF OpenInv
<1>11. OutcomesInv'
  <2>1. server'.turns[Caller] = "active"
    BY <1>5 DEF OutcomesInv
  <2>2. Turns!OutcomesTold'
    <3> SUFFICES ASSUME NEW d \in Calls, server'.turns[d] \in {"cancelled", "failed"}
                 PROVE  (server'.turns[d] = "cancelled") =
                          (IF client'.traced THEN client'.ending = "cancelled" ELSE Turns!Answered(d)')
      BY DEF Turns!OutcomesTold
    <3>1. CASE d = c /\ server'.turns[c] = (IF ok THEN "cancelled" ELSE "failed")
      BY <1>1, <1>4, <3>1
    <3>2. CASE server'.turns[d] = server.turns[d]
      BY <1>4, <3>2 DEF OutcomesInv, Turns!OutcomesTold
    <3> QED
      BY <1>5, <1>6, <3>1, <3>2
  <2>3. client'.scope # "open"
    BY <1>1, <1>4 DEF StagesInv
  <2> QED
    BY <2>1, <2>2, <2>3 DEF OutcomesInv
<1> QED
  BY <1>4, <1>5, <1>7, <1>8, <1>9, <1>10, <1>11 DEF TurnsInv, TurnsGood

\* The calls stay where they are.
SameCalls ==
  /\ client'.calls = client.calls /\ client'.traced = client.traced
  /\ client'.owned = client.owned /\ client'.shared = client.shared

\* Calls that rest are where they were.
LEMMA CallsStay ==
  ASSUME SameCalls
  PROVE  \A d \in Calls : /\ Turns!At(d)' = Turns!At(d) /\ Turns!Kn(d)' = Turns!Kn(d)
                          /\ Turns!Turn(d)' = Turns!Turn(d) /\ Turns!Answered(d)' = Turns!Answered(d)
                          /\ Idle(d)' <=> Idle(d)
                          /\ Turns!Over(d)' <=> Turns!Over(d)
BY DEF SameCalls, Turns!At, Turns!Kn, Turns!Turn, Turns!Answered, Idle, Turns!Over

\* The scope goes on, and no call.
LEMMA ScopeMoves ==
  ASSUME Turns!TypeOK, NEW scope \in {"closing", "closed", "broken"},
         NEW ending \in {"none", "cancelled", "failed"},
         client' = [client EXCEPT !.scope = scope, !.ending = ending]
  PROVE  BlockShape' /\ SameCalls /\ client'.scope = scope /\ client'.ending = ending
         /\ client'.registry = client.registry
BY DEF Turns!TypeOK, BlockShape, CallShape, SameCalls

\* The block ends when its calls are over (session).
LEMMA EndBlockStep ==
  ASSUME Turns!TypeOK, TurnsInv, Turns!EndBlock
  PROVE  TurnsGood
<1> USE TurnsParts
<1>1. PICK ending \in {"cancelled", "failed"} :
        client' = [client EXCEPT !.scope = "closing", !.ending = ending]
  BY DEF Turns!EndBlock
<1>2. BlockShape' /\ SameCalls /\ client'.scope = "closing" /\ client'.ending = ending
      /\ client'.registry = client.registry
  BY <1>1, ScopeMoves
<1>3. TurnsShape' /\ SameTurns
  BY TurnsStay DEF Turns!EndBlock
<1>4. client.scope = "open" /\ client.traced /\ \A d \in Calls : Idle(d)
  BY DEF Turns!EndBlock, StagesInv, Idle
<1> USE DEF SameCalls, SameTurns, AddsLost
<1>5. StagesInv'
  BY <1>2, <1>3, <1>4, CallsStay DEF StagesInv
<1>6. RegistryInv'
  <2>1. \A k \in Kns : client.registry[k] \in Calls =>
          /\ Turns!Kn(client.registry[k])' = Turns!Kn(client.registry[k])
          /\ Turns!At(client.registry[k])' = Turns!At(client.registry[k])
    BY <1>2, CallsStay
  <2> QED
    BY <1>2, <2>1, CallsStay DEF RegistryInv
<1>7. AloneInv'
  BY <1>2, <1>3, <1>4, CallsStay DEF AloneInv
<1>8. OpenInv'
  BY <1>2, <1>3, <1>4, CallsStay DEF OpenInv
<1>9. OutcomesInv'
  BY <1>2, <1>3, <1>4, CallsStay DEF OutcomesInv, Turns!OutcomesTold, Closed
<1> QED
  BY <1>2, <1>3, <1>5, <1>6, <1>7, <1>8, <1>9 DEF TurnsInv, TurnsGood

\* The scope is closed when it holds no turn (_finish_interactions).
LEMMA EndScopeStep ==
  ASSUME Turns!TypeOK, TurnsInv, Turns!EndScope
  PROVE  TurnsGood
<1> USE TurnsParts, TurnsConstants
<1>1. BlockShape' /\ SameCalls /\ client'.scope = "closed" /\ client'.ending = client.ending
      /\ client'.registry = client.registry
  <2>1. PICK ending \in {"none", "cancelled", "failed"} : ending = client.ending
    BY DEF Turns!TypeOK
  <2>2. client' = [client EXCEPT !.scope = "closed", !.ending = ending]
    BY <2>1 DEF Turns!EndScope, Turns!TypeOK
  <2> QED
    BY <2>1, <2>2, ScopeMoves
<1>2. TurnsShape' /\ SameTurns
  BY TurnsStay DEF Turns!EndScope
<1>3. client.scope = "closing" /\ client.traced /\ \A d \in Calls : Idle(d)
  BY DEF Turns!EndScope, StagesInv
<1>4. \A k \in Kns : client.registry[k] \notin Calls
  BY DEF Turns!EndScope, Turns!Held
<1> USE DEF SameCalls, SameTurns, AddsLost
<1>5. StagesInv'
  BY <1>1, <1>2, <1>3, CallsStay DEF StagesInv
<1>6. RegistryInv'
  BY <1>1, <1>4 DEF RegistryInv
<1>7. AloneInv'
  BY <1>1, <1>2, <1>3, CallsStay DEF AloneInv
<1>8. OpenInv'
  <2>1. ASSUME NEW d \in Calls, server.turns[d] = "active" PROVE Turns!Kn(d) \in Kns
    BY <2>1 DEF StagesInv
  <2> QED
    BY <1>1, <1>2, <1>3, <1>4, <2>1 DEF OpenInv
<1>9. OutcomesInv'
  BY <1>1, <1>2, <1>3, CallsStay DEF OutcomesInv, Turns!OutcomesTold
<1> QED
  BY <1>1, <1>2, <1>5, <1>6, <1>7, <1>8, <1>9 DEF TurnsInv, TurnsGood

\* The turns that a scope holds are calls of the block, and over.
LEMMA HeldAreOver ==
  ASSUME Turns!TypeOK, TurnsInv, client.scope = "closing", NEW k \in Turns!Held
  PROVE  /\ k \in Kns /\ client.registry[k] \in Calls /\ Turns!Kn(client.registry[k]) = k
         /\ Turns!Over(client.registry[k])
         /\ Turns!At(client.registry[k]) \notin {"idle", "bare", "join", "start"}
<1>1. k \in Kns /\ client.registry[k] \in Calls
  BY TurnsTyped DEF Turns!Held
<1>2. Turns!Kn(client.registry[k]) = k /\ Turns!At(client.registry[k]) \in {"send", "returned", "raised"}
  BY <1>1, TurnsParts DEF RegistryInv
<1>3. Idle(client.registry[k])
  BY <1>1, TurnsParts DEF StagesInv
<1> QED
  BY <1>1, <1>2, <1>3 DEF Idle, Turns!Over

\* What the end of a block does to the turns: those in "closed" are closed as the block
\* ended, those in "unheard" are given up, and no other is held any more.
ClosesHeld(closed, unheard) ==
  /\ \A d \in Calls \cup {Caller} :
       server'.turns[d] = IF d \in closed THEN Turns!Outcome(client.ending = "cancelled")
                          ELSE server.turns[d]
  /\ AddsLost({}, {}, unheard)

\* The end of a block closes or gives up what it takes out of the registry.
LEMMA ClosesHeldKeeps ==
  ASSUME Turns!TypeOK, TurnsInv, SameCalls, client'.ending = client.ending, client.traced,
         client.scope = "closing", client'.scope \in {"closing", "broken"},
         NEW closed \in SUBSET Calls, NEW unheard \in SUBSET Calls, ClosesHeld(closed, unheard),
         \A d \in closed : Turns!Over(d),
         \A k \in Kns : client'.registry[k] \in {client.registry[k], None},
         \A d \in Calls : server.turns[d] = "active" =>
           \/ d \in closed \cup unheard \cup server.untold \cup server.unheard \cup server.displaced
           \/ client'.scope = "closing" /\ client'.registry[Turns!Kn(d)] = d
  PROVE  TurnsInv'
<1> USE TurnsParts, TurnsConstants DEF SameCalls, ClosesHeld, AddsLost, Turns!Outcome
<1>1. \A d \in Calls : Idle(d)
  BY DEF StagesInv
<1>2. StagesInv'
  <2>1. ASSUME NEW d \in Calls
        PROVE  /\ Turns!At(d)' # "idle" => Turns!Kn(d)' \in Kns
               /\ Turns!At(d)' \in {"idle", "bare", "join", "start"} => server'.turns[d] = "none"
               /\ ~Turns!Over(d)' => server'.turns[d] \notin Closed
               /\ Turns!At(d)' = "start" => ~client'.owned
               /\ Turns!At(d)' = "finish" => ~client'.traced /\ Turns!Turn(d)' = d
    <3>1. CASE d \in closed
      BY <3>1, CallsStay DEF StagesInv, Turns!Over
    <3>2. CASE d \notin closed
      BY <3>2, CallsStay DEF StagesInv
    <3> QED
      BY <3>1, <3>2
  <2> QED
    BY <1>1, <2>1, CallsStay DEF StagesInv
<1>3. RegistryInv'
  <2> SUFFICES ASSUME NEW k \in Kns, client'.registry[k] # None
               PROVE  /\ client'.registry[k] \in Calls =>
                           /\ Turns!Kn(client.registry[k])' = k
                           /\ Turns!At(client.registry[k])' \in {"send", "returned", "raised"}
                      /\ client'.registry[k] = Caller => client'.owned
                      /\ client'.traced
    BY DEF RegistryInv
  <2>1. PICK d : d = client.registry[k] /\ d = client'.registry[k]
    OBVIOUS
  <2>2. d \in Calls => Turns!Kn(d)' = k /\ Turns!At(d)' \in {"send", "returned", "raised"}
    BY <2>1, CallsStay DEF RegistryInv
  <2> QED
    BY <2>1, <2>2 DEF RegistryInv, Turns!Kn, Turns!At
<1>4. AloneInv'
  BY <1>1, CallsStay DEF AloneInv, Idle, Turns!Over
<1>5. OpenInv'
  BY CallsStay DEF OpenInv
<1>6. OutcomesInv'
  <2>1. server'.turns[Caller] = "active"
    BY DEF OutcomesInv
  <2>2. Turns!OutcomesTold'
    BY CallsStay DEF OutcomesInv, Turns!OutcomesTold
  <2> QED
    BY <2>1, <2>2 DEF OutcomesInv
<1> QED
  BY <1>2, <1>3, <1>4, <1>5, <1>6 DEF TurnsInv

\* One turn of the scope is finished, or the rest is given up (_finish_interactions).
LEMMA FinishOneStep ==
  ASSUME Turns!TypeOK, TurnsInv, NEW k \in Kns, Turns!FinishOne(k)
  PROVE  TurnsGood
<1> USE TurnsParts, TurnsConstants
<1>1. client.scope = "closing" /\ k \in Turns!Held /\ client.traced
  BY DEF Turns!FinishOne, StagesInv
<1>2. PICK turn \in Calls : turn = client.registry[k]
  BY <1>1, HeldAreOver
<1>3. Turns!Over(turn) /\ Turns!Kn(turn) = k
  BY <1>1, <1>2, HeldAreOver
<1>4. client.ending \in {"none", "cancelled", "failed"}
  BY DEF Turns!TypeOK
<1> DEFINE ok == client.ending = "cancelled"
           others == {client.registry[j] : j \in Turns!Held \ {k}}
           all == {client.registry[j] : j \in Turns!Held}
<1>5. others \subseteq Calls /\ all \subseteq Calls
  BY <1>1, HeldAreOver
<1> HIDE DEF others, all
<1>6. CASE /\ server' \in {Turns!Close(turn, ok), Turns!CloseUnheard(turn)}
           /\ client' = [client EXCEPT !.registry[k] = None]
  <2>1. BlockShape' /\ SameCalls /\ client'.scope = "closing" /\ client'.ending = client.ending
        /\ client'.registry = [client.registry EXCEPT ![k] = None]
    <3>1. PICK registry : registry = [client.registry EXCEPT ![k] = None]
      OBVIOUS
    <3>2. registry \in [Kns -> Calls \cup {Caller, None}]
      BY <3>1, TurnsTyped
    <3>3. client' = [client EXCEPT !.registry = registry]
      BY <1>6, <3>1
    <3> QED
      BY <1>1, <3>1, <3>2, <3>3 DEF Turns!TypeOK, BlockShape, CallShape, SameCalls
  <2>2. \A j \in Kns : client'.registry[j] = IF j = k THEN None ELSE client.registry[j]
    BY <2>1, TurnsTyped
  <2>3. ASSUME NEW d \in Calls, server.turns[d] = "active", d # turn
        PROVE  \/ d \in server.untold \cup server.unheard \cup server.displaced
               \/ client'.scope = "closing" /\ client'.registry[Turns!Kn(d)] = d
    <3>1. Turns!Kn(d) \in Kns
      BY <2>3 DEF StagesInv
    <3>2. client.registry[Turns!Kn(d)] = d => Turns!Kn(d) # k
      BY <1>2, <2>3
    <3> QED
      BY <1>1, <2>1, <2>2, <2>3, <3>1, <3>2 DEF OpenInv
  <2>4. CASE server' = Turns!Close(turn, ok)
    <3>1. TurnsShape' /\ TurnIs(turn, IF ok THEN "cancelled" ELSE "failed") /\ AddsLost({}, {}, {})
      BY <2>4, ClosesTurn
    <3>2. ClosesHeld({turn}, {})
      BY <3>1 DEF ClosesHeld, TurnIs, Turns!Outcome
    <3>3. TurnsInv'
      BY <1>1, <1>3, <2>1, <2>2, <2>3, <3>2, ClosesHeldKeeps
    <3> QED
      BY <2>1, <3>1, <3>3 DEF TurnsGood
  <2>5. CASE server' = Turns!CloseUnheard(turn)
    <3>1. TurnsShape' /\ server'.turns = server.turns /\ AddsLost({}, {}, {turn})
      BY <2>5, LosesTurn
    <3>2. ClosesHeld({}, {turn})
      BY <3>1 DEF ClosesHeld
    <3>3. TurnsInv'
      BY <1>1, <1>3, <2>1, <2>2, <2>3, <3>2, ClosesHeldKeeps
    <3> QED
      BY <2>1, <3>1, <3>3 DEF TurnsGood
  <2> QED
    BY <1>6, <2>4, <2>5
\* What httpx raises: the rest is given up.
<1>7. CASE /\ server' \in {[Turns!Close(turn, ok) EXCEPT !.unheard = @ \cup others],
                           [server EXCEPT !.unheard = @ \cup all]}
           /\ client' = [client EXCEPT !.scope = "broken"]
  <2>1. BlockShape' /\ SameCalls /\ client'.scope = "broken" /\ client'.ending = client.ending
        /\ client'.registry = client.registry
    <3>1. PICK ending \in {"none", "cancelled", "failed"} : ending = client.ending
      BY <1>4
    <3>2. client' = [client EXCEPT !.scope = "broken", !.ending = ending]
      BY <1>7, <3>1 DEF Turns!TypeOK
    <3> QED
      BY <3>1, <3>2, ScopeMoves
  <2>2. ASSUME NEW d \in Calls, server.turns[d] = "active"
        PROVE  d \in {turn} \cup others \cup server.untold \cup server.unheard \cup server.displaced
    <3>1. Turns!Kn(d) \in Kns
      BY <2>2 DEF StagesInv
    <3>2. client.registry[Turns!Kn(d)] = d => Turns!Kn(d) \in Turns!Held
      BY <3>1 DEF Turns!Held
    <3>3. client.registry[Turns!Kn(d)] = d => d \in {turn} \cup others
      BY <1>2, <3>2 DEF others
    <3> QED
      BY <1>1, <2>2, <3>3 DEF OpenInv
  <2>3. {turn} \cup others \subseteq all
    BY <1>1, <1>2 DEF others, all
  <2>4. CASE server' = [Turns!Close(turn, ok) EXCEPT !.unheard = @ \cup others]
    <3>1. /\ server'.turns = [server.turns EXCEPT ![turn] = Turns!Outcome(ok)]
          /\ server'.untold = server.untold /\ server'.displaced = server.displaced
          /\ server'.unheard = server.unheard \cup others
          /\ server' = [turns |-> server'.turns, untold |-> server.untold,
                        displaced |-> server.displaced, unheard |-> server'.unheard]
      BY <2>4 DEF Turns!Close, Turns!TypeOK
    <3>2. Turns!Outcome(ok) \in {"cancelled", "failed"}
      BY DEF Turns!Outcome
    <3>3. server'.turns \in [Calls \cup {Caller} -> {"none", "active", "cancelled", "failed"}]
      BY <3>1, <3>2, TurnsTyped
    <3>4. server'.unheard \in SUBSET Calls
      BY <1>5, <3>1 DEF Turns!TypeOK
    <3>5. TurnsShape'
      BY <3>1, <3>3, <3>4 DEF Turns!TypeOK, TurnsShape
    <3>6. ClosesHeld({turn}, others)
      BY <3>1, TurnsTyped DEF ClosesHeld, AddsLost
    <3>7. TurnsInv'
      BY <1>1, <1>3, <1>5, <2>1, <2>2, <3>6, ClosesHeldKeeps
    <3> QED
      BY <2>1, <3>5, <3>7 DEF TurnsGood
  <2>5. CASE server' = [server EXCEPT !.unheard = @ \cup all]
    <3>1. TurnsShape' /\ server'.turns = server.turns /\ AddsLost({}, {}, all)
      BY <1>5, <2>5 DEF Turns!TypeOK, TurnsShape, AddsLost
    <3>2. ClosesHeld({}, all)
      BY <3>1 DEF ClosesHeld
    <3>3. TurnsInv'
      BY <1>1, <1>5, <2>1, <2>2, <2>3, <3>2, ClosesHeldKeeps
    <3> QED
      BY <2>1, <3>1, <3>3 DEF TurnsGood
  <2> QED
    BY <1>7, <2>4, <2>5
<1> QED
  BY <1>2, <1>6, <1>7 DEF Turns!FinishOne, others, all

\* A step of a call or of a scope keeps what is known of the turns (lifecycle.py, config.py).
LEMMA TurnsStep ==
  ASSUME Turns!TypeOK, TurnsInv, Turns!Next
  PROVE  Turns!TypeOK' /\ TurnsInv'
<1>1. ASSUME NEW c \in Calls, Turns!Call(c) PROVE TurnsGood
  BY <1>1, BeginStep, SendBareStep, JoinStep, StartedStep, StartedUntoldStep, SentStep, FinishStep
     DEF Turns!Call
<1>2. TurnsGood
  BY <1>1, EndBlockStep, FinishOneStep, EndScopeStep DEF Turns!Next
<1> QED
  BY <1>2 DEF TurnsGood, BlockShape, TurnsShape, CallShape, Turns!TypeOK

\* A block begins without turns but the caller's.
LEMMA TurnsInit ==
  ASSUME Turns!Init
  PROVE  Turns!TypeOK /\ TurnsInv
<1>1. PICK traced \in BOOLEAN, owned \in BOOLEAN, shared \in BOOLEAN :
    /\ client = [command |-> "turns", traced |-> traced, owned |-> owned, shared |-> shared,
                 scope |-> IF traced THEN "open" ELSE "none", ending |-> "none",
                 registry |-> [k \in Kns |-> None],
                 calls |-> [c \in Calls |-> [at |-> "idle", kn |-> None, kind |-> "read",
                                             turn |-> None, answered |-> FALSE]]]
    /\ server = [turns |-> [x \in Calls \cup {Caller} |-> IF x = Caller THEN "active" ELSE "none"],
                 untold |-> {}, displaced |-> {}, unheard |-> {}]
  BY DEF Turns!Init
<1>2. [at |-> "idle", kn |-> None, kind |-> "read", turn |-> None, answered |-> FALSE] \in CallShape
  BY DEF CallShape, Turns!Stages, Turns!Kinds
<1>3. client.calls \in [Calls -> CallShape]
  BY <1>1, <1>2
<1>4. client.registry \in [Kns -> Calls \cup {Caller, None}]
  BY <1>1
<1>5. server.turns \in [Calls \cup {Caller} -> {"none", "active", "cancelled", "failed"}]
  BY <1>1
<1>6. BlockShape
  BY <1>1, <1>3, <1>4 DEF BlockShape
<1>7. TurnsShape
  BY <1>1, <1>5 DEF TurnsShape
<1>8. \A c \in Calls : Turns!At(c) = "idle" /\ Idle(c) /\ server.turns[c] = "none"
  BY <1>1, TurnsConstants DEF Turns!At, Idle
<1>9. \A k \in Kns : client.registry[k] = None
  BY <1>1
<1>10. client.traced <=> client.scope # "none"
  BY <1>1
<1>11. client.scope \in {"open", "none"} /\ server.displaced = {} /\ server.turns[Caller] = "active"
  BY <1>1
<1>12. StagesInv
  BY <1>8, <1>10, <1>11 DEF StagesInv, Closed
<1>13. RegistryInv
  BY <1>9, TurnsConstants DEF RegistryInv
<1>14. AloneInv
  BY <1>8, <1>11 DEF AloneInv
<1>15. OpenInv
  BY <1>8 DEF OpenInv
<1>16. OutcomesInv
  BY <1>8, <1>11 DEF OutcomesInv, Turns!OutcomesTold, Closed
<1> QED
  BY <1>6, <1>7, <1>12, <1>13, <1>14, <1>15, <1>16
     DEF TurnsInv, BlockShape, TurnsShape, CallShape, Turns!TypeOK

\* What is known of the turns is what is promised (finish, _finish_interactions).
LEMMA TurnsKept ==
  ASSUME Turns!TypeOK, TurnsInv
  PROVE  Turns!TurnsAreFinished
<1>1. server.turns[Caller] = "active" /\ Turns!OutcomesTold
  BY TurnsParts DEF OutcomesInv
<1>2. Turns!NothingLeftOpen
  <2> SUFFICES ASSUME Turns!Ended, NEW c \in Calls, server.turns[c] = "active",
                      c \notin server.untold \cup server.unheard
               PROVE  client.shared /\ c \in server.displaced
    BY DEF Turns!NothingLeftOpen
  <2>1. client.scope \notin {"open", "closing"} /\ Turns!At(c) \notin {"send", "finish"}
    BY DEF Turns!Ended, Turns!Over
  <2>2. c \in server.displaced
    BY <2>1, TurnsParts DEF OpenInv
  <2> QED
    BY <2>2, TurnsParts DEF AloneInv
<1> QED
  BY <1>1, <1>2 DEF Turns!TurnsAreFinished

----------------------------------------------------------------------------
\* The programs together.

\* A state has the shapes of one program only.
LEMMA OfOneProgram ==
  /\ Creation!TypeOK => Is("create")
  /\ Push!TypeOK => Is("push")
  /\ Edit!TypeOK => Is("edit")
  /\ Build!TypeOK => Is("build")
  /\ Login!TypeOK => Is("login")
  /\ Sessions!TypeOK => Is("tokens")
  /\ Turns!TypeOK => Is("turns")
<1>1. Creation!TypeOK => Is("create")
  BY DEF Creation!TypeOK, Is
<1>2. Push!TypeOK => Is("push")
  BY DEF Push!TypeOK, Is
<1>3. Edit!TypeOK => Is("edit")
  BY DEF Edit!TypeOK, Is
<1>4. Build!TypeOK => Is("build")
  BY DEF Build!TypeOK, Is
<1>5. Login!TypeOK => Is("login")
  BY DEF Login!TypeOK, Is
<1>6. Sessions!TypeOK => Is("tokens")
  BY DEF Sessions!TypeOK, Is
<1>7. Turns!TypeOK => Is("turns")
  BY DEF Turns!TypeOK, Is
<1> QED
  BY <1>1, <1>2, <1>3, <1>4, <1>5, <1>6, <1>7

\* The inductive invariant: the state has the shapes and the invariant of one program.
Inv ==
  \/ Creation!TypeOK /\ CreationInv
  \/ Push!TypeOK /\ PushInv
  \/ Edit!TypeOK /\ EditInv
  \/ Build!TypeOK /\ BuildInv
  \/ Login!TypeOK /\ LoginInv
  \/ Sessions!TypeOK /\ TokensInv
  \/ Turns!TypeOK /\ TurnsInv

\* It holds at the start of each program.
LEMMA InvInit == ASSUME Init PROVE Inv
BY CreationInit, PushInit, EditInit, BuildInit, LoginInit, TokensInit, TurnsInit DEF Init, Inv

\* A step is one of the program that runs.
LEMMA InvNext == ASSUME Inv, Next PROVE Inv'
<1>1. CASE Is("create") /\ Creation!Next
  <2>1. Creation!TypeOK /\ CreationInv
    BY <1>1, OfOneProgram DEF Inv, Is
  <2> QED
    BY <1>1, <2>1, CreationTyped, CreationStep DEF Inv
<1>2. CASE Is("push") /\ Push!Next
  <2>1. Push!TypeOK /\ PushInv
    BY <1>2, OfOneProgram DEF Inv, Is
  <2> QED
    BY <1>2, <2>1, PushTyped, PushStep DEF Inv
<1>3. CASE Is("edit") /\ Edit!Next
  <2>1. Edit!TypeOK /\ EditInv
    BY <1>3, OfOneProgram DEF Inv, Is
  <2> QED
    BY <1>3, <2>1, EditStep DEF Inv
<1>4. CASE Is("build") /\ Build!Next
  <2>1. Build!TypeOK /\ BuildInv
    BY <1>4, OfOneProgram DEF Inv, Is
  <2> QED
    BY <1>4, <2>1, BuildTyped, BuildStep DEF Inv
<1>5. CASE Is("login") /\ Login!Next
  <2>1. Login!TypeOK /\ LoginInv
    BY <1>5, OfOneProgram DEF Inv, Is
  <2> QED
    BY <1>5, <2>1, LoginTyped, LoginStep DEF Inv
<1>6. CASE Is("tokens") /\ Sessions!Next
  <2>1. Sessions!TypeOK /\ TokensInv
    BY <1>6, OfOneProgram DEF Inv, Is
  <2> QED
    BY <1>6, <2>1, TokensStep DEF Inv
<1>7. CASE Is("turns") /\ Turns!Next
  <2>1. Turns!TypeOK /\ TurnsInv
    BY <1>7, OfOneProgram DEF Inv, Is
  <2> QED
    BY <1>7, <2>1, TurnsStep DEF Inv
<1> QED
  BY <1>1, <1>2, <1>3, <1>4, <1>5, <1>6, <1>7 DEF Next

\* Nothing is lost while nothing happens.
LEMMA InvStays == ASSUME Inv, UNCHANGED vars PROVE Inv'
<1> SUFFICES ASSUME client' = client, server' = server PROVE Inv'
  BY DEF vars
<1>1. CASE Creation!TypeOK /\ CreationInv
  BY <1>1 DEF Inv, Ahead, Creation!LeftBehindIsTold, Creation!ObjectTypes, Creation!TypeOK,
     CreationInv, Listed
<1>2. CASE Push!TypeOK /\ PushInv
  BY <1>2 DEF Inv, Push!TypeOK, PushInv, ReadIs
<1>3. CASE Edit!TypeOK /\ EditInv
  BY <1>3 DEF Inv, Edit!TypeOK, EditInv, OnlyUpdatesRead
<1>4. CASE Build!TypeOK /\ BuildInv
  BY <1>4 DEF Inv, Build!ExitTellsBuild, Build!TypeOK, BuildInv
<1>5. CASE Login!TypeOK /\ LoginInv
  BY <1>5 DEF Inv, Login!ApprovalIsSeen, Login!TypeOK, LoginInv
<1>6. CASE Sessions!TypeOK /\ TokensInv
  BY <1>6 DEF Inv, AppInv, GrantsInv, Holding, Sessions!At, Sessions!Quiet, Sessions!Read,
     Sessions!TypeOK, StoreInv, TokensInv
<1>7. CASE Turns!TypeOK /\ TurnsInv
  <2>1. \A c : /\ Turns!At(c)' = Turns!At(c) /\ Turns!Kn(c)' = Turns!Kn(c)
              /\ Turns!Turn(c)' = Turns!Turn(c) /\ Idle(c)' = Idle(c)
              /\ Turns!Over(c)' = Turns!Over(c)
    BY DEF Turns!At, Turns!Kn, Turns!Turn, Turns!Over, Idle
  <2>2. Turns!TypeOK'
    BY <1>7 DEF Turns!TypeOK
  <2>3. StagesInv' /\ RegistryInv'
    BY <1>7, <2>1 DEF TurnsInv, StagesInv, RegistryInv, Turns!At, Turns!Kn
  <2>4. AloneInv'
    BY <1>7, <2>1 DEF TurnsInv, AloneInv, Idle, Turns!At, Turns!Kn
  <2>5. OpenInv'
    BY <1>7 DEF TurnsInv, OpenInv, Turns!At, Turns!Kn, Turns!Turn
  <2>6. OutcomesInv'
    BY <1>7 DEF TurnsInv, OutcomesInv, Turns!OutcomesTold, Turns!Answered
  <2> QED
    BY <2>2, <2>3, <2>4, <2>5, <2>6 DEF Inv, TurnsInv
<1> QED
  BY <1>1, <1>2, <1>3, <1>4, <1>5, <1>6, <1>7 DEF Inv

----------------------------------------------------------------------------
\* The theorems.

\* The inductive invariant holds of every program.
THEOREM InvHolds == Spec => []Inv
<1>1. Init => Inv
  BY InvInit
<1>2. Inv /\ [Next]_vars => Inv'
  BY InvNext, InvStays
<1> QED
  BY <1>1, <1>2, PTL DEF Spec

\* The state of every program has the shapes of its module: the records of the commands
\* and of the Python client, and what the platform holds.
THEOREM TypeCorrect == Spec => []TypeOK
<1>1. Inv => TypeOK
  BY DEF Inv, TypeOK
<1> QED
  BY <1>1, InvHolds, PTL

\* A create-from-catalog that fails after its network was created says so, unless its
\* deletion was answered (PartialKnMarked, rollback).
THEOREM FailedCreationIsTold == Spec => []LeftBehindIsTold
<1>1. Inv => LeftBehindIsTold
  BY OfOneProgram DEF Inv, Is, CreationInv, LeftBehindIsTold
<1> QED
  BY <1>1, InvHolds, PTL

\* A create-from-catalog that succeeds has an object type for every table its catalog kept
\* while it was listed, however the listing changed and at any page size (listTables).
THEOREM ListingMissesNone == Spec => []NoTableMissed
<1>1. Inv => NoTableMissed
  BY OfOneProgram, TypesOfAll DEF Inv, Is, NoTableMissed
<1> QED
  BY <1>1, InvHolds, PTL

\* A push that did not warn lost no binding and no index, as long as nobody else edits the
\* network (lostIndexWarnings).
THEOREM PushIsNotSilent == Spec => []SilentPushKeeps
<1>1. Inv => SilentPushKeeps
  BY OfOneProgram, PushKeeps DEF Inv, Is, SilentPushKeeps
<1> QED
  BY <1>1, InvHolds, PTL

\* A command that waited for a build exits 0 only if the build completed, and gives up only
\* when its time is over, at any interval and any limit (waitAndReport, waitForBuildTask).
THEOREM WaitTellsBuild == Spec => []ExitTellsBuild
<1>1. Inv => ExitTellsBuild
  BY OfOneProgram DEF Inv, Is, BuildInv, ExitTellsBuild
<1> QED
  BY <1>1, InvHolds, PTL

\* A device login does not time out on a user who approved in time, however often it was
\* told to slow down (pollDeviceToken).
THEOREM PollSeesApproval == Spec => []ApprovalIsSeen
<1>1. Inv => ApprovalIsSeen
  BY OfOneProgram DEF Inv, Is, LoginInv, ApprovalIsSeen
<1> QED
  BY <1>1, InvHolds, PTL

\* Any number of threads of an app renew its tokens and spend none twice, as long as no
\* answer is lost (TokenHolder).
THEOREM HolderDoesNotReplay == Spec => []AppNoReplay
<1>1. Inv => AppNoReplay
  BY OfOneProgram, TokensKept DEF Inv, Is, AppNoReplay
<1> QED
  BY <1>1, InvHolds, PTL

\* What any number of threads and the CLI leave in the store is the last refresh token
\* issued, not dated by another (write_refreshed_token).
THEOREM StoreKeepsLast == Spec => []KeptIsCurrent
<1>1. Inv => KeptIsCurrent
  BY OfOneProgram, TokensKept DEF Inv, Is, KeptIsCurrent
<1> QED
  BY <1>1, InvHolds, PTL

\* The turns that any number of calls open are finished, as they went, and no others
\* (finish, _finish_interactions).
THEOREM TurnsEnd == Spec => []TurnsAreFinished
<1>1. Inv => TurnsAreFinished
  BY OfOneProgram, TurnsKept DEF Inv, Is, TurnsAreFinished
<1> QED
  BY <1>1, InvHolds, PTL

\* The entity that an update replaces is the one it read, so that a step changes the field
\* it was asked to change alone, for any number of editors (updateResource, updateCatalog).
THEOREM UpdateChangesItsOwn == Spec => EditChangesItsOwn
<1>1. Inv /\ [Next]_vars => [Is("edit") => Edit!EditChangesOwn]_vars
  <2> SUFFICES ASSUME Inv, Next, Is("edit") PROVE Edit!EditChangesOwn
    OBVIOUS
  <2>1. Edit!TypeOK /\ EditInv
    BY OfOneProgram DEF Inv, Is
  <2>2. Edit!Next
    BY DEF Next, Is
  <2> QED
    BY <2>1, <2>2, EditChanges
<1> QED
  BY <1>1, InvHolds, PTL DEF Spec, EditChangesItsOwn
=============================================================================
