---------------------------- MODULE NetworkCreation ----------------------------
(***************************************************************************)
(* Building a knowledge network from the tables of a catalog:              *)
(* createFromCatalog in src/resources/bkn-create.ts, the command           *)
(* `bkn create-from-catalog`.                                              *)
(*                                                                         *)
(* The listing of a catalog is read in pages by offset, its tables in      *)
(* batches, while others discover and drop tables.  A network is then      *)
(* created, its object types after it, and a failure rolls it back.  Any   *)
(* request may fail; one that writes may arrive and lose its answer.       *)
(*                                                                         *)
(* A table is its resource.  What is told of its columns is how its key is *)
(* found: "declared", "sampled" from rows, "composite", or there is none.  *)
(***************************************************************************)
EXTENDS Naturals, FiniteSets, Sequences, SequencesExt

CONSTANTS
  Resources,   \* the tables a catalog may hold
  NameOf,      \* the name of each table
  BareName,    \* the name without its schema, in lower case, of every name
  KeyOf,       \* how the key of each table is found
  CommandLines,\* the options of the command, see Lines
  Listings,    \* what the catalog may list when the command starts
  PageSize,    \* RESOURCE_PAGE_SIZE
  BatchSize,   \* DETAIL_READ_BATCH
  MaxChanges   \* how many tables others add or drop meanwhile

VARIABLES client, server
vars == <<client, server>>

Names == DOMAIN BareName
Lines == [tables : SUBSET Names, missing : {"error", "skip"}, absent : SUBSET Names,
          pkMap : SUBSET Names, noRollback : BOOLEAN]

\* What is assumed of the constants.
CreationAssumption ==
  /\ PageSize \in Nat \ {0} /\ BatchSize \in Nat \ {0} /\ MaxChanges \in Nat
  /\ NameOf \in [Resources -> Names]
  /\ KeyOf \in [Resources -> {"declared", "sampled", "composite", "none"}]
  /\ CommandLines \subseteq Lines /\ Listings \subseteq Seq(Resources)

\* The platform: the listing of the catalog, the discovery task, and the network
\* that was created, with its object types.
NoNetwork == [there |-> FALSE, types |-> {}]

Init ==
  \E line \in CommandLines, listing \in Listings :
    /\ client = [command |-> "create", line |-> line, at |-> "list", tables |-> <<>>,
                 read |-> 0, scanned |-> FALSE, late |-> FALSE, targets |-> {},
                 answered |-> FALSE, told |-> FALSE, steady |-> ToSet(listing)]
    /\ server = [listing |-> listing, task |-> "none", changes |-> 0, network |-> NoNetwork]

Go(at) == client' = [client EXCEPT !.at = at]
Throw == Go("threw")

----------------------------------------------------------------------------
\* The names a user gives.

SameTable(a, b) == BareName[a] = BareName[b]

\* resolveTableKey: the places in a list of names a key stands for; it resolves when
\* there is one.  An exact hit wins.
Hits(names, key) ==
  LET exact == {i \in DOMAIN names : names[i] = key}
  IN  IF exact # {} THEN exact ELSE {i \in DOMAIN names : SameTable(names[i], key)}
Resolves(names, key) == Cardinality(Hits(names, key)) = 1
Unknown(names, key) == Hits(names, key) = {}

NamesAt(places) == [i \in places |-> NameOf[client.tables[i]]]
TableNames == NamesAt(DOMAIN client.tables)

\* What --tables selects, and the keys it may leave out.
Forgiven(key) == client.line.missing = "skip" \/ \E n \in client.line.absent : SameTable(n, key)
Missing == {key \in client.line.tables : Unknown(TableNames, key)}
SelectionStands ==
  \A key \in client.line.tables :
    \/ Resolves(TableNames, key)
    \/ Unknown(TableNames, key) /\ Forgiven(key)
Selected == {TableNames[i] : i \in UNION {Hits(TableNames, key) : key \in client.line.tables}}

\* The places of the tables that are turned into object types.
Targets ==
  {i \in DOMAIN client.tables : client.line.tables = {} \/ TableNames[i] \in Selected}

\* canonicalizeTableMap of --pk-map: a key is dropped only if it names a table that was
\* forgiven; two keys for one table are refused.
OverridesStand(targets) ==
  LET names == NamesAt(targets)
      skippable == Missing \cup client.line.absent
  IN  /\ \A key \in client.line.pkMap :
           \/ Resolves(names, key)
           \/ Unknown(names, key) /\ \E n \in skippable : SameTable(n, key)
      /\ \A a, b \in client.line.pkMap : (Hits(names, a) \cap Hits(names, b) # {}) => a = b
Overridden(i) == \E key \in client.line.pkMap : Hits(NamesAt(client.targets), key) = {i}

----------------------------------------------------------------------------
\* The requests of the command.  Reading has no effect on the platform.

\* The next n of what is left of a sequence after an offset.
Slice(s, offset, n) ==
  SubSeq(s, offset + 1, IF offset + n < Len(s) THEN offset + n ELSE Len(s))

\* Mutant of ListPage: the first page alone.
ListFirstPage ==
  /\ client.at = "list"
  /\ LET tables == Slice(server.listing, 0, PageSize)
     IN  client' = [client EXCEPT !.tables = tables, !.read = 0,
                                  !.at = IF tables = <<>> THEN "threw" ELSE "details"]
  /\ UNCHANGED server

\* listTables: a page at a time, until it is empty or the total is reached.
ListPage ==
  /\ client.at = "list"
  /\ LET offset == Len(client.tables)
         listed == Slice(server.listing, offset, PageSize)
         tables == client.tables \o listed
         done == listed = <<>> \/ Len(tables) >= Len(server.listing)
     IN  client' = [client EXCEPT
           !.tables = tables,
           !.at = CASE ~done -> "list"
                    [] done /\ tables # <<>> -> "details"
                    [] done /\ tables = <<>> /\ ~client.scanned -> "discover"
                    [] OTHER -> "threw"]
  /\ UNCHANGED server

\* discoverCatalogAndWait.
Discover ==
  /\ client.at = "discover"
  /\ client' = [client EXCEPT !.at = "poll", !.scanned = TRUE]
  /\ server' = [server EXCEPT !.task = "running"]

DiscoverLost ==
  /\ client.at = "discover"
  /\ Throw
  /\ server' = [server EXCEPT !.task = "running"]

\* Mutant of Overdue: the task is waited for for ever.
OverdueNever == FALSE

\* DISCOVER_TASK_TIMEOUT_MS is over.
Overdue == client.late

\* A task that is pending or running is asked for again until the deadline.
Poll ==
  /\ client.at = "poll"
  /\ CASE server.task = "completed" ->
            client' = [client EXCEPT !.at = "list", !.steady = ToSet(server.listing)]
       [] server.task = "failed" -> Throw
       [] OTHER -> Overdue /\ Throw
  /\ UNCHANGED server

Deadline ==
  /\ client.at = "poll" /\ ~client.late
  /\ client' = [client EXCEPT !.late = TRUE]
  /\ UNCHANGED server

\* readDetail for a batch of the tables: one that was dropped is answered 404.
ReadDetails ==
  /\ client.at = "details"
  /\ LET upTo == client.read + BatchSize
         batch == Slice(client.tables, client.read, BatchSize)
     IN  IF ToSet(batch) \subseteq ToSet(server.listing)
         THEN client' = [client EXCEPT !.read = upTo,
                           !.at = IF upTo >= Len(client.tables) THEN "select" ELSE "details"]
         ELSE Throw
  /\ UNCHANGED server

\* The reads of a catalog fail: what was asked is not answered.
ReadFails ==
  /\ client.at \in {"list", "discover", "poll", "details"}
  /\ Throw
  /\ UNCHANGED server

\* Everything a user can get wrong is refused before anything is written.
Select ==
  /\ client.at = "select"
  /\ IF SelectionStands /\ Targets # {} /\ OverridesStand(Targets)
     THEN client' = [client EXCEPT !.at = "keys", !.targets = Targets]
     ELSE Throw
  /\ UNCHANGED server

\* resolvePrimaryKey for each table: an override, the declared key, or a sample of rows,
\* which may be empty because its query failed (sampleRows).
KeyFound(i, sampled) ==
  LET kind == KeyOf[client.tables[i]]
  IN  \/ kind # "none" /\ Overridden(i)
      \/ kind = "declared"
      \/ kind = "sampled" /\ sampled
FindKeys ==
  /\ client.at = "keys"
  /\ \E sampled \in BOOLEAN :
       IF \A i \in client.targets : KeyFound(i, sampled) THEN Go("create") ELSE Throw
  /\ UNCHANGED server

\* createKnowledgeNetwork, outside of the try: what it throws is thrown as it is.
Create ==
  /\ client.at = "create"
  /\ client' = [client EXCEPT !.at = "types", !.answered = TRUE]
  /\ server' = [server EXCEPT !.network.there = TRUE]

CreateRefused == client.at = "create" /\ Throw /\ UNCHANGED server

CreateLost ==
  /\ client.at = "create"
  /\ Throw
  /\ server' = [server EXCEPT !.network.there = TRUE]

\* createObjectTypes: all of them or none, each bound to the resource its table was
\* listed from.
ObjectTypes == {client.tables[i] : i \in client.targets}
CreateTypes ==
  /\ client.at = "types"
  /\ Go("returned")
  /\ server' = [server EXCEPT !.network.types = ObjectTypes]

\* The catch: the network is kept, and the error says so, or it is deleted.
AfterFailure ==
  IF client.line.noRollback
  THEN client' = [client EXCEPT !.at = "threw", !.told = TRUE]
  ELSE Go("rollback")

TypesRefused == client.at = "types" /\ AfterFailure /\ UNCHANGED server

TypesLost ==
  /\ client.at = "types"
  /\ AfterFailure
  /\ server' = [server EXCEPT !.network.types = ObjectTypes]

\* What deleteKnowledgeNetwork may answer after the network was deleted, and without
\* that: a 404 and a text that is no JSON may come from a gateway in front of the service.
DeletedAnswers == {"answered", "404", "nonJson2xx", "lost"}
UndeletedAnswers == {"gateway404", "gateway2xx", "refused", "lost"}

\* Mutant of Gone: any 404 and any 2xx counts, a gateway's too.
GoneAnyhow(answer) == answer \in {"answered", "404", "nonJson2xx", "gateway404", "gateway2xx"}

\* gone: the answers after which the network is known not to be there.
Gone(answer) == answer \in {"answered", "404", "nonJson2xx"}

Told(answer) == client' = [client EXCEPT !.at = "threw", !.told = ~Gone(answer)]
Rollback ==
  /\ client.at = "rollback"
  /\ \/ /\ \E answer \in DeletedAnswers : Told(answer)
        /\ server' = [server EXCEPT !.network = NoNetwork]
     \/ /\ \E answer \in UndeletedAnswers : Told(answer)
        /\ UNCHANGED server

Request ==
  \/ ListPage \/ Discover \/ DiscoverLost \/ Poll \/ ReadDetails
  \/ Select \/ FindKeys \/ Create \/ CreateRefused \/ CreateLost
  \/ CreateTypes \/ TypesRefused \/ TypesLost \/ Rollback

----------------------------------------------------------------------------
\* The platform and its other users.

Running == client.at \notin {"returned", "threw"}

\* Discovery adds what it finds anywhere in the listing; it may end badly.
Scan ==
  /\ server.task = "running" /\ Running
  /\ \E status \in {"completed", "failed"}, found \in Listings \cup {server.listing} :
       /\ ToSet(server.listing) \subseteq ToSet(found)
       /\ server' = [server EXCEPT !.task = status, !.listing = found]
  /\ UNCHANGED client

TableAdded ==
  /\ Running /\ server.changes < MaxChanges
  /\ \E r \in Resources \ ToSet(server.listing), i \in 1..(Len(server.listing) + 1) :
       server' = [server EXCEPT !.listing = InsertAt(@, i, r), !.changes = @ + 1]
  /\ UNCHANGED client

\* A table that is dropped is no longer one that was there all along.
TableDropped ==
  /\ Running /\ server.changes < MaxChanges
  /\ \E i \in DOMAIN server.listing :
       server' = [server EXCEPT !.listing = RemoveAt(@, i), !.changes = @ + 1]
  /\ client' = [client EXCEPT !.steady = {}]

Next == Request \/ ReadFails \/ Deadline \/ Scan \/ TableAdded \/ TableDropped

\* The process goes on with its requests, which need not fail, and time passes.
Fairness == WF_vars(Request) /\ WF_vars(Deadline)
Spec == Init /\ [][Next]_vars /\ Fairness

----------------------------------------------------------------------------
\* Properties.

\* The state of the command and of the platform have the shapes of createFromCatalog.
TypeOK ==
  /\ client \in
       [command : {"create"}, line : Lines,
        at : {"list", "discover", "poll", "details", "select", "keys", "create", "types",
              "rollback", "returned", "threw"},
        tables : Seq(Resources), read : Nat, scanned : BOOLEAN, late : BOOLEAN,
        targets : SUBSET Nat, answered : BOOLEAN, told : BOOLEAN, steady : SUBSET Resources]
  /\ server \in
       [listing : Seq(Resources), task : {"none", "running", "completed", "failed"},
        changes : 0..MaxChanges, network : [there : BOOLEAN, types : SUBSET Resources]]

\* A command that failed after the creation of the network was answered leaves no network
\* behind without saying so (partialKnId, PartialKnMarked in src/resources/bkn-create.ts).
LeftBehindIsTold ==
  (client.at = "threw" /\ client.answered /\ server.network.there) => client.told

\* What the comment on PartialKnMarked says of every failure: without a partialKnId no
\* network was left.
PartialKnMarked ==
  (client.at = "threw" /\ server.network.there) => client.told

\* Without --tables, a command that succeeded put every table into the network that was
\* there from the listing on, whatever was added in between (listTables); and what is
\* returned is a network with its object types.
NoTableMissed ==
  client.at = "returned" =>
    /\ server.network.there /\ server.network.types # {}
    /\ client.line.tables = {} => client.steady \subseteq server.network.types

\* The command ends: nothing it waits for is waited for for ever (DISCOVER_TASK_TIMEOUT_MS).
CreationEnds == <>(client.at \in {"returned", "threw"})
=============================================================================
