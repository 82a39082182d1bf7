------------------------------ MODULE NetworkPush ------------------------------
(***************************************************************************)
(* Uploading a directory as a knowledge network and telling what the upload*)
(* lost: push in src/resources/knowledge-networks.ts with                  *)
(* src/utils/push-integrity.ts, the command `bkn push`.                    *)
(*                                                                         *)
(* The object types are read before and after the upload, the list first   *)
(* and then each type, while others may edit or delete them.  What can be  *)
(* lost of a type is its binding to a data source and the operators its    *)
(* index answers (one here).                                               *)
(***************************************************************************)
EXTENDS Naturals, FiniteSets

CONSTANTS
  Types,     \* the object types
  Sources,   \* the data sources a type may be bound to
  Unbound,   \* no binding
  Gone,      \* there is no such type
  Networks,  \* what the network may hold before
  Imports,   \* what an import may make of it
  MaxEdits   \* how often others change a type meanwhile

VARIABLES client, server
vars == <<client, server>>

Definitions == [source : Sources \cup {Unbound}, indexed : BOOLEAN]
Schemas == [Types -> Definitions \cup {Gone}]
Nothing == [t \in Types |-> Gone]
There(schema) == {t \in Types : schema[t] # Gone}

\* What is assumed of the constants.
PushAssumption ==
  /\ Unbound \notin Sources /\ MaxEdits \in Nat
  /\ Networks \subseteq Schemas /\ Imports \subseteq Schemas
  /\ Gone \notin [source : Sources \cup {Unbound}, indexed : BOOLEAN]

\* A directory is valid and has been packed; an upload answers or fails.
Init ==
  \E policy \in {"preserve", "detach"}, exists \in BOOLEAN, schema \in Networks :
    /\ exists \/ schema = Nothing
    /\ server = [exists |-> exists, schema |-> schema, edits |-> 0]
    /\ client = [command |-> "push", policy |-> policy, at |-> "list", round |-> "before",
                 toRead |-> {}, seen |-> Nothing, before |-> Nothing, compared |-> FALSE,
                 warned |-> FALSE, had |-> schema]

Go(at) == client' = [client EXCEPT !.at = at]
Throw == Go("threw")

----------------------------------------------------------------------------
\* Reading the object types: listObjectTypesWithDetails, snapshotObjectTypes.

\* A read before the upload that is refused with 401 or 403, or answers nothing to compare
\* with, is warned about, and the upload goes on; any other failure ends the push.  After
\* the upload every failure is warned about.
Unread ==
  client' = [client EXCEPT !.warned = TRUE, !.at = IF client.round = "before" THEN "upload"
                                                   ELSE "returned"]
ReadFails ==
  /\ client.at \in {"list", "details"}
  /\ Unread \/ (client.round = "before" /\ Throw)
  /\ UNCHANGED server

\* lostIndexWarnings for one type.
Lost(earlier, later, policy) ==
  IF later = Gone THEN earlier.source # Unbound \/ earlier.indexed
  ELSE /\ ~(policy = "detach" /\ earlier.source # Unbound /\ later.source = Unbound)
       /\ \/ earlier.source # Unbound /\ later.source # earlier.source
          \/ earlier.indexed /\ ~later.indexed

\* Mutant of Losses: only types that are still there are compared.
LossesOfKept(before, after, policy) ==
  {t \in There(before) \cap There(after) : Lost(before[t], after[t], policy)}

\* lostIndexWarnings: only what was there before can be lost.
Losses(before, after, policy) == {t \in There(before) : Lost(before[t], after[t], policy)}

\* What a snapshot is used for, when the last type has been read.
Snapshot(seen) ==
  IF client.round = "before"
  THEN client' = [client EXCEPT !.at = "upload", !.before = seen, !.compared = TRUE]
  ELSE client' = [client EXCEPT !.at = "returned",
                    !.warned = @ \/ Losses(client.before, seen, client.policy) # {}]

\* A network that is not there is new: it has nothing to lose, nothing is compared.
List ==
  /\ client.at = "list"
  /\ CASE ~server.exists /\ client.round = "before" -> Go("upload")
       [] ~server.exists /\ client.round = "after" -> Unread
       [] There(server.schema) = {} -> Snapshot(Nothing)
       [] OTHER -> client' = [client EXCEPT !.at = "details", !.toRead = There(server.schema),
                                            !.seen = Nothing]
  /\ UNCHANGED server

\* The workers read the details in no order; a type deleted since the listing is left out.
ReadDetail(t) ==
  /\ client.at = "details" /\ t \in client.toRead
  /\ LET seen == [client.seen EXCEPT ![t] = server.schema[t]]
     IN  IF client.toRead = {t} THEN Snapshot(seen)
         ELSE client' = [client EXCEPT !.toRead = @ \ {t}, !.seen = seen]
  /\ UNCHANGED server

----------------------------------------------------------------------------
\* uploadBkn: what an import makes of the types is the platform's.

\* Without a snapshot the push is over.
Uploaded ==
  IF client.compared THEN client' = [client EXCEPT !.at = "list", !.round = "after"]
  ELSE Go("returned")

Upload ==
  /\ client.at = "upload"
  /\ Uploaded
  /\ \E schema \in Imports : server' = [server EXCEPT !.exists = TRUE, !.schema = schema]

UploadLost ==
  /\ client.at = "upload"
  /\ Throw
  /\ \E schema \in Imports : server' = [server EXCEPT !.exists = TRUE, !.schema = schema]

UploadRefused == client.at = "upload" /\ Throw /\ UNCHANGED server

Request == List \/ (\E t \in Types : ReadDetail(t)) \/ Upload \/ UploadLost \/ UploadRefused

\* Another user edits or deletes a type.
Edit(t) ==
  /\ client.at \notin {"returned", "threw"} /\ server.edits < MaxEdits /\ server.exists
  /\ \E d \in Definitions \cup {Gone} :
       server' = [server EXCEPT !.schema[t] = d, !.edits = @ + 1]
  /\ UNCHANGED client

\* Or removes the network.
Removed ==
  /\ client.at \notin {"returned", "threw"} /\ server.edits < MaxEdits /\ server.exists
  /\ server' = [exists |-> FALSE, schema |-> Nothing, edits |-> server.edits + 1]
  /\ UNCHANGED client

Next == Request \/ ReadFails \/ (\E t \in Types : Edit(t)) \/ Removed

Fairness == WF_vars(Request)
Spec == Init /\ [][Next]_vars /\ Fairness

----------------------------------------------------------------------------
\* Properties.

\* The state of a push and of the network has the shapes of push and lostIndexWarnings.
TypeOK ==
  /\ client \in
       [command : {"push"}, policy : {"preserve", "detach"},
        at : {"list", "details", "upload", "returned", "threw"}, round : {"before", "after"},
        toRead : SUBSET Types, seen : Schemas, before : Schemas, compared : BOOLEAN,
        warned : BOOLEAN, had : Schemas]
  /\ server \in [exists : BOOLEAN, schema : Schemas, edits : 0..MaxEdits]

\* A push that ends without a warning lost nothing of the network it replaced: each type
\* kept its binding and its index, unless it was asked to drop bindings and dropped one
\* (push with verifyIntegrity).  Others who edit the types meanwhile are not considered.
SilentPushKeeps ==
  (client.at = "returned" /\ ~client.warned /\ server.edits = 0) =>
    \A t \in There(client.had) :
      LET had == client.had[t]
          has == server.schema[t]
      IN  \/ has # Gone /\ (had.source # Unbound => has.source = had.source)
                        /\ (had.indexed => has.indexed)
          \/ has = Gone /\ had.source = Unbound /\ ~had.indexed
          \/ client.policy = "detach" /\ has # Gone /\ had.source # Unbound /\ has.source = Unbound

\* A push ends.
PushEnds == <>(client.at \in {"returned", "threw"})
=============================================================================
