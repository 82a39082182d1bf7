------------------------------ MODULE ResourceEdit ------------------------------
(***************************************************************************)
(* Editing one resource or catalog of Vega at the same time:               *)
(* updateResource (src/api/resources.ts) and updateCatalog (src/api/vega.ts)*)
(* read it, lay a change over what they read and replace the whole with an *)
(* optimistic lock; enabling and disabling are requests of their own.      *)
(*                                                                         *)
(* A value is told apart by the editor that gave it.  A write is sent once *)
(* and may lose its answer.                                                *)
(***************************************************************************)
EXTENDS Naturals, FiniteSets

CONSTANTS
  Editors,
  Fields,   \* the fields an update may name
  Original, \* the value of a field before any edit
  None      \* undefined

\* What is assumed of the constants.
EditAssumption == Original \notin Editors /\ None \notin Nat \cup Editors

VARIABLES client, server
vars == <<client, server>>

Kinds == {"resource", "catalog"}
\* An update names one field, and the update_time its user knows or None.
Commands == [does : {"update"}, field : Fields, known : {1, None}]
            \cup [does : {"enable", "disable"}, field : {"enabled"}, known : {None}]
Entities == [values : [Fields -> Editors \cup {Original}], enabled : BOOLEAN,
             update_time : Nat \cup {None}]

Init ==
  \E kind \in Kinds, line \in [Editors -> Commands], timed \in BOOLEAN, on \in BOOLEAN :
    LET entity == [values |-> [f \in Fields |-> Original], enabled |-> on,
                   update_time |-> IF timed THEN 1 ELSE None]
    IN  /\ server = [entity |-> entity, by |-> None]
        /\ client = [command |-> "edit", kind |-> kind, line |-> line,
                     at |-> [e \in Editors |-> "start"], current |-> [e \in Editors |-> entity]]

Go(e, at) == client' = [client EXCEPT !.at[e] = at]

\* getCatalog, getResource: an update reads what it will write back.  A catalog is not
\* replaced without an update_time to lock on; a resource is.
Read(e) ==
  /\ client.at[e] = "start" /\ client.line[e].does = "update"
  /\ LET at == IF client.kind = "catalog" /\ server.entity.update_time = None
                  /\ client.line[e].known = None
               THEN "threw" ELSE "read"
     IN  client' = [client EXCEPT !.at[e] = at, !.current[e] = server.entity]
  /\ UNCHANGED server

ReadFails(e) ==
  /\ client.at[e] = "start" /\ client.line[e].does = "update"
  /\ Go(e, "threw")
  /\ UNCHANGED server

\* Mutant of Expected: the lock is only the one its user gave.
ExpectedAsGiven(e) == client.line[e].known

\* expected_update_time: the user's, else the one that was read.
Expected(e) ==
  IF client.line[e].known # None THEN client.line[e].known ELSE client.current[e].update_time

\* resourceUpdateBody: everything that was read, and the field laid over it.
Body(e) == [client.current[e] EXCEPT !.values[client.line[e].field] = e]

Bumped(t) == IF t = None THEN None ELSE t + 1
Write(e, entity) ==
  server' = [entity |-> [entity EXCEPT !.update_time = Bumped(server.entity.update_time)], by |-> e]

\* The platform replaces the entity if it is the one the lock names; a catalog's state is
\* not changed by a replacement (UpdateCatalogRequest).
Accepts(e) ==
  /\ Expected(e) \in {None, server.entity.update_time}
  /\ client.kind = "catalog" => client.current[e].enabled = server.entity.enabled

Replace(e) ==
  /\ client.at[e] = "read" /\ Accepts(e)
  /\ Write(e, Body(e))
  /\ \/ Go(e, "returned")
     \/ Go(e, "threw")   \* the answer is lost

ReplaceRefused(e) ==
  /\ client.at[e] = "read"
  /\ Go(e, "threw")
  /\ UNCHANGED server

\* enableResource, disableResource, enableCatalog, disableCatalog.
Switch(e) ==
  /\ client.at[e] = "start" /\ client.line[e].does \in {"enable", "disable"}
  /\ Write(e, [server.entity EXCEPT !.enabled = client.line[e].does = "enable"])
  /\ \/ Go(e, "returned")
     \/ Go(e, "threw")

Step(e) == Read(e) \/ ReadFails(e) \/ Replace(e) \/ ReplaceRefused(e) \/ Switch(e)
Next == \E e \in Editors : Step(e)
Fairness == \A e \in Editors : WF_vars(Step(e))
Spec == Init /\ [][Next]_vars /\ Fairness

----------------------------------------------------------------------------
\* Properties.

\* The state of the editors and of the entity has the shapes of updateResource.
TypeOK ==
  /\ client \in
       [command : {"edit"}, kind : Kinds, line : [Editors -> Commands],
        at : [Editors -> {"start", "read", "returned", "threw"}], current : [Editors -> Entities]]
  /\ server \in [entity : Entities, by : Editors \cup {None}]

\* An edit changes what it was asked to change and nothing that others changed since it
\* read the entity (updateResource, updateCatalog).  A resource that carries no
\* update_time is replaced without a lock and is not covered.
EditChangesOwn ==
  server.entity.update_time # None =>
    /\ \A f \in Fields : server.entity.values[f] # server'.entity.values[f] =>
                           client.line[server'.by].field = f
    /\ server.entity.enabled # server'.entity.enabled =>
         client.line[server'.by].field = "enabled"
EditChangesItsOwn == [][EditChangesOwn]_vars
=============================================================================
