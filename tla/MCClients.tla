-------------------------------- MODULE MCClients --------------------------------
(***************************************************************************)
(* A catalog of three tables, two of them of the same name in two schemas, *)
(* is read two at a time; one change meanwhile.  A network has two object  *)
(* types and two sources, and one edit meanwhile.  Three editors share an  *)
(* entity of two fields.  Builds wait 0 (without a limit), 2 or 3 ticks of *)
(* a clock, polling every 2; sign-ins wait 0, 2, 3 or 5 ticks for a code   *)
(* that lives 4.  Two threads of the Python client and two commands of the *)
(* CLI share three grants; three calls of a block read two networks.       *)
(***************************************************************************)
EXTENDS Clients, TLC

CONSTANTS doc1, doc2, page, type1, type2, source1, source2, editor1, editor2, editor3,
  thread1, thread2, call1, call2, call3, kn1, kn2

MCCommands == {"create", "push", "edit", "build", "login"}
MCPythonPrograms == {"tokens", "turns"}

\* Two tables have one bare name; a typed name may be schema-qualified or not.
MCResources == {doc1, doc2, page}
MCBareName == ("s1.doc" :> "doc") @@ ("s2.doc" :> "doc") @@ ("s1.page" :> "page")
              @@ ("page" :> "page") @@ ("doc" :> "doc") @@ ("typo" :> "typo")
MCNameOf == (doc1 :> "s1.doc") @@ (doc2 :> "s2.doc") @@ (page :> "s1.page")
MCKeyOf == (doc1 :> "declared") @@ (doc2 :> "composite") @@ (page :> "sampled")
Line(tables, missing, absent, pkMap, keep) ==
  [tables |-> tables, missing |-> missing, absent |-> absent, pkMap |-> pkMap, noRollback |-> keep]
MCLines ==
  {Line({}, "error", {}, {"s2.doc"}, FALSE), Line({}, "error", {}, {"s2.doc"}, TRUE),
   Line({}, "error", {}, {"doc"}, FALSE), Line({"s1.doc", "page"}, "error", {}, {}, FALSE),
   Line({"page", "typo"}, "error", {}, {}, FALSE), Line({"page", "typo"}, "skip", {}, {"typo"}, FALSE),
   Line({"page", "typo"}, "error", {"typo"}, {"s1.page", "page"}, FALSE)}
MCListings == {<<>>, <<doc1, page>>, <<doc1, doc2, page>>}

MCTypes == {type1, type2}
MCSources == {source1, source2}
Definition(source, indexed) == [source |-> source, indexed |-> indexed]
MCNetworks ==
  [MCTypes -> {None, Definition(source1, TRUE), Definition(source1, FALSE), Definition(None, TRUE),
               Definition(None, FALSE)}]
MCImports ==
  {f \in [MCTypes -> {None, Definition(source1, TRUE), Definition(source1, FALSE),
                      Definition(source2, TRUE), Definition(None, TRUE), Definition(None, FALSE)}] :
     f[type2] \in {None, Definition(source1, TRUE)}}

MCEditors == {editor1, editor2, editor3}
MCThreads == {thread1, thread2}
MCCalls == {call1, call2, call3}
MCKns == {kn1, kn2}
=============================================================================
