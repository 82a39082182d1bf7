---------------------------- MODULE MCCommandRun ----------------------------
(***************************************************************************)
(* CommandRun over the commands of the CLI.                                 *)
(***************************************************************************)
EXTENDS CommandTable, CommandRun

CommandPaths == DOMAIN CommandPlans
PlansOf(c) == CommandPlans[c]
SectionOf(c) == CommandSection[c]

\* Calls of any path, method or tool; and the import of a receipt, which stores
\* a license but is sorted by its verb.
NamedByCaller == {<<"admin", "call">>, <<"context", "tool-call">>, <<"context", "call-method">>,
                  <<"admin", "license", "receipt">>}

\* push warns of the capabilities it could not bind and skill execute has
\* --exit-code; the others print what the answer says and succeed.
StatedInVain == {<<"bkn", "push">>, <<"skill", "execute">>, <<"tool", "upload">>,
                 <<"bkn", "object-metric", "trial">>, <<"bkn", "object-metric", "query">>,
                 <<"vega", "catalog", "test-connection">>,
                 <<"vega", "catalog", "test-connection-config">>}

\* toolCallFailed does not see that a run was cut off, nor that its body is a
\* failure; and call is a raw passthrough.
HiddenFrom == {<<kind, verb>> : kind \in {"tool", "function", "api"}, verb \in {"execute", "debug"}}
              \union {<<"call">>, <<"admin", "call">>}

NotJudged == StatedInVain \X {"stated"} \union HiddenFrom \X {"hidden"}
=============================================================================
