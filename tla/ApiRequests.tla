---------------------------- MODULE ApiRequests ----------------------------
(***************************************************************************)
(* The requests behind the functions of src/api: for each function, the    *)
(* sequences of requests one call of it can send, in order.  A request is   *)
(* known by what it does to the platform, which is its method, unless the   *)
(* X-HTTP-Method-Override header says otherwise and but for the POSTs that  *)
(* read or run something.  Paths, bodies and answers are left out.          *)
(***************************************************************************)
EXTENDS Naturals, Sequences, TLC

\* A plan is a set of sequences of steps.  A step
\*   does     "reads", "acts" (runs something, or keeps a trace of a run),
\*            "changes" (what the platform is configured with), or "keeps"
\*            (writes a local file or the local store; sends nothing);
\*   quiet    is sent under withoutPreview;
\*   rescue   of a try block: how many steps its catch abandons, 0 outside;
\*   partial  the failures a successful answer may leave: "stated" when a field
\*            of the answer says that all or a part of it failed, "hidden" when
\*            the fields that are made for it do not;
\*   told     those of them that are looked at, for the exit code;
\*   live     is left out of a dry run by the code itself.
Step(effect) == [does |-> effect, quiet |-> FALSE, rescue |-> 0, partial |-> {}, told |-> {},
                 live |-> FALSE]

Reads == {<<Step("reads")>>}
Acts == {<<Step("acts")>>}
Changes == {<<Step("changes")>>}
Keeps == {<<Step("keeps")>>}
Nothing == {<<>>}

Having(p, field, value) == {[i \in DOMAIN s |-> [s[i] EXCEPT ![field] = value]] : s \in p}
With(p, field) == Having(p, field, TRUE)
Partly(p, reports) == Having(p, "partial", reports)
Judged(p, reports) == Having(p, "told", reports)

\* The steps of one try block: a failure abandons those that are left.
Tried(p) == {[i \in DOMAIN s |-> [s[i] EXCEPT !.rescue = Len(s) + 1 - i]] : s \in p}

Then(p, q) == {s \o t : s \in p, t \in q}
Maybe(p) == p \union {<<>>}
Many(p) == Maybe(p) \union Then(p, p)

\* The functions of a table go by their names, but for two that src/api has
\* twice: the listing of the tools in a box is listToolsOfBox, and the MCP
\* listing of resources listMcpResources.
Each(names, p) == [n \in names |-> p]

---------------------------------------------------------------------------
\* Keys of applications, and calls of any path.
AppKeys == Each({"listMyApiKeys", "listApiKeysAdmin"}, Reads)
        @@ Each({"createMyApiKey", "regenerateMyApiKey", "revokeMyApiKey", "revokeApiKeyAdmin"}, Changes)

\* rawCall hands every status to its caller, an HTTP error included, and the
\* body as it is: what a 2xx body says of a failure stays hidden.
RawCall == Each({"rawCall"}, Partly(Reads \union Acts \union Changes, {"stated", "hidden"}))

---------------------------------------------------------------------------
\* Knowledge networks: bkn-backend and ontology-query.
\* An upload binds the declared capabilities it can, and lists the others.
Packages == Each({"downloadBkn", "listBknResources", "runCypherQuery", "relationTypePaths"}, Reads)
         @@ Each({"uploadBkn"}, Partly(Changes, {"stated"}))

ConceptGroups == Each({"listConceptGroups", "getConceptGroup"}, Reads)
              @@ Each({"createConceptGroup", "updateConceptGroup", "deleteConceptGroup",
                       "addConceptGroupMembers", "removeConceptGroupMembers"}, Changes)

Capabilities == Each({"listCapabilities"}, Reads)
             @@ Each({"attachCapabilities", "detachCapabilities"}, Changes)

ActionSchedules == Each({"listActionSchedules", "getActionSchedule"}, Reads)
                @@ Each({"createActionSchedule", "updateActionSchedule", "setActionScheduleStatus",
                         "deleteActionSchedules"}, Changes)

Networks == Each({"listKnowledgeNetworks", "getKnowledgeNetwork"}, Reads)
         @@ Each({"createKnowledgeNetwork", "updateKnowledgeNetwork", "deleteKnowledgeNetwork"}, Changes)

Instances == Each({"querySubgraph", "queryObjectTypeInstances", "queryActionType"}, Reads)

ActionRuns == Each({"listActionLogs", "getActionLog", "getActionExecution"}, Reads)
           @@ Each({"cancelActionLog", "executeActionType"}, Acts)

SchemaTypes == Each({"listObjectTypes", "listRelationTypes", "listActionTypes", "getSchemaItem"}, Reads)
            @@ Each({"createObjectTypes", "createSchemaItem", "updateSchemaItem", "deleteSchemaItem"}, Changes)

\* An evaluation answers with a status that may be "partial" or "unavailable".
ObjectMetrics == Each({"listObjectMetrics", "getObjectMetric"}, Reads)
              @@ Each({"createObjectMetricDraft", "updateObjectMetricDraft", "deleteObjectMetricDraft"}, Changes)
              @@ Each({"validateObjectMetric", "trialObjectMetric", "queryObjectMetric"},
                      Partly(Acts, {"stated"}))

MetricVersions == Each({"listObjectMetricVersions"}, Reads)
               @@ Each({"createNextObjectMetricDraftVersion", "versionAction"}, Changes)

---------------------------------------------------------------------------
\* MCP.  A tool call is a POST of its own behind the two messages of the
\* handshake, which are sent without a preview while no session is cached.
Handshake == Maybe(With(Then(Reads, Reads), "quiet"))
McpReads == Then(Handshake, Reads)
McpAny == Then(Handshake, Reads \union Acts \union Changes)

\* Before a managed call the catalog is read, and a failure to read it is
\* caught: the deploy then counts as one of unknown capability.  What the
\* lifecycle sends besides is module LifecycleSession.
Probe == Maybe(Tried(Reads))
ToolReads == Then(Probe, McpReads)
ToolAny == Then(Probe, McpAny)

InstanceSearch == Each({"searchInstance"}, Then(Probe, Reads))

ContextTools == Each({"searchSchema", "getKnDetail", "getObjectTypes", "getRelationTypes",
                      "searchCapabilities", "queryObjectInstance", "queryInstanceSubgraph", "runCypher",
                      "getLogicProperties", "getActionInfo"}, ToolReads)
             @@ Each({"callTool"}, ToolAny)

McpMethods == Each({"listTools", "listMcpResources", "readResource", "listResourceTemplates",
                    "listPrompts", "getPrompt"}, McpReads)
           @@ Each({"callMethod"}, McpAny)

McpCatalog == Each({"mcpInfo"}, Reads)

McpServers == Each({"listMcpServers", "getMcpServer", "listMcpServerTools"}, Reads)

---------------------------------------------------------------------------
\* Data sources: vega.
BuildTasks == Each({"listBuildTasks", "getBuildTask"}, Reads)
           @@ Each({"createBuildTask", "startBuildTask", "stopBuildTask"}, Acts)
           @@ Each({"deleteBuildTasks"}, Changes)

Sql == Each({"runSql"}, Acts)

\* updateCatalog reads what it is about to replace.
Catalogs == Each({"listCatalogs", "getCatalog"}, Reads)
         @@ Each({"createCatalog", "enableCatalog", "disableCatalog"}, Changes)
         @@ Each({"updateCatalog"}, Then(Reads, Changes))

\* deleteCatalog asks for the impact of the deletion, or deletes.  A test of a
\* connection that failed is a success that says so.
CatalogHealth == Each({"deleteCatalog"}, Reads \union Changes)
              @@ Each({"testCatalogConnectionConfig", "testCatalogConnection"}, Partly(Acts, {"stated"}))
              @@ Each({"getCatalogHealthCheckSchedule", "listCatalogResources", "catalogHealthStatus",
                       "catalogConnectorTypeStats"}, Reads)
              @@ Each({"updateCatalogHealthCheckSchedule"}, Changes)

Connectors == Each({"listConnectorTypes", "getConnectorType", "getIndexCapabilities"}, Reads)

DiscoverSchedules == Each({"listDiscoverSchedules", "getDiscoverSchedule"}, Reads)
                  @@ Each({"createDiscoverSchedule", "updateDiscoverSchedule", "deleteDiscoverSchedule",
                           "enableDiscoverSchedule", "disableDiscoverSchedule"}, Changes)

DiscoverTasks == Each({"listDiscoverTasks", "getDiscoverTask"}, Reads)
              @@ Each({"discoverCatalog", "discoverResource"}, Acts)
              @@ Each({"deleteDiscoverTasks"}, Changes)

SemanticTasks == Each({"listSemanticUnderstandingTasks", "getSemanticUnderstandingTask"}, Reads)
              @@ Each({"createSemanticUnderstandingTask"}, Acts)
              @@ Each({"deleteSemanticUnderstandingTasks"}, Changes)

\* findResource is a listing; updateResource reads what it replaces.
Resources == Each({"listResources", "getResource", "findResource"}, Reads)
          @@ Each({"createResource", "enableResource", "disableResource", "deleteResource"}, Changes)
          @@ Each({"updateResource"}, Then(Reads, Changes))

Documents == Each({"queryResource", "getResourceDocuments"}, Reads)
          @@ Each({"createResourceDocument", "upsertResourceDocument", "deleteResourceDocuments",
                   "deleteResourceDocumentsByFilter", "deleteResourceDocumentsBySelector"}, Changes)

---------------------------------------------------------------------------
\* Users, departments, roles, row filters and the license: bkn-safe.
\* pageDirectory reads pages until one is short.
Pages == Then(Reads, Many(Reads))

Users == Each({"listUsersSafe", "getMeSafe", "getUserSafe"}, Reads)
      @@ Each({"createUserSafe", "updateUserSafe"}, Changes)

Accounts == Each({"deleteUserSafe", "setUserPasswordSafe", "changePasswordSafe", "assignRoleSafe",
                  "removeRoleSafe"}, Changes)
         @@ Each({"getUserRolesSafe"}, Reads)

Departments == Each({"listDepartmentsSafe", "getDepartmentSafe", "getDepartmentMembersSafe"}, Reads)
            @@ Each({"createDepartmentSafe", "updateDepartmentSafe", "deleteDepartmentSafe"}, Changes)
            @@ Each({"buildDepartmentTree"}, Pages)

Roles == Each({"listRolesSafe", "getRoleSafe", "roleMembersSafe"}, Reads)
      @@ Each({"createRoleSafe", "updateRoleSafe", "deleteRoleSafe", "setRolePermissionSafe"}, Changes)

RowFilters == Each({"getRowFilterPolicySafe", "explainRowFilterPolicySafe"}, Reads)
           @@ Each({"patchRowFilterPolicySafe"}, Changes)

\* An import whose license was stored, though its activation failed, is an
\* HTTP error that importLicenseSafe returns as a value.
License == Each({"getLicenseSafe", "getLicenseFingerprintSafe"}, Reads)
        @@ Each({"importLicenseSafe"}, Partly(Changes, {"stated"}))
        @@ Each({"activateLicenseSafe", "removeLicenseSafe"}, Changes)

AuditLogs == Each({"listAuditLogs", "getAuditLog"}, Reads)

---------------------------------------------------------------------------
\* Models, functions, tools and skills.
\* A model named by its numeric id is looked up first.
ModelCatalog == Each({"listLlmModels", "getLlmModel", "listSmallModels", "getSmallModel"}, Reads)
             @@ Each({"resolveSmallModelName", "resolveLlmModelName"}, Maybe(Reads))

ModelCalls == Each({"chatCompletions", "chatCompletionsStream", "embeddings", "rerank"}, Then(Maybe(Reads), Acts))
           @@ Each({"addModel", "editModel", "deleteModels", "setDefaultLlm", "setDefaultSmallModel"}, Changes)
           @@ Each({"testModel"}, Acts)
           @@ Each({"getDefaultSmallModel"}, Reads)

FunctionCalls == Each({"executeFunction"}, Partly(Acts, {"stated"}))
              @@ Each({"inferFunctionSchema", "generateFunction"}, Acts)
              @@ Each({"listFunctionDependencies", "listDependencyVersions", "functionTemplate",
                       "getFunctionPromptTemplate"}, Reads)

\* One specification makes several tools, some of which may be refused.
ToolFiles == Each({"exportConfig"}, Reads)
          @@ Each({"importConfig"}, Changes)
          @@ Each({"uploadTool"}, Partly(Changes, {"stated"}))

Tools == Each({"createTool"}, Partly(Changes, {"stated"}))
      @@ Each({"updateTool", "deleteTools"}, Changes)
      @@ Each({"getTool"}, Reads)

Toolboxes == Each({"listToolboxes", "listToolsOfBox"}, Reads)
          @@ Each({"createToolbox", "deleteToolbox", "setToolboxStatus"}, Changes)

\* The toolbox proxy answers 200 also when it cut the function off, with
\* result: null and no error, or when the function's own body is a failure.
ToolCalls == Each({"executeTool", "debugTool"}, Partly(Acts, {"stated", "hidden"}))
          @@ Each({"setToolStatuses"}, Changes)

SkillPackages == Each({"registerSkillZip", "updateSkillPackageZip"}, Changes)
              @@ Each({"downloadSkill", "getSkillNames"}, Reads)
              @@ Each({"executeSkill"}, Partly(Acts, {"stated"}))

SkillVersions == Each({"updateSkillMetadata", "republishSkillVersion", "publishSkillVersion"}, Changes)

Skills == Each({"listSkills", "listSkillMarket", "getSkill", "getSkillMarket"}, Reads)
       @@ Each({"deleteSkill"}, Changes)

SkillFiles == Each({"getSkillContent", "readSkillFile", "getSkillHistory"}, Reads)
           @@ Each({"setSkillStatus"}, Changes)

---------------------------------------------------------------------------
\* Traces.  The spans of a conversation are its traces, listed page by page,
\* and one read for each trace.
Traces == Each({"listTechnicalTraces", "getTechnicalTrace", "getTraceGraph"}, Reads)
       @@ Each({"getSpansByConversation", "getRawSpansByConversation"}, Then(Pages, Many(Reads)))

TraceLifecycle == Each({"listConversations", "getConversation", "getInteraction", "listInteractionOperations",
                        "getOperation", "getOperationAttempt", "getReceipt"}, Reads)
               @@ Each({"ensureConversation", "createNewConversationGeneration", "resumeConversation",
                        "closeConversation", "startInteraction", "completeInteraction", "failInteraction",
                        "cancelInteraction", "handoffInteraction", "retryOperationAttempt"}, Acts)
=============================================================================
