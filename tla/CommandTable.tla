---------------------------- MODULE CommandTable ----------------------------
(***************************************************************************)
(* What each command of the CLI sends, and the section its help puts it in. *)
(*                                                                          *)
(* A command is its path, such as <<"vega", "catalog", "list">>; its plans  *)
(* are made of those of the functions it calls (module ApiRequests).  Flags *)
(* that change which requests are sent give a command several plans; those  *)
(* that only fill a body, and the output, are left out.                     *)
(***************************************************************************)
EXTENDS ApiRequests

\* The children of a command group, and groups that have the same children.
Verb(command) == command[Len(command)]
Under(path, plans) == [c \in {Append(path, v) : v \in DOMAIN plans} |-> plans[Verb(c)]]
Alike(path, groups, plans) ==
    [c \in {path \o <<g, v>> : g \in groups, v \in DOMAIN plans} |-> plans[Verb(c)]]

---------------------------------------------------------------------------
\* openbkn bkn
Bkn == "list" :> Networks["listKnowledgeNetworks"]
    @@ "get" :> Networks["getKnowledgeNetwork"]
    @@ "search" :> InstanceSearch["searchInstance"]

SchemaGroup(listing) ==
    "list" :> listing
    @@ "get" :> SchemaTypes["getSchemaItem"]
    @@ "create" :> SchemaTypes["createSchemaItem"]
    @@ "update" :> SchemaTypes["updateSchemaItem"]
    @@ "delete" :> SchemaTypes["deleteSchemaItem"]

ActionType == "list" :> SchemaTypes["listActionTypes"]
           @@ "query" :> Instances["queryActionType"]
           @@ "execute" :> ActionRuns["executeActionType"]
           @@ "get" :> SchemaTypes["getSchemaItem"]

BknViews == "stats" :> Networks["getKnowledgeNetwork"] @@ "export" :> Networks["getKnowledgeNetwork"]

ObjectTypeRows == "query" :> Instances["queryObjectTypeInstances"]

BknWrites == "create" :> Networks["createKnowledgeNetwork"]
          @@ "update" :> Networks["updateKnowledgeNetwork"]
          @@ "delete" :> Networks["deleteKnowledgeNetwork"]

Subgraph == "subgraph" :> Instances["querySubgraph"]

ActionLog == "list" :> ActionRuns["listActionLogs"]
          @@ "get" :> ActionRuns["getActionLog"]
          @@ "cancel" :> ActionRuns["cancelActionLog"]

ActionExecution == "action-execution" :> ActionRuns["getActionExecution"]

ConceptGroup == "list" :> ConceptGroups["listConceptGroups"]
             @@ "get" :> ConceptGroups["getConceptGroup"]
             @@ "create" :> ConceptGroups["createConceptGroup"]
             @@ "update" :> ConceptGroups["updateConceptGroup"]
             @@ "delete" :> ConceptGroups["deleteConceptGroup"]
             @@ "add-members" :> ConceptGroups["addConceptGroupMembers"]
             @@ "remove-members" :> ConceptGroups["removeConceptGroupMembers"]

ActionSchedule == "list" :> ActionSchedules["listActionSchedules"]
               @@ "get" :> ActionSchedules["getActionSchedule"]
               @@ "create" :> ActionSchedules["createActionSchedule"]
               @@ "update" :> ActionSchedules["updateActionSchedule"]
               @@ "set-status" :> ActionSchedules["setActionScheduleStatus"]
               @@ "delete" :> ActionSchedules["deleteActionSchedules"]

Capability == "list" :> Capabilities["listCapabilities"]
           @@ "attach" :> Capabilities["attachCapabilities"]
           @@ "detach" :> Capabilities["detachCapabilities"]

\* push compares the bindings before and after the upload, unless it is a dry
\* run; module NetworkPush has what the comparison finds.
Comparison == With(Tried(Then(SchemaTypes["listObjectTypes"], Many(SchemaTypes["getSchemaItem"]))), "live")
Push == "push" :> Then(Comparison, Then(Packages["uploadBkn"], Comparison))

Pull == "pull" :> Then(Packages["downloadBkn"], Keeps)

Paths == "relation-type-paths" :> Packages["relationTypePaths"]
      @@ "cypher" :> Packages["runCypherQuery"]
      @@ "resources" :> Packages["listBknResources"]

\* create-from-catalog is module NetworkCreation; here, its first and last step.
\* validate reads local files.
FromCatalog == "create-from-catalog" :> Then(Then(Catalogs["getCatalog"], Networks["createKnowledgeNetwork"]),
                                             SchemaTypes["createObjectTypes"])
            @@ "validate" :> Nothing

Metric == "list" :> ObjectMetrics["listObjectMetrics"]
       @@ "get" :> ObjectMetrics["getObjectMetric"]
       @@ "create" :> ObjectMetrics["createObjectMetricDraft"]
       @@ "update" :> ObjectMetrics["updateObjectMetricDraft"]
       @@ "delete-draft" :> ObjectMetrics["deleteObjectMetricDraft"]
       @@ "validate" :> Judged(ObjectMetrics["validateObjectMetric"], {"stated"})
       @@ "trial" :> ObjectMetrics["trialObjectMetric"]

PublishedMetric == "query" :> ObjectMetrics["queryObjectMetric"]
                @@ "versions" :> MetricVersions["listObjectMetricVersions"]
                @@ "next-draft" :> MetricVersions["createNextObjectMetricDraftVersion"]
                @@ Each({"validate-saved", "publish", "deprecate"}, MetricVersions["versionAction"])

BknCommands ==
    Under(<<"bkn">>, Bkn @@ BknViews @@ BknWrites @@ Subgraph @@ ActionExecution @@ Push @@ Pull
                     @@ Paths @@ FromCatalog)
    @@ Under(<<"bkn", "object-type">>, SchemaGroup(SchemaTypes["listObjectTypes"]) @@ ObjectTypeRows)
    @@ Under(<<"bkn", "relation-type">>, SchemaGroup(SchemaTypes["listRelationTypes"]))
    @@ Under(<<"bkn", "action-type">>, ActionType)
    @@ Under(<<"bkn", "action-log">>, ActionLog)
    @@ Under(<<"bkn", "concept-group">>, ConceptGroup)
    @@ Under(<<"bkn", "action-schedule">>, ActionSchedule)
    @@ Under(<<"bkn", "capability">>, Capability)
    @@ Under(<<"bkn", "object-metric">>, Metric @@ PublishedMetric)

---------------------------------------------------------------------------
\* openbkn vega
Catalog == "list" :> Catalogs["listCatalogs"]
        @@ "get" :> Catalogs["getCatalog"]
        @@ "stats" :> CatalogHealth["catalogConnectorTypeStats"]
        @@ "resources" :> CatalogHealth["listCatalogResources"]
        @@ "health" :> CatalogHealth["catalogHealthStatus"]
        @@ "create" :> Catalogs["createCatalog"]

CatalogWrites == "update" :> Catalogs["updateCatalog"]
              @@ "enable" :> Catalogs["enableCatalog"]
              @@ "disable" :> Catalogs["disableCatalog"]
              @@ "delete" :> CatalogHealth["deleteCatalog"]
              @@ "test-connection" :> CatalogHealth["testCatalogConnection"]
              @@ "test-connection-config" :> CatalogHealth["testCatalogConnectionConfig"]
              @@ "health-check-schedule" :> CatalogHealth["getCatalogHealthCheckSchedule"]
              @@ "set-health-check-schedule" :> CatalogHealth["updateCatalogHealthCheckSchedule"]
              @@ "discover" :> DiscoverTasks["discoverCatalog"]

DiscoverSchedule == "list" :> DiscoverSchedules["listDiscoverSchedules"]
                 @@ "get" :> DiscoverSchedules["getDiscoverSchedule"]
                 @@ "create" :> DiscoverSchedules["createDiscoverSchedule"]
                 @@ "update" :> DiscoverSchedules["updateDiscoverSchedule"]
                 @@ "enable" :> DiscoverSchedules["enableDiscoverSchedule"]
                 @@ "disable" :> DiscoverSchedules["disableDiscoverSchedule"]
                 @@ "delete" :> DiscoverSchedules["deleteDiscoverSchedule"]

DiscoverTask == "list" :> DiscoverTasks["listDiscoverTasks"]
             @@ "get" :> DiscoverTasks["getDiscoverTask"]
             @@ "delete" :> DiscoverTasks["deleteDiscoverTasks"]

SemanticTask == "list" :> SemanticTasks["listSemanticUnderstandingTasks"]
             @@ "create" :> SemanticTasks["createSemanticUnderstandingTask"]
             @@ "get" :> SemanticTasks["getSemanticUnderstandingTask"]
             @@ "delete" :> SemanticTasks["deleteSemanticUnderstandingTasks"]

ConnectorType == "list" :> Connectors["listConnectorTypes"] @@ "get" :> Connectors["getConnectorType"]

Vega == "index-capabilities" :> Connectors["getIndexCapabilities"] @@ "sql" :> Sql["runSql"]

VegaResource == "list" :> Resources["listResources"]
             @@ "get" :> Resources["getResource"]
             @@ "create" :> Resources["createResource"]

VegaResourceWrites == "update" :> Resources["updateResource"]
                   @@ "delete" :> Resources["deleteResource"]
                   @@ "discover" :> DiscoverTasks["discoverResource"]
                   @@ "enable" :> Resources["enableResource"]
                   @@ "disable" :> Resources["disableResource"]
                   @@ "query" :> Documents["queryResource"]
                   @@ "document-get" :> Documents["getResourceDocuments"]
                   @@ "document-create" :> Documents["createResourceDocument"]
                   @@ "document-upsert" :> Documents["upsertResourceDocument"]
                   @@ "document-delete" :> Documents["deleteResourceDocuments"]
                   @@ "document-delete-filter" :> Documents["deleteResourceDocumentsByFilter"]

\* A wait asks for the task until it ends: module BuildWait.
Waited == Many(BuildTasks["getBuildTask"])
Build == "build" :> Then(BuildTasks["createBuildTask"], Waited)

BuildTask == "get" :> Then(BuildTasks["getBuildTask"], Waited)
          @@ "list" :> BuildTasks["listBuildTasks"]
          @@ "start" :> BuildTasks["startBuildTask"]
          @@ "stop" :> BuildTasks["stopBuildTask"]
          @@ "delete" :> BuildTasks["deleteBuildTasks"]

VegaCommands ==
    Under(<<"vega">>, Vega)
    @@ Under(<<"vega", "catalog">>, Catalog @@ CatalogWrites)
    @@ Under(<<"vega", "discover-schedule">>, DiscoverSchedule)
    @@ Under(<<"vega", "discover-task">>, DiscoverTask)
    @@ Under(<<"vega", "semantic-task">>, SemanticTask)
    @@ Under(<<"vega", "connector-type">>, ConnectorType)
    @@ Under(<<"vega", "resource">>, VegaResource @@ VegaResourceWrites @@ Build)
    @@ Under(<<"vega", "build-task">>, BuildTask)

\* openbkn resource
ResourceCommands ==
    Under(<<"resource">>, "list" :> Resources["listResources"]
                       @@ "find" :> Resources["findResource"]
                       @@ "get" :> Resources["getResource"]
                       @@ "enable" :> Resources["enableResource"]
                       @@ "disable" :> Resources["disableResource"]
                       @@ "query" :> Documents["queryResource"]
                       @@ "delete" :> Resources["deleteResource"])

---------------------------------------------------------------------------
\* openbkn context.  --schema lists the tools in the place of a call.
Schema(p) == p \union McpMethods["listTools"]

\* In a dry run query-object-instance is previewed before all it would read.
ContextReads == "search-schema" :> ContextTools["searchSchema"]
             @@ "query-object-instance" :> Schema(Then(With(Maybe(SchemaTypes["getSchemaItem"]), "live"),
                                                       ContextTools["queryObjectInstance"]))
             @@ "search-capabilities" :> ContextTools["searchCapabilities"]
             @@ "kn-detail" :> ContextTools["getKnDetail"]
             @@ "object-types" :> ContextTools["getObjectTypes"]
             @@ "relation-types" :> ContextTools["getRelationTypes"]

\* The conversation is shown, or forgotten.
ContextLocal == "conversation" :> Maybe(Keeps)

\* These name their tool, and it reads.
ContextQueries == "info" :> McpCatalog["mcpInfo"]
               @@ "run-cypher" :> Schema(ContextTools["runCypher"])
               @@ Each({"run-sql", "explore-subgraph", "query-metric"}, Schema(ToolReads))

ContextCalls == "tools" :> McpMethods["listTools"]
             @@ "tool-call" :> Schema(ContextTools["callTool"])
             @@ "call-method" :> McpMethods["callMethod"]
             @@ "resources" :> McpMethods["listMcpResources"]
             @@ "resource" :> McpMethods["readResource"]
             @@ "templates" :> McpMethods["listResourceTemplates"]
             @@ "prompts" :> McpMethods["listPrompts"]
             @@ "prompt" :> McpMethods["getPrompt"]
             @@ "query-instance-subgraph" :> Schema(ContextTools["queryInstanceSubgraph"])
             @@ "get-logic-properties" :> Schema(ContextTools["getLogicProperties"])
             @@ "get-action-info" :> Schema(ContextTools["getActionInfo"])

ContextCommands ==
    Under(<<"context">>, ContextReads @@ ContextLocal @@ ContextQueries @@ ContextCalls)

---------------------------------------------------------------------------
\* openbkn admin
Org == "list" :> Departments["listDepartmentsSafe"]
    @@ "get" :> Departments["getDepartmentSafe"]
    @@ "members" :> Departments["getDepartmentMembersSafe"]
    @@ "create" :> Departments["createDepartmentSafe"]
    @@ "update" :> Departments["updateDepartmentSafe"]
    @@ "delete" :> Departments["deleteDepartmentSafe"]
    @@ "tree" :> Departments["buildDepartmentTree"]

\* The roles of a user are read beside the names of all roles.
User == "list" :> Users["listUsersSafe"]
     @@ "assign-role" :> Accounts["assignRoleSafe"]
     @@ "revoke-role" :> Accounts["removeRoleSafe"]
     @@ "get" :> Users["getUserSafe"]
     @@ "roles" :> Then(Accounts["getUserRolesSafe"], Roles["listRolesSafe"])
     @@ "create" :> Users["createUserSafe"]
     @@ "update" :> Users["updateUserSafe"]
     @@ "delete" :> Accounts["deleteUserSafe"]
     @@ "reset-password" :> Accounts["setUserPasswordSafe"]

\* Members are named by paging through the users.
Role == "list" :> Roles["listRolesSafe"]
     @@ "get" :> Roles["getRoleSafe"]
     @@ "members" :> Then(Roles["roleMembersSafe"], Many(Users["listUsersSafe"]))
     @@ "add-member" :> Accounts["assignRoleSafe"]
     @@ "remove-member" :> Accounts["removeRoleSafe"]
     @@ "create" :> Roles["createRoleSafe"]
     @@ "update" :> Roles["updateRoleSafe"]
     @@ "delete" :> Roles["deleteRoleSafe"]
     @@ Each({"grant-perm", "revoke-perm"}, Roles["setRolePermissionSafe"])

RowFilter == "get" :> RowFilters["getRowFilterPolicySafe"]
          @@ Each({"apply", "delete"}, RowFilters["patchRowFilterPolicySafe"])
          @@ "explain" :> RowFilters["explainRowFilterPolicySafe"]

AdminModels == "list" :> (ModelCatalog["listLlmModels"] \union ModelCatalog["listSmallModels"])
            @@ "get" :> (ModelCatalog["getLlmModel"] \union ModelCatalog["getSmallModel"])
            @@ "add" :> ModelCalls["addModel"]
            @@ "edit" :> ModelCalls["editModel"]
            @@ "delete" :> ModelCalls["deleteModels"]
            @@ "test" :> ModelCalls["testModel"]

LicenseGroup == "show" :> License["getLicenseSafe"]
             @@ Each({"import", "receipt"}, Judged(License["importLicenseSafe"], {"stated"}))
             @@ "activate" :> License["activateLicenseSafe"]
             @@ "remove" :> License["removeLicenseSafe"]
             @@ "fingerprint" :> License["getLicenseFingerprintSafe"]

Audit == "list" :> AuditLogs["listAuditLogs"] @@ "get" :> AuditLogs["getAuditLog"]

\* openbkn config, and its copy under admin, are about the local store.
LocalConfig == "show" :> Nothing @@ "set" :> Keeps

\* openbkn call sends any request, and gives an HTTP error, nothing else, exit code 1.
AnyCall == "call" :> Judged(RawCall["rawCall"], {"stated"})

\* openbkn auth.  A login by password, device or browser is module SignIn.
Login == "login" :> Then(Maybe(Then(Acts, Many(Acts))), Keeps)

\* An expired token is renewed before it is printed, unless in a dry run; one
\* that is not quite expired is printed when it cannot be renewed.
Renewal == Then(Acts, Keeps)
AuthLocal == Each({"status", "list", "users", "export"}, Nothing)
          @@ "token" :> With(Maybe(Renewal \union Tried(Renewal)), "live")
          @@ Each({"use", "logout", "delete", "switch"}, Keeps)

Whoami == "whoami" :> Maybe(Tried(Users["getMeSafe"]))

Password == "change-password" :> Accounts["changePasswordSafe"]

Auth == Login @@ AuthLocal @@ Whoami @@ Password

AppKey == "list" :> AppKeys["listMyApiKeys"]
       @@ "create" :> AppKeys["createMyApiKey"]
       @@ "regenerate" :> AppKeys["regenerateMyApiKey"]
       @@ "revoke" :> AppKeys["revokeMyApiKey"]

AppKeyAdmin == "list" :> AppKeys["listApiKeysAdmin"] @@ "revoke" :> AppKeys["revokeApiKeyAdmin"]

AdminCommands ==
    Under(<<"admin">>, AnyCall)
    @@ Under(<<"admin", "org">>, Org)
    @@ Under(<<"admin", "user">>, User)
    @@ Under(<<"admin", "role">>, Role)
    @@ Under(<<"admin", "row-filter">>, RowFilter)
    @@ Alike(<<"admin">>, {"llm", "small-model"}, AdminModels)
    @@ Under(<<"admin", "license">>, LicenseGroup)
    @@ Under(<<"admin", "audit">>, Audit)
    @@ Under(<<"admin", "config">>, LocalConfig)
    @@ Under(<<"admin", "auth">>, Auth)

\* describe --probe asks each service in a try block of its own, and then for
\* the MCP catalog.
Describe == "describe" :> Maybe(Then(Many(Tried(Reads)), Maybe(Tried(McpCatalog["mcpInfo"]))))

---------------------------------------------------------------------------
\* openbkn sandbox, mcp, model
Sandbox == "run" :> Judged(FunctionCalls["executeFunction"], {"stated"})
        @@ "infer-schema" :> FunctionCalls["inferFunctionSchema"]
        @@ "deps" :> FunctionCalls["listFunctionDependencies"]
        @@ "versions" :> FunctionCalls["listDependencyVersions"]
        @@ "template" :> FunctionCalls["functionTemplate"]
        @@ "generate" :> FunctionCalls["generateFunction"]
        @@ "prompt" :> FunctionCalls["getFunctionPromptTemplate"]

Mcp == "list" :> McpServers["listMcpServers"]
    @@ "get" :> McpServers["getMcpServer"]
    @@ "tools" :> McpServers["listMcpServerTools"]

ModelManagement == "add" :> ModelCalls["addModel"]
                @@ "edit" :> ModelCalls["editModel"]
                @@ "delete" :> ModelCalls["deleteModels"]
                @@ "test" :> ModelCalls["testModel"]

LlmModels == "list" :> ModelCatalog["listLlmModels"]
          @@ "get" :> ModelCatalog["getLlmModel"]
          @@ "chat" :> (ModelCalls["chatCompletions"] \union ModelCalls["chatCompletionsStream"])
          @@ Each({"set-default", "unset-default"}, ModelCalls["setDefaultLlm"])

SmallModels == "list" :> ModelCatalog["listSmallModels"]
            @@ "get" :> ModelCatalog["getSmallModel"]
            @@ "embeddings" :> ModelCalls["embeddings"]
            @@ "rerank" :> ModelCalls["rerank"]
            @@ "get-default" :> ModelCalls["getDefaultSmallModel"]
            @@ Each({"set-default", "unset-default"}, ModelCalls["setDefaultSmallModel"])

\* openbkn toolbox, and the three groups of tools.
Toolbox == "list" :> Toolboxes["listToolboxes"]
        @@ "create" :> Toolboxes["createToolbox"]
        @@ Each({"publish", "unpublish"}, Toolboxes["setToolboxStatus"])
        @@ "delete" :> Toolboxes["deleteToolbox"]
        @@ "export" :> Then(ToolFiles["exportConfig"], Keeps)
        @@ "import" :> ToolFiles["importConfig"]

ToolReading == "list" :> Toolboxes["listToolsOfBox"]
            @@ Each({"enable", "disable"}, ToolCalls["setToolStatuses"])

\* The failures seen in status_code and error of the envelope.
toolCallFailed == {"stated"}

ToolRuns == "execute" :> Judged(ToolCalls["executeTool"], toolCallFailed)
         @@ "debug" :> Judged(ToolCalls["debugTool"], toolCallFailed)

\* A refused tool fails the command that created it; so says failure_count.
ToolMaking(verb) == verb :> Judged(Tools["createTool"], {"stated"})

ToolWrites == "get" :> Tools["getTool"]
           @@ "update" :> Tools["updateTool"]
           @@ "delete" :> Tools["deleteTools"]

Upload == "upload" :> ToolFiles["uploadTool"]

ToolGroup == ToolReading @@ ToolRuns @@ ToolWrites

ToolCommands ==
    Under(<<"sandbox">>, Sandbox)
    @@ Under(<<"mcp">>, Mcp)
    @@ Under(<<"model", "llm">>, LlmModels @@ ModelManagement)
    @@ Under(<<"model", "small">>, SmallModels @@ ModelManagement)
    @@ Under(<<"toolbox">>, Toolbox)
    @@ Under(<<"tool">>, ToolGroup @@ ToolMaking("create") @@ Upload)
    @@ Under(<<"function">>, ToolGroup @@ ToolMaking("create"))
    @@ Under(<<"api">>, ToolGroup @@ ToolMaking("import"))

---------------------------------------------------------------------------
\* openbkn skill
SkillReads == "list" :> Skills["listSkills"]
           @@ "get" :> Skills["getSkill"]
           @@ "market" :> Skills["listSkillMarket"]
           @@ "market-get" :> Skills["getSkillMarket"]
           @@ "delete" :> Skills["deleteSkill"]

\* A file the service does not inline is taken from the archive.
FileText == Then(SkillFiles["readSkillFile"], Maybe(SkillPackages["downloadSkill"]))

SkillContents == "content" :> (SkillFiles["getSkillContent"] \union FileText)
              @@ "read-file" :> (SkillFiles["readSkillFile"] \union FileText)
              @@ "files" :> SkillFiles["getSkillContent"]
              @@ "names" :> SkillPackages["getSkillNames"]

\* The exit code of the run is that of the command under --exit-code only.
SkillRuns == "execute" :> (SkillPackages["executeSkill"]
                           \union Judged(SkillPackages["executeSkill"], {"stated"}))
          @@ "history" :> SkillFiles["getSkillHistory"]
          @@ "set-status" :> SkillFiles["setSkillStatus"]

SkillPackaging == "register" :> SkillPackages["registerSkillZip"]
               @@ Each({"download", "install"}, Then(SkillPackages["downloadSkill"], Keeps))
               @@ "update-metadata" :> SkillVersions["updateSkillMetadata"]
               @@ "update-package" :> SkillPackages["updateSkillPackageZip"]
               @@ "republish" :> SkillVersions["republishSkillVersion"]
               @@ "publish-history" :> SkillVersions["publishSkillVersion"]

\* openbkn trace
TraceGraph == "graph" :> Traces["getTraceGraph"]

Conversations == "list" :> TraceLifecycle["listConversations"]
              @@ "ensure-current" :> TraceLifecycle["ensureConversation"]
              @@ "create-new-generation" :> TraceLifecycle["createNewConversationGeneration"]
              @@ "resume" :> TraceLifecycle["resumeConversation"]
              @@ "get" :> TraceLifecycle["getConversation"]
              @@ "close" :> TraceLifecycle["closeConversation"]

Interactions == "start" :> TraceLifecycle["startInteraction"]
             @@ "get" :> TraceLifecycle["getInteraction"]
             @@ "operations" :> TraceLifecycle["listInteractionOperations"]
             @@ "complete" :> TraceLifecycle["completeInteraction"]
             @@ "fail" :> TraceLifecycle["failInteraction"]
             @@ "cancel" :> TraceLifecycle["cancelInteraction"]
             @@ "handoff" :> TraceLifecycle["handoffInteraction"]

OperationGroup == "get" :> TraceLifecycle["getOperation"]
               @@ "attempt" :> TraceLifecycle["getOperationAttempt"]
               @@ "retry" :> TraceLifecycle["retryOperationAttempt"]

Receipts == "get" :> TraceLifecycle["getReceipt"]

TraceReads == Each({"get", "spans"}, Traces["getSpansByConversation"])
           @@ "detail" :> Traces["getTechnicalTrace"]
           @@ "search" :> Traces["listTechnicalTraces"]

\* scan diagnoses each conversation in a try block.
Diagnosis == Traces["getRawSpansByConversation"]
TraceRuns == "diagnose" :> Diagnosis
          @@ "scan" :> Tried(Diagnosis)
          @@ "validate-fixture" :> Nothing

EvalSet == "build" :> Maybe(Keeps)
SchemaFiles == "validate" :> Nothing

SkillAndTraceCommands ==
    Under(<<"skill">>, SkillReads @@ SkillContents @@ SkillRuns @@ SkillPackaging)
    @@ Under(<<"trace">>, TraceGraph @@ TraceReads @@ TraceRuns)
    @@ Under(<<"trace", "conversations">>, Conversations)
    @@ Under(<<"trace", "interactions">>, Interactions)
    @@ Under(<<"trace", "operations">>, OperationGroup)
    @@ Under(<<"trace", "receipts">>, Receipts)
    @@ Under(<<"trace", "eval-set">>, EvalSet)
    @@ Under(<<"trace", "schema">>, SchemaFiles)

RootCommands ==
    Under(<<>>, AnyCall @@ Describe)
    @@ Under(<<"auth">>, Auth)
    @@ Under(<<"config">>, LocalConfig)
    @@ Under(<<"appkey">>, AppKey)
    @@ Under(<<"appkey", "admin">>, AppKeyAdmin)

\* The first request of a command is behind the version check, which a dry run
\* leaves out, and which a cache may answer (module TransportRetry).
Sends(plan) == \E i \in DOMAIN plan : plan[i].does # "keeps"
Checked(plans) == {p \in plans : ~Sends(p)} \union Then(With(Reads, "live"), {p \in plans : Sends(p)})

Table == BknCommands @@ VegaCommands @@ ResourceCommands @@ ContextCommands @@ AdminCommands
      @@ ToolCommands @@ SkillAndTraceCommands @@ RootCommands

CommandPlans == [c \in DOMAIN Table |-> Checked(Table[c])]

---------------------------------------------------------------------------
\* The sections of the help.  A group names the sections of its children; a
\* child it does not name goes by its verb, the whole word.
Sorted(path, section, verbs) == [c \in {Append(path, v) : v \in verbs} |-> section]

BknSections == Sorted(<<"bkn">>, "READ", {"pull", "list", "get", "stats", "export", "search", "subgraph",
                   "relation-type-paths", "cypher", "resources", "action-execution", "validate"})
            @@ Sorted(<<"bkn">>, "WRITE", {"create", "update", "delete", "push", "create-from-catalog"})

MetricSections == Sorted(<<"bkn", "object-metric">>, "READ", {"list", "get", "versions"})
               @@ Sorted(<<"bkn", "object-metric">>, "RUN", {"validate", "trial", "query"})
               @@ Sorted(<<"bkn", "object-metric">>, "WRITE", {"create", "update", "delete-draft",
                      "next-draft", "validate-saved", "publish", "deprecate"})

CapabilitySections == Sorted(<<"bkn", "capability">>, "READ", {"list"})
                   @@ Sorted(<<"bkn", "capability">>, "WRITE", {"attach", "detach"})

VegaSections == Sorted(<<"vega">>, "READ", {"index-capabilities"})
             @@ Sorted(<<"vega">>, "RUN", {"sql"})
             @@ Sorted(<<"vega", "resource">>, "READ", {"list", "get", "document-get"})
             @@ Sorted(<<"vega", "resource">>, "RUN", {"query", "discover", "build"})
             @@ Sorted(<<"vega", "resource">>, "WRITE", {"create", "update", "delete", "enable", "disable",
                    "document-create", "document-upsert", "document-delete", "document-delete-filter"})
             @@ Sorted(<<"vega", "build-task">>, "READ", {"list", "get"})
             @@ Sorted(<<"vega", "build-task">>, "RUN", {"start", "stop"})
             @@ Sorted(<<"vega", "build-task">>, "WRITE", {"delete"})
             @@ Sorted(<<"vega", "catalog">>, "READ", {"list", "get", "stats", "resources", "health",
                    "health-check-schedule"})
             @@ Sorted(<<"vega", "catalog">>, "RUN", {"test-connection", "test-connection-config", "discover"})
             @@ Sorted(<<"vega", "catalog">>, "WRITE", {"create", "update", "enable", "disable", "delete",
                    "set-health-check-schedule"})

RowFilterSections == Sorted(<<"admin", "row-filter">>, "READ", {"get", "explain"})
                  @@ Sorted(<<"admin", "row-filter">>, "WRITE", {"apply", "delete"})

AdminSections == Sorted(<<"admin">>, "RUN", {"call"})

AppKeySections == Sorted(<<"appkey">>, "READ", {"list"})
               @@ Sorted(<<"appkey">>, "WRITE", {"create", "regenerate", "revoke"})
               @@ Sorted(<<"appkey", "admin">>, "READ", {"list"})
               @@ Sorted(<<"appkey", "admin">>, "WRITE", {"revoke"})

AuthSections == Sorted(<<"auth">>, "READ", {"status", "whoami", "list", "users"})
             @@ Sorted(<<"auth">>, "RUN", {"token", "export"})
             @@ Sorted(<<"auth">>, "WRITE", {"login", "logout", "use", "switch", "delete", "change-password"})

ConfigSections == Sorted(<<"config">>, "READ", {"show"}) @@ Sorted(<<"config">>, "WRITE", {"set"})

ContextSections == Sorted(<<"context">>, "READ", {"search-schema", "kn-detail", "object-types",
                       "relation-types", "info", "tools", "resources", "resource", "templates", "prompts",
                       "prompt", "search-capabilities"})
                @@ Sorted(<<"context">>, "RUN", {"query-object-instance", "run-sql", "run-cypher",
                       "explore-subgraph", "query-metric", "query-instance-subgraph",
                       "get-logic-properties", "get-action-info", "tool-call", "call-method"})

SandboxSections == Sorted(<<"sandbox">>, "READ", {"deps", "versions", "template", "prompt"})
                @@ Sorted(<<"sandbox">>, "RUN", {"run", "infer-schema", "generate"})

McpSections == Sorted(<<"mcp">>, "READ", {"list", "get", "tools"})

KindSections(path) == Sorted(path, "READ", {"list", "get", "get-default"})
                   @@ Sorted(path, "RUN", {"chat", "embeddings", "rerank", "test"})
                   @@ Sorted(path, "WRITE", {"add", "edit", "delete", "set-default", "unset-default"})

ResourceSections == Sorted(<<"resource">>, "READ", {"list", "find", "get"})
                 @@ Sorted(<<"resource">>, "RUN", {"query"})
                 @@ Sorted(<<"resource">>, "WRITE", {"enable", "disable", "delete"})

ToolboxSections == Sorted(<<"toolbox">>, "READ", {"list", "export"})
                @@ Sorted(<<"toolbox">>, "WRITE", {"create", "publish", "unpublish", "delete", "import"})

ToolSections(path, making) ==
    Sorted(path, "READ", {"list", "get"})
    @@ Sorted(path, "RUN", {"execute", "debug"})
    @@ Sorted(path, "WRITE", {making, "update", "delete", "enable", "disable", "upload"})

SkillSections == Sorted(<<"skill">>, "READ", {"list", "market", "get", "market-get", "names", "content",
                     "read-file", "files", "history"})
              @@ Sorted(<<"skill">>, "RUN", {"execute", "download", "install"})
              @@ Sorted(<<"skill">>, "WRITE", {"register", "update-metadata", "update-package", "set-status",
                     "republish", "publish-history", "delete"})

TraceSections == Sorted(<<"trace">>, "READ", {"graph", "get", "search", "detail", "spans"})
              @@ Sorted(<<"trace">>, "RUN", {"diagnose", "scan", "validate-fixture"})

Named == BknSections @@ MetricSections @@ CapabilitySections @@ VegaSections @@ RowFilterSections
      @@ AdminSections @@ AppKeySections @@ AuthSections @@ ConfigSections @@ ContextSections
      @@ SandboxSections @@ McpSections @@ KindSections(<<"model", "llm">>) @@ KindSections(<<"model", "small">>)
      @@ ResourceSections @@ ToolboxSections @@ ToolSections(<<"tool">>, "create")
      @@ ToolSections(<<"function">>, "create") @@ ToolSections(<<"api">>, "import") @@ SkillSections
      @@ TraceSections

ReadVerbs == {"list", "get", "show", "find", "files", "history", "members", "roles", "tree", "names",
              "content", "read-file", "status", "whoami", "users", "detail", "spans", "graph", "health",
              "resources", "search", "market", "market-get", "stats", "export", "pull", "validate-fixture"}
RunVerbs == {"query", "execute", "debug", "run", "test", "chat", "embeddings", "rerank", "diagnose", "scan",
             "discover", "build", "dry-run", "validate", "token", "download", "install", "call", "sql",
             "receipt", "fingerprint", "test-connection", "test-connection-config", "attempt", "retry",
             "start", "stop", "resume", "ensure-current", "create-new-generation", "close", "complete",
             "fail", "cancel", "handoff", "operations"}
WriteVerbs == {"create", "update", "delete", "add", "edit", "remove", "set", "register", "upload", "publish",
               "unpublish", "republish", "import", "activate", "login", "logout", "use", "switch",
               "change-password", "enable", "disable", "push", "assign-role", "revoke-role", "add-member",
               "remove-member", "reset-password", "grant-perm", "revoke-perm", "add-members",
               "remove-members", "set-status", "regenerate", "revoke", "publish-history", "update-metadata",
               "update-package", "create-from-catalog", "export-config"}

\* Mutant of ByVerb: the expressions match a part of the word.
ByVerbInside(v) == CASE v \in ReadVerbs \union {"add-members", "remove-members", "publish-history"} -> "READ"
                     [] v \in RunVerbs -> "RUN"
                     [] v \in WriteVerbs -> "WRITE"
                     [] OTHER -> "COMMANDS"

ByVerb(v) == CASE v \in ReadVerbs -> "READ"
               [] v \in RunVerbs -> "RUN"
               [] v \in WriteVerbs -> "WRITE"
               [] OTHER -> "COMMANDS"

\* The sections of the root are its topics.
CommandSection == [c \in DOMAIN Table |-> IF Len(c) = 1 THEN "COMMANDS"
                                         ELSE IF c \in DOMAIN Named THEN Named[c] ELSE ByVerb(Verb(c))]
=============================================================================
