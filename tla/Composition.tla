---------------------------- MODULE Composition ----------------------------
(***************************************************************************)
(* The composition root (main.py): which modules, tools and allowlist the  *)
(* settings that are switched on lead to.  `on` is the set of flags that   *)
(* are set, an optional path or file name counting as a flag.              *)
(***************************************************************************)
EXTENDS SafetyRules, ModuleRegistry

Flags ==
    {"demo_modules", "model_stack", "agent", "docqa", "storage", "browser", "exec",
     "mcp", "presentation_demo", "docs_root", "storage_connectors_file",
     "model_mmproj_file"}

\* Construction is refused when a module lacks the path it works from.
Refused(on) ==
    \/ "docqa" \in on /\ "docs_root" \notin on
    \/ "storage" \in on /\ "storage_connectors_file" \notin on

-----------------------------------------------------------------------------
(* The modules: a row is [name, deps, caps]. *)

Row(name, deps, caps) == [name |-> name, deps |-> deps, caps |-> caps]
Lone(name) == Row(name, <<>>, <<name>>)

\* Mutant of ServingBuilt: document question answering does not bring the model.
ServingBuiltWithoutDocqa(on) == on \cap {"model_stack", "agent", "browser"} # {}

ServingBuilt(on) == on \cap {"model_stack", "agent", "docqa", "browser"} # {}

DemoModules == <<Lone("echo"), Lone("flaky"), Row("dependent", <<"flaky">>, <<"dependent">>)>>

ModelStack(on) ==
    <<Row("model-manager", <<>>, <<"model-management">>),
      Row("llm-serving", <<"model-manager">>,
          IF "model_mmproj_file" \in on THEN <<"chat", "multimodal">> ELSE <<"chat">>)>>

If(condition, rows) == IF condition THEN rows ELSE <<>>

\* The modules in the order they are registered.
Rows(on) ==
    If("demo_modules" \in on, DemoModules)
      \o If(ServingBuilt(on), ModelStack(on))
      \o If("docqa" \in on, <<Row("docqa", <<"llm-serving">>, <<"docqa">>)>>)
      \o If("storage" \in on, <<Lone("storage")>>)
      \o If("browser" \in on, <<Lone("browser")>>)
      \o If("exec" \in on, <<Lone("exec")>>)
      \o If("mcp" \in on, <<Lone("mcp")>>)
      \o If("presentation_demo" \in on, <<Lone("presentation")>>)

\* The same as a registration of ModuleRegistry.
RegistrationOf(rows) ==
    LET named(name) == CHOOSE row \in ToSet(rows) : row.name = name IN
    [order |-> [i \in 1 .. Len(rows) |-> rows[i].name],
     deps  |-> [name \in {row.name : row \in ToSet(rows)} |-> named(name).deps],
     caps  |-> [name \in {row.name : row \in ToSet(rows)} |-> named(name).caps]]

-----------------------------------------------------------------------------
(* What hangs off the application besides the registry. *)

IngestBuilt(on) == {"docqa", "docs_root"} \subseteq on
ChainBuilt(on) == on \cap {"agent", "docqa", "storage", "browser", "exec", "mcp"} # {}
RuntimeBuilt(on) == ChainBuilt(on) /\ "agent" \in on

\* Pictures: uploads of them, and the tool that answers about one.
ImagesServed(on) == IngestBuilt(on) /\ "model_mmproj_file" \in on

DocqaTools == {"list_documents", "summarize_document", "answer_question"}
StorageReads == {"storage_list", "storage_stat", "storage_read"}
StorageTools == StorageReads \cup {"storage_write", "storage_delete", "storage_move"}
RemoteTools == {"summarize_remote", "answer_remote"}
BrowserTools == {"web_search", "open_url", "web_answer"}
ExecTools == {"run_command", "write_workspace_file", "read_workspace_file"}

\* The tools on the dispatcher; those of MCP servers arrive when it starts.
RegisteredTools(on) ==
    UNION {CASE flag = "docqa"   -> DocqaTools \cup IF ImagesServed(on)
                                                    THEN {"answer_about_image"} ELSE {}
             [] flag = "storage" -> StorageTools \cup IF "docqa" \in on
                                                      THEN RemoteTools ELSE {}
             [] flag = "browser" -> BrowserTools
             [] flag = "exec"    -> ExecTools
             [] flag = "mcp"     -> {McpTool}
             [] OTHER            -> {} : flag \in on}

\* Mutant of SafeTools: the image tool is listed whenever documents are.
SafeToolsWithImages(on) ==
    DefaultSafeTools
      \cup (IF "docqa" \in on THEN DocqaTools \cup {"answer_about_image"} ELSE {})
      \cup (IF "storage" \in on THEN StorageReads ELSE {})
      \cup (IF {"storage", "docqa"} \subseteq on THEN RemoteTools ELSE {})
      \cup (IF "exec" \in on THEN {"read_workspace_file"} ELSE {})

\* The allowlist of the gate.
SafeTools(on) ==
    DefaultSafeTools
      \cup (IF "docqa" \in on THEN DocqaTools ELSE {})
      \cup (IF ImagesServed(on) THEN {"answer_about_image"} ELSE {})
      \cup (IF "storage" \in on THEN StorageReads ELSE {})
      \cup (IF {"storage", "docqa"} \subseteq on THEN RemoteTools ELSE {})
      \cup (IF "browser" \in on THEN {"web_search"} ELSE {})
      \cup (IF "exec" \in on THEN {"read_workspace_file"} ELSE {})

-----------------------------------------------------------------------------
(* Properties. *)

\* Every module the root registers has a name of its own, finds each of its
\* dependencies registered and starts after them, whatever is switched on;
\* with every module up, every capability is offered and each module that
\* calls the model has one (main.py:67-154 with registry.py:54-78).
ModulesFitTogether(on) ==
    LET reg == RegistrationOf(Rows(on))
        started == StartOrder(reg)
        place(name) == CHOOSE i \in 1 .. Len(started) : started[i] = name
    IN  ~Refused(on) =>
          /\ Cardinality(Names(reg)) = Len(Rows(on)) /\ Len(started) = Len(Rows(on))
          /\ \A row \in ToSet(Rows(on)) : \A dep \in ToSet(row.deps) :
                dep \in Names(reg) /\ place(dep) < place(row.name)
          /\ AvailableCapabilities(reg, Names(reg)) = UNION {ToSet(row.caps) : row \in ToSet(Rows(on))}
          /\ on \cap {"agent", "docqa", "browser"} # {} => "llm-serving" \in Names(reg)

\* A registered tool runs without an approval exactly when it only reads, and
\* what the allowlist names beyond the generic tools is registered
\* (main.py:193-251 with the rules of gate.py).
ToolsMatchTheirTier(on) ==
    LET benign(tool) == [tool |-> tool, malformed |-> FALSE, finds |-> {}]
        effects == {"storage_write", "storage_delete", "storage_move", "open_url",
                    "web_answer", "run_command", "write_workspace_file", McpTool}
    IN  ~Refused(on) =>
          /\ \A tool \in RegisteredTools(on) :
                Classify(SafeTools(on), benign(tool)) =
                  IF tool \in effects THEN "needs_confirmation" ELSE "safe"
          /\ SafeTools(on) \ DefaultSafeTools \subseteq RegisteredTools(on)
          /\ RegisteredTools(on) # {} => ChainBuilt(on)
          /\ "answer_about_image" \in RegisteredTools(on) =>
               \E row \in ToSet(Rows(on)) : "multimodal" \in ToSet(row.caps)
=============================================================================
