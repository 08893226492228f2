---------------------------- MODULE SafetyRules ----------------------------
(***************************************************************************)
(* The safety gate (modules/safety/gate.py) as a function: the verdict of  *)
(* classify for a proposed call, given the allowlist it was built with.    *)
(*                                                                         *)
(* A call is [tool, malformed, finds]: its tool, whether its shape is      *)
(* wrong, and what the patterns find in its arguments.                     *)
(***************************************************************************)
EXTENDS Integers, FiniteSets

-----------------------------------------------------------------------------
(* What the scan of every string in the arguments, and of every list of    *)
(* strings joined, may find.                                               *)

Finds ==
    {"catastrophic",    \* a command of _BLOCK_CMD
     "secret",          \* the path of a secret
     "system",          \* a system path
     "redirect",        \* a string that writes into a system path
     "tamper",          \* the agent's own configuration
     "nonlocal",        \* an absolute or escaping path
     "command",         \* a string under a command-like key
     "mutating",        \* such a string with a mutating verb
     "unexpandable"}    \* a string expanduser raises on

\* What the patterns can find together.
Consistent(finds) ==
    /\ "redirect" \in finds => "system" \in finds
    /\ "mutating" \in finds => "command" \in finds

\* A proposed call, of any tool.
ProposedCalls == [tool : STRING, malformed : BOOLEAN, finds : SUBSET Finds]

-----------------------------------------------------------------------------
(* The tools the rules name. *)

MutatingFileTools ==
    {"delete_file", "remove_file", "rm", "write_file", "overwrite_file", "move_file",
     "rename_file", "append_file", "edit_file", "create_file", "write_workspace_file"}
ShellTools == {"shell", "exec", "run_command", "bash", "sh", "system"}
ExternalPostTools ==
    {"http_post", "http_put", "http_delete", "send_email", "webhook", "post"}
NavTools ==
    {"navigate", "browser_navigate", "open_url", "download", "submit_form", "web_answer"}
StorageMutateTools ==
    {"storage_write", "storage_delete", "storage_rename", "storage_upload",
     "storage_move", "remote_write"}
DefaultSafeTools ==
    {"read_file", "list_dir", "list_files", "stat", "search", "web_search", "http_get",
     "fetch_url", "calculator", "translate", "summarize", "get_weather",
     "get_stock_price"}

\* A tool of an MCP server, one name for the prefix mcp__, and a tool whose
\* name alone says that it writes.
McpTool == "mcp__server__tool"
WriteNamed == {"save_note", "http_put", "http_delete"} \cup StorageMutateTools

IsWriteTool(tool) == tool \in MutatingFileTools \cup WriteNamed

-----------------------------------------------------------------------------
(* The rules. *)

BlockedRules(call) ==
    \/ "catastrophic" \in call.finds
    \/ "secret" \in call.finds
    \/ IsWriteTool(call.tool) /\ "system" \in call.finds
    \/ "redirect" \in call.finds
    \/ "tamper" \in call.finds

ConfirmRules(call) ==
    \/ call.tool \in MutatingFileTools \cup ShellTools \cup ExternalPostTools
                       \cup NavTools \cup StorageMutateTools \cup {McpTool}
    \/ {"command", "mutating", "system", "nonlocal"} \cap call.finds # {}

\* Mutant of Classify: the allowlist is looked up before the rules that confirm.
ClassifyAllowlistFirst(safeTools, call) ==
    IF call.malformed \/ BlockedRules(call) THEN "blocked"
    ELSE IF call.tool \in safeTools THEN "safe" ELSE "needs_confirmation"

\* The first rule looks at the strings as they are; every later one expands
\* them first, and what it raises becomes a confirmation.
Classify(safeTools, call) ==
    IF call.malformed \/ "catastrophic" \in call.finds THEN "blocked"
    ELSE IF "unexpandable" \in call.finds THEN "needs_confirmation"
    ELSE IF BlockedRules(call) THEN "blocked"
    ELSE IF ConfirmRules(call) THEN "needs_confirmation"
    ELSE IF call.tool \in safeTools THEN "safe" ELSE "needs_confirmation"

-----------------------------------------------------------------------------
(* Properties. *)

Severity(verdict) ==
    CASE verdict = "safe" -> 0 [] verdict = "needs_confirmation" -> 1 [] OTHER -> 2

EffectTools == MutatingFileTools \cup ShellTools \cup ExternalPostTools \cup NavTools
                  \cup StorageMutateTools \cup {McpTool}

\* A verdict of "safe" is earned: the tool is on the allowlist, changes nothing
\* and its arguments show nothing, even when the allowlist was given an effect
\* tool by mistake.  Nothing an argument shows in addition makes the verdict
\* milder, as long as it can be expanded, and no allowlist unblocks a call
\* (gate.py:258-287).  `more` is what is found in addition.
GateIsStrict(safeTools, call, more) ==
    LET verdict == Classify(safeTools, call)
        worse == [call EXCEPT !.finds = @ \cup more]
    IN  /\ verdict = "safe" => /\ call.tool \in safeTools \ EffectTools
                               /\ call.finds = {} /\ ~call.malformed
        /\ "unexpandable" \notin worse.finds =>
             Severity(Classify(safeTools, worse)) >= Severity(verdict)
        /\ "catastrophic" \in call.finds => verdict = "blocked"
        /\ verdict = "blocked" <=> Classify({}, call) = "blocked"
=============================================================================
