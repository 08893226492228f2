----------------------------- MODULE McpServers -----------------------------
(***************************************************************************)
(* The MCP module (modules/mcp): the operator's servers, one subprocess    *)
(* and one pinned list of tools each, connected one after the other when   *)
(* the module starts and closed when it stops.                             *)
(*                                                                         *)
(* The SDK, the subprocesses and what they list are external.  A server    *)
(* name that the configuration accepts and the policy's stricter pattern   *)
(* refuses makes the constructor of the guarded client raise, which is     *)
(* outside the try block that isolates a server.                           *)
(***************************************************************************)
EXTENDS Integers, Sequences, SequencesExt, FiniteSets

CONSTANTS
    Servers,        \* names of the configured servers, in file order
    Misnamed        \* those that may have a name the policy refuses

ASSUME ServersAreNamed == Servers \in Seq(ToSet(Servers)) /\ Misnamed \subseteq ToSet(Servers)

VARIABLES
    mcp,        \* start(): [at, next]: what it does, and to which server
    procs,      \* servers whose subprocess is running
    guarded     \* _guarded: the connected clients, whose tools are registered

mcpVars == <<mcp, procs, guarded>>

Server == Servers[mcp.next]
Connecting == mcp.at \in {"connect", "session"}

\* Mutant of NextServer: the last server is not waited for.
NextServerEarly ==
    mcp' = IF mcp.next + 1 < Len(Servers)
           THEN [at |-> "connect", next |-> mcp.next + 1]
           ELSE [at |-> "up", next |-> mcp.next + 1]

\* On to the next server; past the last, start() returns.
NextServer ==
    mcp' = IF mcp.next < Len(Servers)
           THEN [at |-> "connect", next |-> mcp.next + 1]
           ELSE [at |-> "up", next |-> mcp.next + 1]

McpStarts ==
    /\ mcp.at = "off"
    /\ mcp' = [at |-> IF Servers = <<>> THEN "up" ELSE "connect", next |-> 1]
    /\ UNCHANGED <<procs, guarded>>

\* The constructor refuses the name: start() raises, as far as it got.
NameRefused ==
    /\ mcp.at = "connect" /\ Server \in Misnamed
    /\ mcp' = [mcp EXCEPT !.at = "raised"]
    /\ UNCHANGED <<procs, guarded>>

\* stdio_client: the subprocess is spawned, its session is opened.
Spawned ==
    /\ mcp.at = "connect"
    /\ mcp' = [mcp EXCEPT !.at = "session"]
    /\ procs' = procs \cup {Server}
    /\ UNCHANGED guarded

\* A secret is not set, or the command cannot be run: skipped.
NotSpawned ==
    /\ mcp.at = "connect"
    /\ NextServer
    /\ UNCHANGED <<procs, guarded>>

\* initialize and list_tools answered: the tools are pinned and registered.
Listed ==
    /\ mcp.at = "session"
    /\ guarded' = guarded \cup {Server}
    /\ NextServer
    /\ UNCHANGED procs

\* Mutant of ConnectFails: the exit stack of the attempt is not closed.
ConnectFailsOpen ==
    /\ mcp.at = "session"
    /\ NextServer
    /\ UNCHANGED <<procs, guarded>>

\* An error or the connect timeout: the stack is closed, the server skipped.
ConnectFails ==
    /\ mcp.at = "session"
    /\ procs' = procs \ {Server}
    /\ NextServer
    /\ UNCHANGED guarded

\* stop(): every connected client is closed.
McpStops ==
    /\ procs' = procs \ guarded
    /\ mcp' = [mcp EXCEPT !.at = "stopped"]
    /\ UNCHANGED guarded

\* A subprocess ends by itself; nothing in the module notices.
ServerDies(s) ==
    /\ s \in procs \cap guarded
    /\ procs' = procs \ {s}
    /\ UNCHANGED <<mcp, guarded>>

\* health(): counts what connected at start.
McpHealth ==
    CASE mcp.at # "up" -> "absent"
      [] mcp.at = "up" /\ Servers = <<>> -> "degraded"
      [] mcp.at = "up" /\ Servers # <<>> /\ guarded = {} -> "down"
      [] mcp.at = "up" /\ guarded # {} /\ Cardinality(guarded) < Len(Servers) -> "degraded"
      [] OTHER -> "ok"

\* What a call of a registered tool may return, within call_timeout.
CallOutcomes(s) ==
    IF s \notin guarded THEN {"blocked"}
    ELSE IF mcp.at # "up" \/ s \notin procs THEN {"unavailable"}
    ELSE {"ok", "tool_error", "unavailable"}

McpInit == mcp = [at |-> "off", next |-> 1] /\ procs = {} /\ guarded = {}
=============================================================================
