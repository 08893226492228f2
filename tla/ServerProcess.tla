--------------------------- MODULE ServerProcess ---------------------------
(***************************************************************************)
(* One server process after the other over one disk: the composition root  *)
(* (main.py) builds the application and reads the ingest store back, the   *)
(* lifespan of the gateway starts the registry's modules, requests are     *)
(* served, and the modules are stopped; or the process is killed anywhere. *)
(*                                                                         *)
(* Composes ModuleRegistry, McpServers (the module "mcp") and IngestStore. *)
(***************************************************************************)
EXTENDS ModuleRegistry, McpServers, IngestStore

CONSTANTS
    Registration,   \* [order, deps, caps] of the modules that main.py built
    MayRaise,       \* modules whose start() may raise
    Moody,          \* modules whose own health changes while they run
    MaxBoots        \* bound: processes ever started

ASSUME BootsBound == MaxBoots \in Nat

Mcp == "mcp"
Modules == Names(Registration)

\* What main.py registers: the names and dependencies are lists, no module needs
\* itself over any number of steps, and the MCP module's health is its own.
ASSUME RegistrationIsAList ==
    /\ Registration.order \in Seq(Modules)
    /\ \A m \in Modules : Registration.deps[m] \in Seq(ToSet(Registration.deps[m]))
ASSUME DependenciesEnd ==
    \A S \in SUBSET Modules : S # {} => \E m \in S : ToSet(Registration.deps[m]) \cap S = {}
ASSUME McpIsNotMoody == Mcp \notin Moody

VARIABLES
    phase,      \* of the process: off, starting, serving, stopping, stopped
    todo,       \* what start_all has still to start, in order
    started,    \* _started, in start order
    errors,     \* start_errors
    sick,       \* modules that started and report themselves down
    boots       \* processes started so far

registryVars == <<phase, todo, started, errors, sick, boots>>
vars == <<phase, todo, started, errors, sick, boots, mcp, procs, guarded,
          disk, records, acked, failed>>

Healthy ==
    {m \in ToSet(started) : IF m = Mcp THEN McpHealth \in {"ok", "degraded"} ELSE m \notin sick}

-----------------------------------------------------------------------------
(* The lifespan. *)

\* build_application and the entry of the lifespan.
Boot ==
    /\ phase \in {"off", "stopped"} /\ boots < MaxBoots
    /\ phase' = "starting" /\ boots' = boots + 1
    /\ todo' = StartOrder(Registration)
    /\ started' = <<>> /\ errors' = {} /\ sick' = {}
    /\ mcp' = [at |-> "off", next |-> 1] /\ procs' = {} /\ guarded' = {}
    /\ Rebuild

\* The start() of the next module returns ...
StartReturns ==
    /\ phase = "starting" /\ todo # <<>>
    /\ Head(todo) = Mcp => mcp.at = "up"
    /\ todo' = Tail(todo)
    /\ started' = Append(started, Head(todo))
    /\ UNCHANGED <<phase, errors, sick, boots>> /\ UNCHANGED <<mcpVars, ingestVars>>

\* Mutant of StartRaises: the exception ends the startup.
StartRaisesOut ==
    /\ phase = "starting" /\ todo # <<>>
    /\ IF Head(todo) = Mcp THEN mcp.at = "raised" ELSE Head(todo) \in MayRaise
    /\ todo' = <<>> /\ errors' = errors \cup {Head(todo)} /\ phase' = "stopping"
    /\ UNCHANGED <<started, sick, boots>> /\ UNCHANGED <<mcpVars, ingestVars>>

\* ... or raises: recorded, and the rest still start.
StartRaises ==
    /\ phase = "starting" /\ todo # <<>>
    /\ IF Head(todo) = Mcp THEN mcp.at = "raised" ELSE Head(todo) \in MayRaise
    /\ todo' = Tail(todo)
    /\ errors' = errors \cup {Head(todo)}
    /\ UNCHANGED <<phase, started, sick, boots>> /\ UNCHANGED <<mcpVars, ingestVars>>

\* The start() of the MCP module, one await after the other.
McpAdvances ==
    /\ phase = "starting" /\ todo # <<>> /\ Head(todo) = Mcp
    /\ McpStarts \/ NameRefused \/ Spawned \/ NotSpawned \/ Listed \/ ConnectFails
    /\ UNCHANGED <<registryVars, ingestVars>>

Serve ==
    /\ phase = "starting" /\ todo = <<>>
    /\ phase' = "serving"
    /\ UNCHANGED <<todo, started, errors, sick, boots>> /\ UNCHANGED <<mcpVars, ingestVars>>

\* The server has drained its requests and leaves the lifespan.
BeginStop ==
    /\ phase = "serving"
    /\ phase' = "stopping"
    /\ UNCHANGED <<todo, started, errors, sick, boots>> /\ UNCHANGED <<mcpVars, ingestVars>>

\* Mutant of NextToStop: in the order of the starts.
NextToStopFirst == 1

NextToStop == Len(started)

\* Mutant of StopModule: a module that reports itself down is not stopped.
StopModuleWhenWell ==
    /\ phase = "stopping" /\ started # <<>> /\ started[NextToStop] \notin sick
    /\ IF started[NextToStop] = Mcp THEN McpStops ELSE UNCHANGED mcpVars
    /\ started' = RemoveAt(started, NextToStop)
    /\ UNCHANGED <<phase, todo, errors, sick, boots>> /\ UNCHANGED ingestVars

\* stop_all: in reverse; a stop() that raises is only logged.
StopModule ==
    /\ phase = "stopping" /\ started # <<>>
    /\ IF started[NextToStop] = Mcp THEN McpStops ELSE UNCHANGED mcpVars
    /\ started' = RemoveAt(started, NextToStop)
    /\ UNCHANGED <<phase, todo, errors, sick, boots>> /\ UNCHANGED ingestVars

Stopped ==
    /\ phase = "stopping" /\ started = <<>>
    /\ phase' = "stopped"
    /\ UNCHANGED <<todo, started, errors, sick, boots>> /\ UNCHANGED <<mcpVars, ingestVars>>

-----------------------------------------------------------------------------
(* While the process serves. *)

HealthChanges(m) ==
    /\ phase = "serving" /\ m \in ToSet(started)
    /\ sick' = IF m \in sick THEN sick \ {m} ELSE sick \cup {m}
    /\ UNCHANGED <<phase, todo, started, errors, boots>> /\ UNCHANGED <<mcpVars, ingestVars>>

McpServerDies ==
    /\ phase \in {"starting", "serving"}
    /\ \E s \in procs : ServerDies(s)
    /\ UNCHANGED <<registryVars, ingestVars>>

\* POST /ingest
Ingest ==
    /\ phase = "serving"
    /\ \E size \in Sizes : Upload(size) \/ UploadFails(size)
    /\ UNCHANGED <<registryVars, mcpVars>>

\* The process is killed; the subprocesses lose their pipes and end.
Kill ==
    /\ phase \notin {"off", "stopped"}
    /\ phase' = "off"
    /\ todo' = <<>> /\ started' = <<>> /\ errors' = {} /\ sick' = {}
    /\ mcp' = [at |-> "off", next |-> 1] /\ procs' = {} /\ guarded' = {}
    /\ \/ Killed
       \/ phase = "serving" /\ \E size \in Sizes : KilledInUpload(size)
    /\ UNCHANGED boots

Init ==
    /\ phase = "off" /\ todo = <<>> /\ started = <<>> /\ errors = {} /\ sick = {}
    /\ boots = 0
    /\ McpInit /\ IngestInit

Startup == StartReturns \/ StartRaises \/ McpAdvances \/ Serve
Shutdown == StopModule \/ Stopped

Next ==
    \/ Boot \/ Startup \/ BeginStop \/ Shutdown
    \/ \E m \in Moody : HealthChanges(m)
    \/ McpServerDies \/ Ingest \/ Kill

\* Each start() and stop() returns or raises: connect_timeout bounds the
\* servers that do not answer.
Spec == Init /\ [][Next]_vars
FairSpec == Spec /\ WF_vars(Startup) /\ WF_vars(Shutdown)

-----------------------------------------------------------------------------
(* Properties. *)

Up == phase \in {"starting", "serving", "stopping"}

TypeOK ==
    /\ phase \in {"off", "starting", "serving", "stopping", "stopped"}
    /\ ToSet(todo) \subseteq Modules /\ ToSet(started) \subseteq Modules
    /\ errors \subseteq Modules /\ sick \subseteq Modules
    /\ boots \in 0 .. MaxBoots
    /\ mcp.at \in {"off", "connect", "session", "up", "raised", "stopped"}
    /\ mcp.next \in 1 .. Len(Servers) + 1
    /\ mcp.at \in {"connect", "session"} <=> mcp.next <= Len(Servers) /\ mcp.at \notin {"off", "raised"}
    /\ procs \subseteq ToSet(Servers) /\ guarded \subseteq ToSet(Servers)
    /\ DOMAIN disk \subseteq UploadIds /\ DOMAIN records \subseteq UploadIds
    /\ acked \subseteq UploadIds /\ failed \subseteq UploadIds

\* A module runs only while every module it depends on runs, from start to
\* stop; a dependency whose start raised is the one exception.
NothingOutlivesADependency ==
    \A m \in ToSet(started) : \A dep \in ToSet(Registration.deps[m]) \cap Modules :
        dep \in ToSet(started) \/ dep \in errors

\* A capability on offer has its provider, and every module below it, started
\* and well: a failed start is offered by nobody, however healthy its
\* dependents feel.
OfferedMeansUsable ==
    \A cap \in AvailableCapabilities(Registration, Healthy) :
        \E m \in ToSet(started) :
            /\ cap \in ToSet(Registration.caps[m]) /\ m \notin sick
            /\ \A dep \in ToSet(Registration.deps[m]) :
                  dep \in ToSet(started) \ sick /\ dep \notin errors

\* The modules in every state: types, nothing runs on what does not run, and
\* nothing is offered that cannot be used.
ModulesRestOnTheirDependencies == TypeOK /\ NothingOutlivesADependency /\ OfferedMeansUsable

\* The store and the disk agree in every process that is up, and what a
\* client was given an id for is there, whole, over crashes and restarts; the
\* store goes over its caps only by what failed writes have left on the disk.
StoreIsSound ==
    /\ Up => RecordsMatchDisk /\ AckedFilesAreWhole
    /\ OnlyFailedWritesOverrun

\* No subprocess outlives an orderly stop, unless a misnamed server made the
\* start() of the module raise: such a module is never stopped.
ShutdownClosesServers ==
    /\ phase = "stopped" => procs \subseteq (IF mcp.at = "raised" THEN guarded ELSE {})
    /\ mcp.at = "raised" => \E s \in ToSet(Servers) : s \in Misnamed
    /\ procs \subseteq guarded \/ mcp.at = "session"

\* Whatever starts or fails to start, a process that is not killed comes to
\* serve: no module, and no server of the MCP module, can hold it up.
StartupCompletes == phase = "starting" ~> phase \in {"serving", "off"}

\* And it comes to a stop, whatever state its modules are in.
ShutdownCompletes == phase = "stopping" ~> phase \in {"stopped", "off"}

\* Whatever fails, a process neither hangs in its start nor in its stop.
ProcessSettles == StartupCompletes /\ ShutdownCompletes
=============================================================================
