----------------------------- MODULE ExecSandbox -----------------------------
(***************************************************************************)
(* The execution sandbox: modules/exec/sandbox.py (DockerSandbox, the      *)
(* cleanup helpers, the subprocess runner) and modules/exec/module.py.     *)
(*                                                                         *)
(* One container and one named volume serve every tool call of a server    *)
(* process; their names are the same in every process.  A call creates the *)
(* container when it believes there is none, runs `docker exec`, and kills *)
(* the container when its command times out.  Each docker invocation is a  *)
(* client process which the call awaits: `asked` until Docker has acted,   *)
(* then answered.  A timeout kills the client; a cancellation only stops   *)
(* awaiting it, so what it asked for may still happen.                     *)
(*                                                                         *)
(* Docker is external.  A docker exec, kill or rm that is abandoned acts   *)
(* at once or never; a docker run, which may first fetch the image, may    *)
(* act at any later time, even after the server process has ended.         *)
(***************************************************************************)
EXTENDS Naturals

CONSTANTS
    Calls,  \* slots for tool calls in flight
    Lives   \* bound on the server processes that run one after the other

ASSUME LivesPositive == Lives \in Nat \ {0}

VARIABLES
    phase,     \* the module: down, removing, wiping, up, dropping
    life,      \* number of the server process
    created,   \* _created
    noted,     \* _volume is set
    at,        \* per call: idle, or the docker client it awaits
    reply,     \* per call: what that client has to tell
    outcome,   \* per call: how it ended last
    container, \* what Docker has under the container's name
    stored,    \* Docker has the named volume
    planted,   \* the processes whose commands wrote to that volume
    orphans,   \* calls whose command runs on without a client
    late,      \* calls that left a docker run on its way
    failed,    \* Docker has failed this process of its own accord, or it crashed
    overtaken  \* a docker run left on its way may act, or has acted, in this life

module == <<phase, life, created, noted>>
callers == <<at, reply, outcome>>
docker == <<container, stored, planted, orphans, late>>
ghosts == <<failed, overtaken>>
vars == <<module, callers, docker, ghosts>>

Working == {"command", "file"}
Places == {"idle", "create", "kill"} \cup Working
Replies == {"none", "asked", "live", "ok", "refused", "died"}
Outcomes == {"none", "exit", "error", "timeout"}

-----------------------------------------------------------------------------
(* What Docker does with the container.                                    *)

\* docker run makes the named volume when there is none.
Started == container' = "running" /\ stored' = TRUE

\* A killed container takes its commands along: their clients are told, those
\* without a client just end.
Killed(c) ==
    /\ container' = "exited"
    /\ orphans' = {}
    /\ reply' = [d \in Calls |-> IF reply[d] = "live" THEN "died"
                                 ELSE IF d = c THEN "ok" ELSE reply[d]]

Await(c, place) ==
    /\ at' = [at EXCEPT ![c] = place]
    /\ reply' = [reply EXCEPT ![c] = "asked"]

Return(c, result) ==
    /\ at' = [at EXCEPT ![c] = "idle"]
    /\ reply' = [reply EXCEPT ![c] = "none"]
    /\ outcome' = [outcome EXCEPT ![c] = result]

\* Mutant of Quiet: the modules are stopped under the calls.
Regardless == TRUE

Quiet == \A c \in Calls : at[c] = "idle"

-----------------------------------------------------------------------------
(* The module's start and stop.                                            *)

\* start: gc_orphans lists the containers that carry the prefix.
CollectFirst == IF container = "absent" THEN "wiping" ELSE "removing"

Boot ==
    /\ phase = "down" /\ life < Lives
    /\ life' = life + 1
    /\ overtaken' = (late # {})
    /\ \/ phase' = CollectFirst /\ failed' = FALSE
       \/ phase' = "wiping" /\ failed' = TRUE
    /\ UNCHANGED <<created, noted, callers, docker>>

\* ... and removes what it found.
RemoveOrphan ==
    /\ phase = "removing"
    /\ phase' = "wiping"
    /\ \/ container' = "absent" /\ orphans' = {} /\ UNCHANGED failed
       \/ UNCHANGED <<container, orphans>> /\ failed' = TRUE
    /\ UNCHANGED <<life, created, noted, callers, stored, planted, late, overtaken>>

\* Mutant of VolumeRemoved: only the containers are collected.
VolumeForgotten == UNCHANGED <<stored, planted>>

\* remove_volume: Docker refuses while a container, running or not, uses it.
VolumeRemoved ==
    IF container = "absent" THEN stored' = FALSE /\ planted' = {}
                            ELSE UNCHANGED <<stored, planted>>

Wipe ==
    /\ phase = "wiping"
    /\ phase' = "up"
    /\ \/ VolumeRemoved /\ UNCHANGED failed
       \/ UNCHANGED <<stored, planted>> /\ failed' = TRUE
    /\ UNCHANGED <<life, created, noted, callers, container, orphans, late, overtaken>>

\* stop comes after the last call has returned: the server waits for its
\* handlers before it stops the modules.  close: docker rm -f ...
AfterRemoval == IF noted THEN "dropping" ELSE "down"

Close ==
    /\ phase = "up" /\ Quiet
    /\ phase' = AfterRemoval
    /\ \/ container' = "absent" /\ orphans' = {} /\ UNCHANGED failed
       \/ UNCHANGED <<container, orphans>> /\ failed' = TRUE
    /\ UNCHANGED <<life, created, noted, callers, stored, planted, late, overtaken>>

\* ... then docker volume rm.  The process ends with its notes.
DropVolume ==
    /\ phase = "dropping"
    /\ phase' = "down"
    /\ created' = FALSE /\ noted' = FALSE
    /\ \/ VolumeRemoved /\ UNCHANGED failed
       \/ UNCHANGED <<stored, planted>> /\ failed' = TRUE
    /\ UNCHANGED <<life, callers, container, orphans, late, overtaken>>

-----------------------------------------------------------------------------
(* A tool call: run, read_file or write_file of DockerSandbox.             *)

\* Mutant of Notes: the volume is noted once the container is known to exist.
NotesLate(moment) == noted' = (noted \/ moment = "after")

\* _ensure notes the volume before it awaits docker run, not after.
Notes(moment) == noted' = (noted \/ moment = "before")

Call(c) ==
    /\ phase = "up" /\ at[c] = "idle"
    /\ \/ created /\ UNCHANGED noted /\ \E kind \in Working : Await(c, kind)
       \/ ~created /\ Notes("before") /\ Await(c, "create")
    /\ outcome' = [outcome EXCEPT ![c] = "none"]
    /\ UNCHANGED <<phase, life, created, docker, ghosts>>

\* Mutant of CreateAnswered: any answer to docker run is taken for success.
CreateReturned(c) ==
    /\ at[c] = "create" /\ reply[c] \in {"ok", "refused"}
    /\ created' = TRUE /\ Notes("after")
    /\ \E kind \in Working : Await(c, kind)
    /\ UNCHANGED <<phase, life, outcome, docker, ghosts>>

CreateAnswered(c) ==
    /\ at[c] = "create"
    /\ \/ /\ reply[c] = "ok"
          /\ created' = TRUE /\ Notes("after")
          /\ \E kind \in Working : Await(c, kind)
          /\ UNCHANGED outcome
       \/ /\ reply[c] = "refused"
          /\ Return(c, "error")
          /\ UNCHANGED <<created, noted>>
    /\ UNCHANGED <<phase, life, docker, ghosts>>

\* A docker run whose client is gone acts later, or not at all if the client
\* was killed before Docker knew of it.
Leaves(c) == late' = IF reply[c] = "asked" THEN late \cup {c} ELSE late

CreateTimesOut(c) ==
    /\ at[c] = "create" /\ reply[c] = "asked"
    /\ Leaves(c) \/ UNCHANGED late
    /\ Return(c, "error")
    /\ UNCHANGED <<module, container, stored, planted, orphans, ghosts>>

\* run reports any exit status of docker exec as the command's; a file
\* operation takes every status but zero for a failure.
Answered(c) ==
    /\ at[c] \in Working
    /\ reply[c] \in {"ok", "refused", "died"}
    /\ \/ at[c] = "command" /\ Return(c, "exit")
       \/ at[c] = "file" /\ reply[c] = "ok" /\ Return(c, "exit")
       \/ at[c] = "file" /\ Return(c, "error")
    /\ UNCHANGED <<module, docker, ghosts>>

\* The command of a client that is gone runs on in the container.
Abandons(c) ==
    \/ reply[c] \in {"asked", "live"} /\ container = "running"
       /\ orphans' = orphans \cup {c} /\ planted' = planted \cup {life}
    \/ reply[c] # "live" /\ UNCHANGED <<orphans, planted>>

\* Mutant of TimesOut: the command's client is killed and the container left alone.
TimesOutOnly(c) ==
    /\ at[c] \in Working /\ reply[c] \in {"asked", "live"}
    /\ Abandons(c)
    /\ Return(c, "timeout")
    /\ UNCHANGED <<module, container, stored, late, ghosts>>

TimesOut(c) ==
    /\ at[c] \in Working /\ reply[c] \in {"asked", "live"}
    /\ Abandons(c)
    /\ Await(c, "kill")
    /\ UNCHANGED <<module, outcome, container, stored, late, ghosts>>

\* Mutant of KillEnds: docker kill without a timeout of its own.
KillAnswered(c) ==
    /\ at[c] = "kill" /\ reply[c] # "asked"
    /\ Return(c, "timeout")
    /\ UNCHANGED <<module, docker, ghosts>>

\* _kill never raises, and is itself under a timeout.
KillEnds(c) ==
    /\ at[c] = "kill"
    /\ Return(c, "timeout")
    /\ UNCHANGED <<module, docker, ghosts>>

\* A disconnect cancels the orchestrator at the await it is in; the runner
\* leaves the docker client to itself.
Cancel(c) ==
    /\ at[c] # "idle"
    /\ \/ at[c] = "create" /\ Leaves(c) /\ UNCHANGED <<orphans, planted>>
       \/ at[c] \in Working /\ Abandons(c) /\ UNCHANGED late
       \/ at[c] = "kill" /\ UNCHANGED <<orphans, planted, late>>
    /\ Return(c, "none")
    /\ UNCHANGED <<module, container, stored, ghosts>>

-----------------------------------------------------------------------------
(* Docker acts on what a client asked.                                     *)

\* docker run fails when the name is taken, or for a reason of Docker's own,
\* and then it may leave a container that never ran.
DockerRuns(c) ==
    /\ at[c] = "create" /\ reply[c] = "asked"
    /\ \/ /\ container = "absent" /\ Started
          /\ reply' = [reply EXCEPT ![c] = "ok"]
          /\ UNCHANGED failed
       \/ /\ container # "absent"
          /\ reply' = [reply EXCEPT ![c] = "refused"]
          /\ UNCHANGED <<container, stored, failed>>
       \/ /\ container = "absent"
          /\ \/ container' = "exited" /\ stored' = TRUE
             \/ UNCHANGED <<container, stored>>
          /\ reply' = [reply EXCEPT ![c] = "refused"]
          /\ failed' = TRUE
    /\ UNCHANGED <<module, at, outcome, planted, orphans, late, overtaken>>

DockerStarts(c) ==
    /\ at[c] \in Working /\ reply[c] = "asked"
    /\ \/ /\ container = "running"
          /\ reply' = [reply EXCEPT ![c] = "live"]
          /\ planted' = planted \cup {life}
          /\ UNCHANGED failed
       \/ /\ reply' = [reply EXCEPT ![c] = "refused"]
          /\ failed' = (failed \/ container = "running")
          /\ UNCHANGED planted
    /\ UNCHANGED <<module, at, outcome, container, stored, orphans, late, overtaken>>

CommandEnds(c) ==
    /\ reply[c] = "live"
    /\ reply' = [reply EXCEPT ![c] = "ok"]
    /\ UNCHANGED <<module, at, outcome, docker, ghosts>>

OrphanEnds(c) ==
    /\ c \in orphans
    /\ orphans' = orphans \ {c}
    /\ UNCHANGED <<module, callers, container, stored, planted, late, ghosts>>

DockerKills(c) ==
    /\ at[c] = "kill" /\ reply[c] = "asked"
    /\ \/ container = "running" /\ Killed(c) /\ UNCHANGED failed
       \/ /\ reply' = [reply EXCEPT ![c] = "refused"]
          /\ failed' = (failed \/ container = "running")
          /\ UNCHANGED <<container, orphans>>
    /\ UNCHANGED <<module, at, outcome, stored, planted, late, overtaken>>

\* A docker run that nobody awaits any more.
LateRun(c) ==
    /\ c \in late
    /\ late' = late \ {c}
    /\ \/ container = "absent" /\ Started
       \/ container # "absent" /\ UNCHANGED <<container, stored>>
    /\ overtaken' = TRUE
    /\ UNCHANGED <<module, callers, planted, orphans, failed>>

\* The server process dies; the docker clients do not.
Crash ==
    /\ phase # "down"
    /\ phase' = "down" /\ created' = FALSE /\ noted' = FALSE
    /\ at' = [c \in Calls |-> "idle"]
    /\ reply' = [c \in Calls |-> "none"]
    /\ outcome' = [c \in Calls |-> "none"]
    /\ orphans' = orphans \cup {c \in Calls : reply[c] = "live"}
    /\ late' = late \cup {c \in Calls : at[c] = "create" /\ reply[c] = "asked"}
    /\ failed' = TRUE
    /\ UNCHANGED <<life, container, stored, planted, overtaken>>

-----------------------------------------------------------------------------
Init ==
    /\ phase = "down" /\ life = 0 /\ created = FALSE /\ noted = FALSE
    /\ at = [c \in Calls |-> "idle"]
    /\ reply = [c \in Calls |-> "none"]
    /\ outcome = [c \in Calls |-> "none"]
    /\ container = "absent" /\ stored = FALSE /\ planted = {}
    /\ orphans = {} /\ late = {}
    /\ failed = FALSE /\ overtaken = FALSE

\* What the event loop does for a call once something is ready for it.
Advance(c) ==
    CreateAnswered(c) \/ CreateTimesOut(c) \/ Answered(c) \/ TimesOut(c) \/ KillEnds(c)

Docker(c) ==
    DockerRuns(c) \/ DockerStarts(c) \/ CommandEnds(c) \/ OrphanEnds(c)
        \/ DockerKills(c) \/ LateRun(c)

Lifecycle == Boot \/ RemoveOrphan \/ Wipe \/ Close \/ DropVolume \/ Crash

Next == Lifecycle \/ \E c \in Calls : Call(c) \/ Advance(c) \/ Cancel(c) \/ Docker(c)

Spec == Init /\ [][Next]_vars

\* Every docker client is under a timeout, so a call is never stuck in one.
FairSpec == Spec /\ \A c \in Calls : WF_vars(Advance(c))

-----------------------------------------------------------------------------
(* What holds.                                                             *)

ModuleTyped ==
    /\ phase \in {"down", "removing", "wiping", "up", "dropping"}
    /\ life \in 0..Lives
    /\ created \in BOOLEAN /\ noted \in BOOLEAN /\ (created => noted)

CallsTyped ==
    /\ at \in [Calls -> Places] /\ reply \in [Calls -> Replies]
    /\ outcome \in [Calls -> Outcomes]
    /\ \A c \in Calls : at[c] = "idle" <=> reply[c] = "none"
    /\ phase # "up" => \A c \in Calls : at[c] = "idle"

DockerTyped ==
    /\ container \in {"absent", "running", "exited"}
    /\ stored \in BOOLEAN /\ planted \subseteq 1..Lives
    /\ orphans \subseteq Calls /\ late \subseteq Calls
    /\ failed \in BOOLEAN /\ overtaken \in BOOLEAN

\* The types; calls are in flight only while the module is up, each with its
\* docker client, and a call that believes in the container has the volume on
\* record for close.
SandboxTypeOK == ModuleTyped /\ CallsTyped /\ DockerTyped

\* The time-bomb guard of start(): a command never finds in the workspace
\* what a command of an earlier server process wrote, unless Docker failed
\* the cleanup or a docker run of that process came in between.
WorkspaceStartsFresh ==
    (\E c \in Calls : reply[c] = "live") /\ ~failed /\ ~overtaken => planted \subseteq {life}

\* What the code believes about the container is backed by one: once a call
\* has seen its docker run succeed, the name stays taken until close.
CreatedIsBacked == created /\ phase = "up" => container # "absent" /\ stored

\* The sandbox in every state: types, a container behind what the code believes
\* of it, and a workspace of its own life only.
SandboxIsBacked == SandboxTypeOK /\ CreatedIsBacked /\ WorkspaceStartsFresh

\* close() leaves neither the container nor the volume, whatever timed out or
\* was cancelled before, as long as Docker obeys and no docker run is late.
CleanStopLeavesNothing ==
    [][phase # "down" /\ phase' = "down" /\ ~failed' /\ ~overtaken'
        => container' = "absent" /\ ~stored']_vars

\* Once a call has reported a timeout, and Docker has obeyed the kill, its
\* command no longer runs, however many calls share the container.
TimedOutCommandsAreGone ==
    [][\A c \in Calls :
        /\ outcome[c] # "timeout" /\ outcome'[c] = "timeout"
        /\ at[c] = "kill" => reply[c] = "ok"
        => c \notin orphans']_vars

\* Every tool call returns, however long its command runs.
ToolCallsReturn == \A c \in Calls : at[c] # "idle" ~> at[c] = "idle"
=============================================================================
