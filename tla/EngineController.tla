-------------------------- MODULE EngineController --------------------------
(***************************************************************************)
(* The serving engine's process controller, model_manager/process.py, and  *)
(* the module around it, model_manager/module.py, with the gateway routes  *)
(* that call them.                                                         *)
(*                                                                         *)
(* start, stop and switch are serialised by one asyncio.Lock, which hands  *)
(* over to its waiters in order.  A call suspends where the code awaits    *)
(* something that is not ready: the lock, the spawn, a readiness probe,    *)
(* the sleep between two probes, the end of a process.  Between two awaits *)
(* a call is one atomic step.  The engine process runs beside all this and *)
(* may exit at any moment.                                                 *)
(*                                                                         *)
(* A call is a record in a slot of Calls; a slot is used again once its    *)
(* call has returned, so Calls bounds the calls in flight, not the calls.  *)
(***************************************************************************)
EXTENDS Integers, Sequences

CONSTANTS
    Calls,      \* slots for calls in flight
    Files,      \* GGUF files that pass validation
    Pids,       \* process identities
    MaxPolls,   \* readiness_timeout / poll_interval, rounded up
    NoCall, NoFile, NoProcess

ASSUME PollsPositive == MaxPolls \in Nat \ {0}
ASSUME NothingIsNothing == NoCall \notin Calls /\ NoFile \notin Files /\ NoProcess \notin Pids

VARIABLES
    state,      \* _state
    handle,     \* _handle: the process the controller knows
    loadedFile, \* _loaded_file
    waited,     \* polls slept in the readiness loop under way
    holder,     \* _lock: the call that holds it
    waiters,    \* _lock: the calls that wait for it, in order
    pc,         \* per call: where it is suspended
    call,       \* per call: what it does, and with which file
    runs,       \* per process identity: the file the running process serves
    phase       \* the module: up, closing (stop is waiting), down

vars == <<state, handle, loadedFile, waited, holder, waiters, pc, call, runs, phase>>

EngineStates == {"unloaded", "loading", "ready", "error", "stopping"}
Requests == [kind : {"load", "switch"}, file : Files]
            \cup [kind : {"unload", "shutdown"}, file : {NoFile}]
NoRequest == [kind |-> "none", file |-> NoFile]

\* Where a call that holds the lock may be suspended in _start_locked.
Starting == {"spawning", "spawned", "probing", "sleeping", "expiring"}
Points == {"idle", "created", "queued", "ending"} \cup Starting

-----------------------------------------------------------------------------
(* Reading `state` is not passive: it turns a ready engine whose process   *)
(* has exited into an error.                                               *)

\* The engine processes that run.
Alive == {p \in Pids : runs[p] # NoFile}

Exited == handle # NoProcess /\ handle \notin Alive

\* Mutant of Reconciled: the name of the file survives the crash.
ReconciledKeepingFile ==
    IF state = "ready" /\ Exited
    THEN [state |-> "error", loadedFile |-> loadedFile]
    ELSE [state |-> state, loadedFile |-> loadedFile]

Reconciled ==
    IF state = "ready" /\ Exited
    THEN [state |-> "error", loadedFile |-> NoFile]
    ELSE [state |-> state, loadedFile |-> loadedFile]

Reconcile == state' = Reconciled.state /\ loadedFile' = Reconciled.loadedFile

-----------------------------------------------------------------------------
(* The lock.                                                               *)

Acquire(c) ==
    IF holder = NoCall THEN holder' = c /\ UNCHANGED waiters
                       ELSE waiters' = Append(waiters, c) /\ UNCHANGED holder

Release ==
    IF waiters = <<>> THEN holder' = NoCall /\ UNCHANGED waiters
                      ELSE holder' = Head(waiters) /\ waiters' = Tail(waiters)

GoTo(c, point) == pc' = [pc EXCEPT ![c] = point]

Suspend(c, point) == GoTo(c, point) /\ UNCHANGED <<holder, waiters, phase>>

\* A call returns or raises: `async with` releases the lock, locals are gone.
Return(c) ==
    /\ GoTo(c, "idle")
    /\ call' = [call EXCEPT ![c] = NoRequest]
    /\ waited' = 0
    /\ Release
    /\ phase' = IF call[c].kind = "shutdown" THEN "down" ELSE phase

-----------------------------------------------------------------------------
(* The requests.  launch_load and launch_switch create a task that asks    *)
(* for the lock when the event loop first runs it; unload and the module's *)
(* stop ask for it at once.                                                *)

New(c, kind, f, point) ==
    /\ pc[c] = "idle"
    /\ GoTo(c, point)
    /\ call' = [call EXCEPT ![c] = [kind |-> kind, file |-> f]]

LaunchLoad(c, f) ==
    /\ phase = "up"
    /\ Reconcile
    /\ Reconciled.state \notin {"loading", "ready"}
    /\ New(c, "load", f, "created")
    /\ UNCHANGED <<handle, waited, holder, waiters, runs, phase>>

LaunchSwitch(c, f) ==
    /\ phase = "up"
    /\ Reconcile
    /\ Reconciled.state # "loading"
    /\ New(c, "switch", f, "created")
    /\ UNCHANGED <<handle, waited, holder, waiters, runs, phase>>

Unload(c) ==
    /\ phase = "up"
    /\ New(c, "unload", NoFile, "queued")
    /\ Acquire(c)
    /\ UNCHANGED <<state, handle, loadedFile, waited, runs, phase>>

\* The server has answered every request, and the loop has run every task
\* once, before it stops the modules; loads and switches may be under way.
Quiet ==
    /\ phase = "up"
    /\ \A c \in Calls : pc[c] # "created" /\ call[c].kind # "unload"

\* Mutant of Shutdown: the module stops the engine without the lock.
ShutdownUnlocked(c) ==
    /\ Quiet
    /\ pc[c] = "idle"
    /\ phase' = "down"
    /\ state' = "unloaded"
    /\ loadedFile' = NoFile
    /\ handle' = NoProcess
    /\ runs' = [p \in Pids |-> IF p = handle THEN NoFile ELSE runs[p]]
    /\ UNCHANGED <<waited, holder, waiters, pc, call>>

Shutdown(c) ==
    /\ Quiet
    /\ phase' = "closing"
    /\ New(c, "shutdown", NoFile, "queued")
    /\ Acquire(c)
    /\ UNCHANGED <<state, handle, loadedFile, waited, runs>>

\* A refused launch, /model/status, health and every is_serving look at state.
ReadState ==
    /\ Reconcile
    /\ UNCHANGED <<handle, waited, holder, waiters, pc, call, runs, phase>>

Enter(c) ==
    /\ pc[c] = "created"
    /\ GoTo(c, "queued")
    /\ Acquire(c)
    /\ UNCHANGED <<state, handle, loadedFile, waited, call, runs, phase>>

-----------------------------------------------------------------------------
(* _start_locked.                                                          *)

Holds(c, point) == holder = c /\ pc[c] = point

\* Mutant of AlreadyUp: a ready engine is not noticed.
AlreadyUpLoading(s) == s = "loading"

AlreadyUp(s) == s \in {"ready", "loading"}

LoadFindsEngine(c) ==
    /\ Holds(c, "queued")
    /\ call[c].kind = "load"
    /\ AlreadyUp(Reconciled.state)
    /\ Reconcile
    /\ Return(c)
    /\ UNCHANGED <<handle, runs>>

\* The file was removed after the request was validated: ValueError.
LoadRejected(c) ==
    /\ Holds(c, "queued")
    /\ call[c].kind = "load"
    /\ ~AlreadyUp(Reconciled.state)
    /\ Reconcile
    /\ Return(c)
    /\ UNCHANGED <<handle, runs>>

LoadBegins(c) ==
    /\ Holds(c, "queued")
    /\ call[c].kind = "load"
    /\ ~AlreadyUp(Reconciled.state)
    /\ state' = "loading"
    /\ loadedFile' = Reconciled.loadedFile
    /\ Suspend(c, "spawning")
    /\ UNCHANGED <<handle, waited, call, runs>>

SpawnFails(c) ==
    /\ Holds(c, "spawning")
    /\ state' = "error"
    /\ handle' = NoProcess
    /\ Return(c)
    /\ UNCHANGED <<loadedFile, runs>>

Spawned(c, p) ==
    /\ Holds(c, "spawning")
    /\ p \notin Alive \cup {handle}
    /\ runs' = [runs EXCEPT ![p] = call[c].file]
    /\ handle' = p
    /\ waited' = 0
    /\ Suspend(c, "spawned")
    /\ UNCHANGED <<state, loadedFile, call>>

\* Mutant of Polls: the sleeps are not counted.
PollsUncounted(c) == 0

\* What `waited` is at the top of the loop: each sleep adds one.
Polls(c) == IF pc[c] = "sleeping" THEN waited + 1 ELSE 0

AtLoopTop(c) == holder = c /\ pc[c] \in {"spawned", "sleeping"}

\* Mutant of InTime: one probe too many.
InTimeInclusive(c) == Polls(c) <= MaxPolls

InTime(c) == Polls(c) < MaxPolls

ExitedDuringLoad(c) ==
    /\ AtLoopTop(c)
    /\ InTime(c)
    /\ Exited
    /\ state' = "error"
    /\ handle' = NoProcess
    /\ Return(c)
    /\ UNCHANGED <<loadedFile, runs>>

Probe(c) ==
    /\ AtLoopTop(c)
    /\ InTime(c)
    /\ ~Exited
    /\ waited' = Polls(c)
    /\ Suspend(c, "probing")
    /\ UNCHANGED <<state, handle, loadedFile, call, runs>>

\* The answer may be older than an exit of the process.
ProbeSucceeds(c) ==
    /\ Holds(c, "probing")
    /\ state' = "ready"
    /\ loadedFile' = call[c].file
    /\ Return(c)
    /\ UNCHANGED <<handle, runs>>

ProbeFails(c) ==
    /\ Holds(c, "probing")
    /\ Suspend(c, "sleeping")
    /\ UNCHANGED <<state, handle, loadedFile, waited, call, runs>>

\* The loop is over: _terminate_handle.  Only a running process makes it wait.
ReadinessTimesOut(c) ==
    /\ AtLoopTop(c)
    /\ ~InTime(c)
    /\ ~Exited
    /\ Suspend(c, "expiring")
    /\ UNCHANGED <<state, handle, loadedFile, waited, call, runs>>

\* Mutant of Terminate: the handle is dropped, the process is not ended.
ForgetProcess == handle' = NoProcess /\ UNCHANGED runs

Terminate ==
    /\ handle' = NoProcess
    /\ runs' = [p \in Pids |-> IF p = handle THEN NoFile ELSE runs[p]]

LoadTimedOut(c) ==
    /\ \/ Holds(c, "expiring")
       \/ AtLoopTop(c) /\ ~InTime(c) /\ Exited
    /\ Terminate
    /\ state' = "error"
    /\ Return(c)
    /\ UNCHANGED loadedFile

-----------------------------------------------------------------------------
(* _stop_locked, and switch, which goes on to _start_locked without an     *)
(* await of its own.                                                       *)

Stops(c) == call[c].kind \in {"switch", "unload", "shutdown"}

StopBegins(c) ==
    /\ Holds(c, "queued")
    /\ Stops(c)
    /\ handle \in Alive
    /\ state' = "stopping"
    /\ Suspend(c, "ending")
    /\ UNCHANGED <<handle, loadedFile, waited, call, runs>>

\* The step in which _stop_locked returns: at once when no process runs.
StopEnds(c) ==
    /\ \/ Holds(c, "ending")
       \/ Holds(c, "queued") /\ Stops(c) /\ handle \notin Alive
    /\ Terminate
    /\ loadedFile' = NoFile

\* unload and shutdown are done; so is a switch whose file is gone by now.
Unloaded(c) ==
    /\ StopEnds(c)
    /\ state' = "unloaded"
    /\ Return(c)

SwitchStarts(c) ==
    /\ StopEnds(c)
    /\ call[c].kind = "switch"
    /\ state' = "loading"
    /\ Suspend(c, "spawning")
    /\ UNCHANGED <<waited, call>>

-----------------------------------------------------------------------------
\* An engine process exits by itself: a crash, the OOM killer, an operator.
Crash(p) ==
    /\ p \in Alive
    /\ runs' = [runs EXCEPT ![p] = NoFile]
    /\ UNCHANGED <<state, handle, loadedFile, waited, holder, waiters, pc, call, phase>>

Init ==
    /\ state = "unloaded"
    /\ handle = NoProcess
    /\ loadedFile = NoFile
    /\ waited = 0
    /\ holder = NoCall
    /\ waiters = <<>>
    /\ pc = [c \in Calls |-> "idle"]
    /\ call = [c \in Calls |-> NoRequest]
    /\ runs = [p \in Pids |-> NoFile]
    /\ phase = "up"

Load(c) ==
    \/ LoadFindsEngine(c)
    \/ LoadRejected(c)
    \/ LoadBegins(c)
    \/ SpawnFails(c)
    \/ \E p \in Pids : Spawned(c, p)
    \/ ExitedDuringLoad(c)
    \/ Probe(c)
    \/ ProbeSucceeds(c)
    \/ ProbeFails(c)
    \/ ReadinessTimesOut(c)
    \/ LoadTimedOut(c)

Stop(c) == StopBegins(c) \/ Unloaded(c) \/ SwitchStarts(c)

Advance(c) == Enter(c) \/ Load(c) \/ Stop(c)

Next ==
    \/ \E c \in Calls, f \in Files : LaunchLoad(c, f) \/ LaunchSwitch(c, f)
    \/ \E c \in Calls : Unload(c) \/ Shutdown(c) \/ Advance(c)
    \/ ReadState
    \/ \E p \in Pids : Crash(p)

\* The event loop runs every task that can run; a spawn returns or raises, a
\* probe has a timeout of its own, and SIGKILL ends what SIGTERM does not.
Fairness == \A c \in Calls : WF_vars(Advance(c))

Spec == Init /\ [][Next]_vars
FairSpec == Spec /\ Fairness

-----------------------------------------------------------------------------
(* What must hold.                                                         *)

EngineTypeOK ==
    /\ state \in EngineStates
    /\ handle \in Pids \cup {NoProcess}
    /\ loadedFile \in Files \cup {NoFile}
    /\ waited \in 0..(MaxPolls - 1)
    /\ holder \in Calls \cup {NoCall}
    /\ waiters \in Seq(Calls)
    /\ pc \in [Calls -> Points]
    /\ call \in [Calls -> Requests \cup {NoRequest}]
    /\ runs \in [Pids -> Files \cup {NoFile}]
    /\ phase \in {"up", "closing", "down"}

\* However requests, probes, timeouts and crashes interleave, at most one
\* engine process runs, the controller knows it, and a state that says there
\* is no engine is true: 27 GB of weights do not stay behind on the GPU.
NoStrayEngine ==
    /\ Alive \subseteq {handle}
    /\ state \in {"unloaded", "error"} => Alive = {}

\* The engine in every state: well-formed, and no process on the GPU that the
\* controller does not hold.
EngineIsAccountedFor == EngineTypeOK /\ NoStrayEngine

\* The file the status route reports is the one the process was started with,
\* and a file is reported just when an engine serves or is being stopped.
ReportedFileIsServed ==
    /\ state = "ready" => loadedFile # NoFile
    /\ loadedFile # NoFile =>
         /\ state \in {"ready", "stopping"}
         /\ handle \in Alive => runs[handle] = loadedFile

\* A load accepted before another one finished must not tear the engine down:
\* only a call that was asked to stop takes a running engine out of service.
ServingIsNotDisturbed ==
    [][ state = "ready" /\ handle \in Alive /\ state' # "ready"
          => holder # NoCall /\ Stops(holder) ]_vars

\* When the application has stopped the module no engine outlives it, whatever
\* was still queued when the stop was called.
ShutdownLeavesNoEngine == phase = "down" => Alive = {}

\* Every accepted call returns, behind any queue of loads, timeouts, crashes.
CallsReturn == \A c \in Calls : pc[c] # "idle" ~> pc[c] = "idle"
=============================================================================
