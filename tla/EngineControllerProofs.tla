----------------------- MODULE EngineControllerProofs -----------------------
(***************************************************************************)
(* Proofs about the engine controller, for any number of calls in flight,  *)
(* any files, any processes and any length of the readiness loop.          *)
(***************************************************************************)
EXTENDS EngineController, TLAPS

\* Where a call works on the engine, and so holds the lock.
Working == Starting \cup {"ending"}

\* With a process behind it: what runs is what the call was asked to start.
Watching == Starting \ {"spawning"}

LockIsHeld == \A c \in Calls : pc[c] \in Working => holder = c

\* The two transient states have a worker that will leave them.
TransientHasWorker ==
    /\ state = "loading" => holder \in Calls /\ pc[holder] \in Starting
    /\ state = "stopping" => holder \in Calls /\ pc[holder] = "ending"

FindsItsState(c) ==
    /\ pc[c] \in Starting => state = "loading" /\ call[c].kind \in {"load", "switch"}
    /\ pc[c] = "spawning" => Alive = {}
    /\ pc[c] \in Watching /\ handle \in Alive => runs[handle] = call[c].file
    /\ pc[c] = "ending" => state = "stopping" /\ Stops(c)

WorkersFindTheirState == \A c \in Calls : FindsItsState(c)

\* The inductive invariant: the lock ties each transient state to one call at
\* one await, and that call's place says which process can be there.
EngineInv ==
    /\ EngineTypeOK
    /\ LockIsHeld
    /\ TransientHasWorker
    /\ WorkersFindTheirState
    /\ NoStrayEngine
    /\ ReportedFileIsServed

LEMMA ReleaseTyped ==
    ASSUME EngineTypeOK, Release
    PROVE  holder' \in Calls \cup {NoCall} /\ waiters' \in Seq(Calls)
BY DEF EngineTypeOK, Release

LEMMA AcquireTyped ==
    ASSUME EngineTypeOK, NEW c \in Calls, Acquire(c)
    PROVE  /\ holder' \in Calls \cup {NoCall}
           /\ waiters' \in Seq(Calls)
           /\ holder # NoCall => holder' = holder
BY DEF EngineTypeOK, Acquire

\* Reading the state tells the truth about the process, and keeps what the
\* invariant says of it.
LEMMA ReconciledIsTrue ==
    ASSUME EngineInv
    PROVE  /\ Reconciled.state \in EngineStates
           /\ Reconciled.loadedFile \in Files \cup {NoFile}
           /\ Reconciled.state # "error"
                => Reconciled.state = state /\ Reconciled.loadedFile = loadedFile
           /\ state \in {"loading", "stopping"} => Reconciled.state = state
           /\ Reconciled.state \in {"unloaded", "error"}
                => Alive = {} /\ Reconciled.loadedFile = NoFile
BY NothingIsNothing DEF EngineInv, EngineTypeOK, NoStrayEngine, ReportedFileIsServed,
   Reconciled, Exited, EngineStates, Alive

\* What a request may leave behind: the state was read at most, and a new or
\* entering call waits outside the engine.
Outside ==
    /\ UNCHANGED <<handle, runs>>
    /\ \/ Reconcile
       \/ UNCHANGED <<state, loadedFile>>
    /\ \A c \in Calls : pc[c] \in Working \/ pc'[c] \in Working
                         => pc'[c] = pc[c] /\ call'[c] = call[c]
    /\ holder # NoCall /\ pc[holder] \in Working => holder' = holder

\* A call outside the engine disturbs no call inside.
LEMMA OutsideKeepsInv ==
    ASSUME EngineInv, EngineTypeOK', Outside
    PROVE  EngineInv'
<1> USE DEF EngineInv, Outside
<1>1. Alive' = Alive
  BY DEF Alive
<1>2. LockIsHeld'
  BY NothingIsNothing DEF LockIsHeld, EngineTypeOK
<1>3. /\ state' = "loading" => state = "loading"
      /\ state' = "stopping" => state = "stopping"
      /\ state \in {"loading", "stopping"} => state' = state
      /\ state' \in {"unloaded", "error"} => Alive = {} /\ loadedFile' = NoFile
      /\ state' = "ready" => loadedFile' = loadedFile /\ state = "ready"
  BY ReconciledIsTrue DEF Reconcile, NoStrayEngine, ReportedFileIsServed
<1>4. TransientHasWorker'
  BY <1>3, NothingIsNothing DEF TransientHasWorker, Working
<1>5. WorkersFindTheirState'
  <2> SUFFICES ASSUME NEW c \in Calls, pc'[c] \in Working
               PROVE  FindsItsState(c)'
    BY DEF WorkersFindTheirState, FindsItsState, Working, Watching, Starting
  <2>1. pc'[c] = pc[c] /\ call'[c] = call[c]
    OBVIOUS
  <2> QED
    BY <1>1, <1>3, <2>1 DEF WorkersFindTheirState, FindsItsState, Working, Watching, Stops
<1>6. NoStrayEngine'
  BY <1>1, <1>3 DEF NoStrayEngine
<1>7. ReportedFileIsServed'
  BY <1>1, <1>3, ReconciledIsTrue DEF ReportedFileIsServed, Reconcile, EngineTypeOK, EngineStates
<1> QED
  BY <1>2, <1>4, <1>5, <1>6, <1>7

\* Types, action by action.
LEMMA TypeStep == EngineInv /\ [Next]_vars => EngineTypeOK'
<1> SUFFICES ASSUME EngineInv, [Next]_vars
             PROVE  EngineTypeOK'
  OBVIOUS
<1> USE PollsPositive DEF EngineInv, EngineTypeOK, EngineStates, Points, Starting, Requests,
                          NoRequest
<1>1. ASSUME NEW c \in Calls, NEW f \in Files, LaunchLoad(c, f) \/ LaunchSwitch(c, f)
      PROVE  EngineTypeOK'
  <2>1. state' \in EngineStates /\ loadedFile' \in Files \cup {NoFile}
    BY <1>1, ReconciledIsTrue DEF LaunchLoad, LaunchSwitch, Reconcile
  <2>2. pc' \in [Calls -> Points] /\ call' \in [Calls -> Requests \cup {NoRequest}]
    BY <1>1 DEF LaunchLoad, LaunchSwitch, New, GoTo
  <2> QED
    BY <1>1, <2>1, <2>2 DEF LaunchLoad, LaunchSwitch
<1>2. ASSUME NEW c \in Calls, Unload(c) \/ Shutdown(c)
      PROVE  EngineTypeOK'
  BY <1>2, AcquireTyped DEF Unload, Shutdown, New, GoTo
<1>3. ASSUME NEW c \in Calls, Enter(c)
      PROVE  EngineTypeOK'
  BY <1>3, AcquireTyped DEF Enter, GoTo
<1>4. CASE ReadState
  BY <1>4, ReconciledIsTrue DEF ReadState, Reconcile
<1>5. ASSUME NEW p \in Pids, Crash(p)
      PROVE  EngineTypeOK'
  BY <1>5 DEF Crash
<1>6. CASE UNCHANGED vars
  BY <1>6 DEF vars
<1>7. ASSUME NEW c \in Calls, Load(c)
      PROVE  EngineTypeOK'
  <2>1. CASE LoadFindsEngine(c) \/ LoadRejected(c)
    BY <2>1, ReconciledIsTrue, ReleaseTyped
       DEF LoadFindsEngine, LoadRejected, Reconcile, Return, GoTo
  <2>2. CASE LoadBegins(c)
    BY <2>2, ReconciledIsTrue DEF LoadBegins, Suspend, GoTo
  <2>3. CASE SpawnFails(c) \/ ExitedDuringLoad(c) \/ ProbeSucceeds(c)
    <3>1. pc[c] \in Starting => call[c].kind \in {"load", "switch"}
      BY DEF WorkersFindTheirState, FindsItsState
    <3>2. pc[c] \in Starting => call[c].file \in Files
      BY <3>1
    <3>3. state' \in EngineStates /\ loadedFile' \in Files \cup {NoFile}
      BY <2>3, <3>2 DEF SpawnFails, ExitedDuringLoad, ProbeSucceeds, Holds
    <3>4. Return(c)
      BY <2>3 DEF SpawnFails, ExitedDuringLoad, ProbeSucceeds
    <3>5. /\ pc' \in [Calls -> Points]
          /\ call' \in [Calls -> Requests \cup {NoRequest}]
          /\ waited' \in 0..(MaxPolls - 1)
          /\ phase' \in {"up", "closing", "down"}
      BY <3>4 DEF Return, GoTo
    <3>6. Release
      BY <3>4 DEF Return
    <3> QED
      BY <2>3, <3>3, <3>5, <3>6, ReleaseTyped DEF SpawnFails, ExitedDuringLoad, ProbeSucceeds
  <2>4. ASSUME NEW p \in Pids, Spawned(c, p)
        PROVE  EngineTypeOK'
    BY <2>4 DEF Spawned, Suspend, GoTo
  <2>5. CASE Probe(c)
    <3>1. Polls(c) \in 0..(MaxPolls - 1)
      BY <2>5 DEF Probe, InTime, Polls
    <3> QED
      BY <2>5, <3>1 DEF Probe, Suspend, GoTo
  <2>6. CASE ProbeFails(c) \/ ReadinessTimesOut(c)
    BY <2>6 DEF ProbeFails, ReadinessTimesOut, Suspend, GoTo
  <2>7. CASE LoadTimedOut(c)
    BY <2>7, ReleaseTyped DEF LoadTimedOut, Terminate, Return, GoTo
  <2> QED
    BY <1>7, <2>1, <2>2, <2>3, <2>4, <2>5, <2>6, <2>7 DEF Load
<1>8. ASSUME NEW c \in Calls, Stop(c)
      PROVE  EngineTypeOK'
  <2>1. CASE StopBegins(c)
    BY <2>1 DEF StopBegins, Suspend, GoTo
  <2>2. CASE Unloaded(c)
    BY <2>2, ReleaseTyped DEF Unloaded, StopEnds, Terminate, Return, GoTo
  <2>3. CASE SwitchStarts(c)
    BY <2>3 DEF SwitchStarts, StopEnds, Terminate, Suspend, GoTo
  <2> QED
    BY <1>8, <2>1, <2>2, <2>3 DEF Stop
<1> QED
  BY <1>1, <1>2, <1>3, <1>4, <1>5, <1>6, <1>7, <1>8 DEF Next, Advance

\* The calls that stay outside the engine.
LEMMA RequestsStayOutside ==
    ASSUME EngineInv, NEW c \in Calls,
           \/ \E f \in Files : LaunchLoad(c, f) \/ LaunchSwitch(c, f)
           \/ Unload(c) \/ Shutdown(c) \/ Enter(c)
           \/ LoadFindsEngine(c) \/ LoadRejected(c)
    PROVE  Outside
<1> USE DEF EngineInv, EngineTypeOK, Outside, Working, Starting
<1>1. CASE \E f \in Files : LaunchLoad(c, f) \/ LaunchSwitch(c, f)
  BY <1>1 DEF LaunchLoad, LaunchSwitch, New, GoTo
<1>2. CASE Unload(c) \/ Shutdown(c)
  BY <1>2, AcquireTyped DEF Unload, Shutdown, New, GoTo
<1>3. CASE Enter(c)
  BY <1>3, AcquireTyped DEF Enter, GoTo
<1>4. CASE LoadFindsEngine(c) \/ LoadRejected(c)
  <2>1. pc[c] = "queued" /\ pc' = [pc EXCEPT ![c] = "idle"]
    BY <1>4 DEF LoadFindsEngine, LoadRejected, Holds, Return, GoTo
  <2>2. call' = [call EXCEPT ![c] = NoRequest] /\ waited' = 0
    BY <1>4 DEF LoadFindsEngine, LoadRejected, Return
  <2> QED
    BY <1>4, <2>1, <2>2 DEF LoadFindsEngine, LoadRejected, Holds
<1> QED
  BY <1>1, <1>2, <1>3, <1>4

\* Nobody else works while a call holds the lock.
LEMMA WorkerIsAlone ==
    ASSUME EngineInv, NEW c \in Calls, holder = c, NEW d \in Calls, d # c
    PROVE  pc[d] \notin Working
BY DEF EngineInv, LockIsHeld

\* The holder suspends at another await with everything consistent there.
LEMMA WorkerSuspends ==
    ASSUME EngineInv, EngineTypeOK', NEW c \in Calls, holder = c,
           NEW point \in Working, Suspend(c, point), FindsItsState(c)',
           Alive' \subseteq {handle'}, loadedFile' # NoFile => state' = "stopping",
           loadedFile' # NoFile /\ handle' \in Alive' => runs'[handle'] = loadedFile'
    PROVE  EngineInv'
<1> USE DEF Suspend, GoTo
<1>1. holder' = c /\ pc'[c] = point
  BY DEF EngineInv, EngineTypeOK
<1>2. \A d \in Calls : d # c => pc'[d] \notin Working
  BY WorkerIsAlone DEF EngineInv, EngineTypeOK
<1>3. LockIsHeld'
  BY <1>1, <1>2 DEF LockIsHeld
<1>4. /\ point \in Starting => state' = "loading"
      /\ point = "ending" => state' = "stopping"
  BY <1>1 DEF FindsItsState
<1>5. TransientHasWorker'
  BY <1>1, <1>4 DEF TransientHasWorker, Working, Starting
<1>6. WorkersFindTheirState'
  <2> SUFFICES ASSUME NEW d \in Calls, d # c
               PROVE  FindsItsState(d)'
    BY DEF WorkersFindTheirState
  <2> QED
    BY <1>2 DEF FindsItsState, Working, Watching, Starting
<1>7. NoStrayEngine'
  BY <1>4 DEF NoStrayEngine, Working
<1>8. ReportedFileIsServed'
  BY <1>4 DEF ReportedFileIsServed, Working
<1> QED
  BY <1>3, <1>5, <1>6, <1>7, <1>8 DEF EngineInv

\* The holder returns and leaves a settled state.
LEMMA WorkerReturns ==
    ASSUME EngineInv, EngineTypeOK', NEW c \in Calls, holder = c, Return(c),
           state' \in {"ready", "unloaded", "error"}, NoStrayEngine', ReportedFileIsServed'
    PROVE  EngineInv'
<1>1. \A d \in Calls : pc'[d] \notin Working
  BY WorkerIsAlone DEF EngineInv, EngineTypeOK, Return, GoTo, Working, Starting
<1>2. LockIsHeld'
  BY <1>1 DEF LockIsHeld
<1>3. TransientHasWorker'
  BY DEF TransientHasWorker
<1>4. WorkersFindTheirState'
  BY <1>1 DEF WorkersFindTheirState, FindsItsState, Working, Watching, Starting
<1> QED
  BY <1>2, <1>3, <1>4 DEF EngineInv

\* Loading: the steps of _start_locked.
LEMMA LoadStep ==
    ASSUME EngineInv, EngineTypeOK', NEW c \in Calls, Load(c)
    PROVE  EngineInv'
<1>1. CASE LoadFindsEngine(c) \/ LoadRejected(c)
  BY <1>1, RequestsStayOutside, OutsideKeepsInv
<1>2. CASE LoadBegins(c)
  <2>1. Alive' = {} /\ loadedFile' = NoFile /\ state' = "loading"
    <3>1. Reconciled.state \in {"unloaded", "error"}
      BY <1>2, ReconciledIsTrue
         DEF LoadBegins, Holds, AlreadyUp, EngineInv, TransientHasWorker, EngineStates
    <3> QED
      BY <1>2, <3>1, ReconciledIsTrue DEF LoadBegins, Alive
  <2>2. pc'[c] = "spawning" /\ call' = call
    BY <1>2 DEF LoadBegins, Suspend, GoTo, EngineInv, EngineTypeOK
  <2>3. FindsItsState(c)'
    BY <1>2, <2>1, <2>2 DEF LoadBegins, Holds, FindsItsState, Starting, Watching
  <2>4. "spawning" \in Working
    BY DEF Working, Starting
  <2> QED
    BY <1>2, <2>1, <2>3, <2>4, WorkerSuspends DEF LoadBegins, Holds
<1>3. CASE SpawnFails(c)
  <2>1. Alive = {} /\ loadedFile = NoFile
    BY <1>3 DEF SpawnFails, Holds, EngineInv, WorkersFindTheirState, FindsItsState,
                ReportedFileIsServed, Starting
  <2>2. NoStrayEngine' /\ ReportedFileIsServed'
    BY <1>3, <2>1 DEF SpawnFails, NoStrayEngine, ReportedFileIsServed, Alive
  <2> QED
    BY <1>3, <2>2, WorkerReturns DEF SpawnFails, Holds
<1>4. ASSUME NEW p \in Pids, Spawned(c, p)
      PROVE  EngineInv'
  <2>1. /\ Alive = {} /\ loadedFile = NoFile /\ state = "loading"
        /\ call[c].kind \in {"load", "switch"}
    BY <1>4 DEF Spawned, Holds, EngineInv, WorkersFindTheirState, FindsItsState,
                ReportedFileIsServed, Starting
  <2>2. handle' = p /\ runs'[p] = call[c].file /\ Alive' \subseteq {p}
    BY <1>4, <2>1 DEF Spawned, Alive, EngineInv, EngineTypeOK
  <2>3. pc'[c] = "spawned" /\ call' = call
    BY <1>4 DEF Spawned, Suspend, GoTo, EngineInv, EngineTypeOK
  <2>4. FindsItsState(c)'
    BY <1>4, <2>1, <2>2, <2>3 DEF Spawned, FindsItsState, Starting, Watching
  <2>5. "spawned" \in Working
    BY DEF Working, Starting
  <2> QED
    BY <1>4, <2>1, <2>2, <2>4, <2>5, WorkerSuspends DEF Spawned, Holds
<1>5. CASE ExitedDuringLoad(c)
  <2>1. Alive = {} /\ loadedFile = NoFile
    BY <1>5 DEF ExitedDuringLoad, AtLoopTop, Exited, EngineInv, WorkersFindTheirState,
                FindsItsState, ReportedFileIsServed, NoStrayEngine, Starting
  <2>2. NoStrayEngine' /\ ReportedFileIsServed'
    BY <1>5, <2>1 DEF ExitedDuringLoad, NoStrayEngine, ReportedFileIsServed, Alive
  <2> QED
    BY <1>5, <2>2, WorkerReturns DEF ExitedDuringLoad, AtLoopTop
<1>6. CASE ProbeSucceeds(c)
  <2>1. /\ call[c].kind \in {"load", "switch"}
        /\ handle \in Alive => runs[handle] = call[c].file
    BY <1>6 DEF ProbeSucceeds, Holds, EngineInv, WorkersFindTheirState, FindsItsState,
                Starting, Watching
  <2>2. call[c].file # NoFile
    BY <2>1, NothingIsNothing DEF EngineInv, EngineTypeOK, Requests, NoRequest
  <2>3. NoStrayEngine' /\ ReportedFileIsServed'
    BY <1>6, <2>1, <2>2
       DEF ProbeSucceeds, NoStrayEngine, ReportedFileIsServed, Alive, EngineInv
  <2> QED
    BY <1>6, <2>3, WorkerReturns DEF ProbeSucceeds, Holds
<1>7. ASSUME NEW point \in Watching, Suspend(c, point), holder = c, pc[c] \in Watching,
             UNCHANGED <<state, handle, loadedFile, call, runs>>
      PROVE  EngineInv'
  <2>1. pc'[c] = point /\ point \in Working
    BY <1>7 DEF Suspend, GoTo, EngineInv, EngineTypeOK, Watching, Working
  <2>2. FindsItsState(c)'
    BY <1>7, <2>1 DEF EngineInv, WorkersFindTheirState, FindsItsState, Alive, Starting, Watching
  <2>3. state = "loading"
    BY <1>7 DEF EngineInv, WorkersFindTheirState, FindsItsState, Watching
  <2> QED
    BY <1>7, <2>1, <2>2, <2>3, WorkerSuspends
       DEF EngineInv, NoStrayEngine, ReportedFileIsServed, Alive
<1>8. CASE Probe(c)
  BY <1>7, <1>8 DEF Probe, AtLoopTop, Watching, Starting
<1>9. CASE ProbeFails(c) \/ ReadinessTimesOut(c)
  BY <1>7, <1>9 DEF ProbeFails, ReadinessTimesOut, AtLoopTop, Holds, Watching, Starting
<1>10. CASE LoadTimedOut(c)
  <2>1. holder = c /\ pc[c] \in Starting
    BY <1>10 DEF LoadTimedOut, Holds, AtLoopTop, Starting
  <2>2. loadedFile = NoFile
    BY <2>1 DEF EngineInv, WorkersFindTheirState, FindsItsState, ReportedFileIsServed
  <2>3. Alive' = {}
    BY <1>10 DEF LoadTimedOut, Terminate, EngineInv, NoStrayEngine, Alive
  <2>4. NoStrayEngine' /\ ReportedFileIsServed'
    BY <1>10, <2>2, <2>3 DEF LoadTimedOut, NoStrayEngine, ReportedFileIsServed
  <2> QED
    BY <1>10, <2>1, <2>4, WorkerReturns DEF LoadTimedOut
<1> QED
  BY <1>1, <1>2, <1>3, <1>4, <1>5, <1>6, <1>8, <1>9, <1>10 DEF Load

\* Stopping: the steps of _stop_locked.
LEMMA StopStep ==
    ASSUME EngineInv, EngineTypeOK', NEW c \in Calls, Stop(c)
    PROVE  EngineInv'
<1>1. CASE StopBegins(c)
  <2>1. pc'[c] = "ending" /\ call' = call /\ state' = "stopping"
    BY <1>1 DEF StopBegins, Suspend, GoTo, EngineInv, EngineTypeOK
  <2>2. FindsItsState(c)'
    BY <1>1, <2>1 DEF StopBegins, Stops, FindsItsState, Starting, Watching
  <2>3. "ending" \in Working
    BY DEF Working
  <2> QED
    BY <1>1, <2>1, <2>2, <2>3, WorkerSuspends
       DEF StopBegins, Holds, EngineInv, NoStrayEngine, ReportedFileIsServed, Alive
<1>2. ASSUME StopEnds(c)
      PROVE  Alive' = {} /\ holder = c /\ loadedFile' = NoFile
  BY <1>2 DEF StopEnds, Holds, Terminate, EngineInv, NoStrayEngine, Alive
<1>3. CASE Unloaded(c)
  <2>1. NoStrayEngine' /\ ReportedFileIsServed'
    BY <1>2, <1>3 DEF Unloaded, NoStrayEngine, ReportedFileIsServed
  <2> QED
    BY <1>2, <1>3, <2>1, WorkerReturns DEF Unloaded
<1>4. CASE SwitchStarts(c)
  <2>1. pc'[c] = "spawning" /\ call' = call /\ state' = "loading"
    BY <1>4 DEF SwitchStarts, Suspend, GoTo, EngineInv, EngineTypeOK
  <2>2. FindsItsState(c)'
    BY <1>2, <1>4, <2>1 DEF SwitchStarts, FindsItsState, Starting, Watching
  <2>3. "spawning" \in Working
    BY DEF Working, Starting
  <2> QED
    BY <1>2, <1>4, <2>2, <2>3, WorkerSuspends DEF SwitchStarts
<1> QED
  BY <1>1, <1>3, <1>4 DEF Stop

\* A process that exits by itself leaves everything the controller believes
\* true or soon detected.
LEMMA CrashStep ==
    ASSUME EngineInv, EngineTypeOK', NEW p \in Pids, Crash(p)
    PROVE  EngineInv'
<1>1. /\ Alive' = Alive \ {p}
      /\ \A q \in Alive' : runs'[q] = runs[q]
      /\ UNCHANGED <<state, handle, loadedFile, waited, holder, waiters, pc, call, phase>>
  BY DEF Crash, Alive, EngineInv, EngineTypeOK
<1>2. LockIsHeld' /\ TransientHasWorker'
  BY <1>1 DEF EngineInv, LockIsHeld, TransientHasWorker
<1>3. WorkersFindTheirState'
  BY <1>1 DEF EngineInv, WorkersFindTheirState, FindsItsState, Stops
<1>4. NoStrayEngine' /\ ReportedFileIsServed'
  BY <1>1 DEF EngineInv, NoStrayEngine, ReportedFileIsServed
<1> QED
  BY <1>2, <1>3, <1>4 DEF EngineInv

LEMMA EngineStep == EngineInv /\ [Next]_vars => EngineInv'
<1> SUFFICES ASSUME EngineInv, [Next]_vars
             PROVE  EngineInv'
  OBVIOUS
<1> USE TypeStep, OutsideKeepsInv, RequestsStayOutside
<1>1. ASSUME NEW c \in Calls, NEW f \in Files, LaunchLoad(c, f) \/ LaunchSwitch(c, f)
      PROVE  EngineInv'
  BY <1>1
<1>2. ASSUME NEW c \in Calls, Unload(c) \/ Shutdown(c) \/ Enter(c)
      PROVE  EngineInv'
  BY <1>2
<1>3. ASSUME NEW c \in Calls, Load(c) \/ Stop(c)
      PROVE  EngineInv'
  BY <1>3, LoadStep, StopStep
<1>4. CASE ReadState
  BY <1>4 DEF ReadState, Outside
<1>5. ASSUME NEW p \in Pids, Crash(p)
      PROVE  EngineInv'
  BY <1>5, CrashStep
<1>6. CASE UNCHANGED vars
  BY <1>6 DEF vars, Outside
<1> QED
  BY <1>1, <1>2, <1>3, <1>4, <1>5, <1>6 DEF Next, Advance

LEMMA EngineInitially == Init => EngineInv
BY PollsPositive
   DEF Init, EngineInv, EngineTypeOK, EngineStates, Points, Requests, NoRequest, LockIsHeld, Working, Starting, Watching,
       TransientHasWorker, WorkersFindTheirState, FindsItsState, NoStrayEngine,
       ReportedFileIsServed, Alive

LEMMA EngineInvariant == Spec => []EngineInv
BY EngineInitially, EngineStep, PTL DEF Spec

\* For any mix of loads, switches, unloads and crashes the controller's state
\* is well-formed; the readiness loop never counts beyond its bound.
THEOREM EngineTypeCorrect == Spec => []EngineTypeOK
BY EngineInvariant, PTL DEF EngineInv

\* At most one engine process ever runs, it is the one the controller knows,
\* and unloaded or error means that there is none.
THEOREM NoEngineStrays == Spec => []NoStrayEngine
BY EngineInvariant, PTL DEF EngineInv

\* Both together: the engine is accounted for, whatever is in flight.
THEOREM EngineStaysAccountedFor == Spec => []EngineIsAccountedFor
BY EngineTypeCorrect, NoEngineStrays, PTL DEF EngineIsAccountedFor

\* The file reported as loaded is the one the running process was started with.
THEOREM ReportIsTrue == Spec => []ReportedFileIsServed
BY EngineInvariant, PTL DEF EngineInv

\* No accepted load takes a running engine out of service.
THEOREM ServingStaysUndisturbed == Spec => ServingIsNotDisturbed
<1>1. ASSUME EngineInv, [Next]_vars, state = "ready", handle \in Alive, state' # "ready"
      PROVE  holder # NoCall /\ Stops(holder)
  <2>1. Reconciled.state = "ready"
    BY <1>1 DEF Reconciled, Exited
  <2>2. \A c \in Calls : pc[c] \notin Working
    BY <1>1 DEF EngineInv, WorkersFindTheirState, FindsItsState, Working
  <2>3. \A c \in Calls : ~Load(c)
    BY <1>1, <2>1, <2>2
       DEF Load, LoadFindsEngine, LoadRejected, LoadBegins, SpawnFails, Spawned,
           ExitedDuringLoad, Probe, ProbeSucceeds, ProbeFails, ReadinessTimesOut, LoadTimedOut,
           AtLoopTop, Holds, AlreadyUp, Working, Starting, Reconcile
  <2>4. PICK c \in Calls : Stop(c)
    BY <1>1, <2>1, <2>3
       DEF Next, Advance, LaunchLoad, LaunchSwitch, Unload, Shutdown, Enter, ReadState,
           Crash, Reconcile, vars
  <2> QED
    BY <2>2, <2>4, NothingIsNothing
       DEF Stop, StopBegins, Unloaded, SwitchStarts, StopEnds, Holds, Working
<1> QED
  BY <1>1, EngineInvariant, PTL DEF Spec, ServingIsNotDisturbed

-----------------------------------------------------------------------------
(* The order of the lock's queue, which the shutdown rests on.             *)

Waits(c) == \E i \in 1..Len(waiters) : waiters[i] = c

InQueue(c) == c = holder \/ Waits(c)

\* Whoever asked for the lock holds it or waits for it, in one place.
EachQueuesOnce ==
    /\ \A i, j \in 1..Len(waiters) : waiters[i] = waiters[j] => i = j
    /\ \A i \in 1..Len(waiters) : waiters[i] # holder
    /\ holder = NoCall => waiters = <<>>
    /\ \A c \in Calls : pc[c] \notin {"idle", "created"} <=> InQueue(c)

IdleAsksNothing == \A c \in Calls : pc[c] = "idle" => call[c] = NoRequest

Last(c) == IF waiters = <<>> THEN c = holder ELSE c = waiters[Len(waiters)]

\* Behind the shutdown nobody queues, and after it nobody is in flight.
ShutdownIsLast ==
    /\ \A c \in Calls : call[c].kind = "shutdown" => phase = "closing" /\ Last(c)
    /\ phase # "up" => \A c \in Calls : pc[c] # "created"
    /\ phase = "down" => Alive = {} /\ \A c \in Calls : pc[c] = "idle"

QueueInv == EachQueuesOnce /\ IdleAsksNothing /\ ShutdownIsLast

\* A call that is not in the queue joins at its end.
LEMMA JoiningKeepsOrder ==
    ASSUME EngineTypeOK, QueueInv, NEW c \in Calls, pc[c] \in {"idle", "created"},
           Acquire(c), GoTo(c, "queued")
    PROVE  EachQueuesOnce' /\ Last(c)' /\ ~InQueue(c)
<1> USE DEF EngineTypeOK, QueueInv, GoTo
<1>0. pc' = [pc EXCEPT ![c] = "queued"]
  OBVIOUS
<1>1. ~InQueue(c)
  BY DEF EachQueuesOnce
<1>2. CASE holder = NoCall
  <2>1. holder' = c /\ waiters' = <<>> /\ waiters = <<>>
    BY <1>2 DEF Acquire, EachQueuesOnce
  <2> QED
    BY <1>0, <1>1, <1>2, <2>1, NothingIsNothing DEF EachQueuesOnce, InQueue, Waits, Last
<1>3. CASE holder # NoCall
  <2>1. holder' = holder /\ waiters' = Append(waiters, c)
    BY <1>3 DEF Acquire
  <2>2. /\ Len(waiters') = Len(waiters) + 1 /\ waiters'[Len(waiters) + 1] = c
        /\ \A i \in 1..Len(waiters) : waiters'[i] = waiters[i]
        /\ Len(waiters) \in Nat /\ waiters' # <<>>
    BY <2>1
  <2>3. \A d \in Calls : InQueue(d)' <=> d = c \/ InQueue(d)
    BY <2>1, <2>2 DEF InQueue, Waits
  <2>4. \A i, j \in 1..Len(waiters') : waiters'[i] = waiters'[j] => i = j
    BY <1>1, <2>2 DEF EachQueuesOnce, InQueue, Waits
  <2>5. \A i \in 1..Len(waiters') : waiters'[i] # holder'
    BY <1>1, <2>1, <2>2 DEF EachQueuesOnce, InQueue
  <2>6. \A d \in Calls : pc'[d] \notin {"idle", "created"} <=> InQueue(d)'
    BY <1>0, <2>3 DEF EachQueuesOnce
  <2> QED
    BY <1>1, <1>3, <2>1, <2>2, <2>4, <2>5, <2>6 DEF EachQueuesOnce, Last
<1> QED
  BY <1>2, <1>3

\* The holder leaves and the first in the queue follows it.
LEMMA LeavingKeepsOrder ==
    ASSUME EngineTypeOK, QueueInv, NEW c \in Calls, holder = c, Release, GoTo(c, "idle")
    PROVE  /\ EachQueuesOnce'
           /\ \A d \in Calls : d # c /\ Last(d) => Last(d)'
<1> USE DEF EngineTypeOK, QueueInv, GoTo, Release
<1>0. pc' = [pc EXCEPT ![c] = "idle"]
  OBVIOUS
<1>1. CASE waiters = <<>>
  BY <1>0, <1>1, NothingIsNothing DEF EachQueuesOnce, InQueue, Waits, Last
<1>2. CASE waiters # <<>>
  <2>1. holder' = waiters[1] /\ waiters' = Tail(waiters) /\ Len(waiters) \in Nat \ {0}
    BY <1>2
  <2>2. /\ Len(waiters') = Len(waiters) - 1
        /\ \A i \in 1..Len(waiters') : waiters'[i] = waiters[i + 1] /\ i + 1 \in 1..Len(waiters)
    BY <1>2, <2>1
  <2>3. \A d \in Calls : InQueue(d)' <=> Waits(d)
    <3>1. \A d \in Calls : InQueue(d)' => Waits(d)
      BY <2>1, <2>2 DEF InQueue, Waits
    <3>2. \A i \in 1..Len(waiters) : i = 1 \/ i - 1 \in 1..Len(waiters')
      BY <2>1, <2>2
    <3>3. ASSUME NEW d \in Calls, NEW i \in 1..Len(waiters), waiters[i] = d
          PROVE  InQueue(d)'
      BY <2>1, <2>2, <3>2, <3>3 DEF InQueue, Waits
    <3> QED
      BY <3>1, <3>3 DEF Waits
  <2>4. ~Waits(c)
    BY DEF EachQueuesOnce, Waits
  <2>5. \A d \in Calls : pc'[d] \notin {"idle", "created"} <=> InQueue(d)'
    BY <1>0, <2>3, <2>4 DEF EachQueuesOnce, InQueue
  <2>6. \A i, j \in 1..Len(waiters') : waiters'[i] = waiters'[j] => i = j
    BY <2>1, <2>2 DEF EachQueuesOnce
  <2>7. \A i \in 1..Len(waiters') : waiters'[i] # holder'
    BY <2>1, <2>2 DEF EachQueuesOnce
  <2>8. holder' \in Calls
    BY <2>1
  <2>9. \A d \in Calls : d # c /\ Last(d) => Last(d)'
    <3>1. CASE Len(waiters) = 1
      BY <1>2, <2>1, <2>2, <3>1 DEF Last
    <3>2. CASE Len(waiters) # 1
      <4>1. waiters' # <<>> /\ waiters'[Len(waiters')] = waiters[Len(waiters)]
        <5>1. Len(waiters') \in 1..Len(waiters') /\ Len(waiters') + 1 = Len(waiters)
          BY <2>1, <2>2, <3>2
        <5>2. waiters'[Len(waiters')] = waiters[Len(waiters') + 1]
          BY <2>2, <5>1
        <5> QED
          BY <5>1, <5>2
      <4> QED
        BY <1>2, <4>1 DEF Last
    <3> QED
      BY <3>1, <3>2
  <2> QED
    BY <2>5, <2>6, <2>7, <2>8, <2>9, NothingIsNothing DEF EachQueuesOnce
<1> QED
  BY <1>1, <1>2

\* Steps that move no call in or out of the queue.
LEMMA StayingKeepsQueue ==
    ASSUME EngineTypeOK, EngineTypeOK', QueueInv, UNCHANGED <<holder, waiters, call, phase>>,
           phase = "down" => Alive' \subseteq Alive,
           \A c \in Calls : pc'[c] = pc[c] \/ (pc[c] \in Points \ {"idle", "created"}
                                               /\ pc'[c] \in Points \ {"idle", "created"})
    PROVE  QueueInv'
<1>1. EachQueuesOnce'
  BY DEF QueueInv, EachQueuesOnce, InQueue, Waits
<1>2. IdleAsksNothing'
  BY DEF QueueInv, IdleAsksNothing
<1>3. ShutdownIsLast'
  BY DEF QueueInv, ShutdownIsLast, Last
<1> QED
  BY <1>1, <1>2, <1>3 DEF QueueInv

\* A request puts a call where it was idle; while one can be made, no shutdown
\* has been asked for.
LEMMA RequestsKeepQueue ==
    ASSUME EngineTypeOK, EngineTypeOK', QueueInv, NEW c \in Calls,
           \/ \E f \in Files : LaunchLoad(c, f) \/ LaunchSwitch(c, f)
           \/ Unload(c) \/ Shutdown(c) \/ Enter(c)
    PROVE  QueueInv'
<1> USE DEF EngineTypeOK, QueueInv
<1>1. ASSUME NEW f \in Files, NEW kind \in {"load", "switch"}, New(c, kind, f, "created"),
             phase = "up", UNCHANGED <<holder, waiters, phase>>
      PROVE  QueueInv'
  <2>1. /\ pc' = [pc EXCEPT ![c] = "created"] /\ pc[c] = "idle"
        /\ call' = [call EXCEPT ![c] = [kind |-> kind, file |-> f]]
    BY <1>1 DEF New, GoTo
  <2>2. EachQueuesOnce'
    BY <1>1, <2>1 DEF EachQueuesOnce, InQueue, Waits
  <2>3. IdleAsksNothing'
    BY <2>1 DEF IdleAsksNothing
  <2>4. ShutdownIsLast'
    BY <1>1, <2>1 DEF ShutdownIsLast
  <2> QED
    BY <2>2, <2>3, <2>4
<1>2. CASE \E f \in Files : LaunchLoad(c, f) \/ LaunchSwitch(c, f)
  BY <1>1, <1>2 DEF LaunchLoad, LaunchSwitch
<1>3. CASE Unload(c)
  <2>1. /\ pc' = [pc EXCEPT ![c] = "queued"] /\ pc[c] = "idle" /\ phase = "up" /\ phase' = "up"
        /\ call' = [call EXCEPT ![c] = [kind |-> "unload", file |-> NoFile]]
    BY <1>3 DEF Unload, New, GoTo
  <2>2. EachQueuesOnce'
    BY <1>3, JoiningKeepsOrder DEF Unload, New
  <2>3. IdleAsksNothing' /\ ShutdownIsLast'
    BY <2>1 DEF IdleAsksNothing, ShutdownIsLast
  <2> QED
    BY <2>2, <2>3
<1>4. CASE Shutdown(c)
  <2>1. /\ pc' = [pc EXCEPT ![c] = "queued"] /\ pc[c] = "idle"
        /\ phase = "up" /\ phase' = "closing" /\ \A d \in Calls : pc[d] # "created"
        /\ call' = [call EXCEPT ![c] = [kind |-> "shutdown", file |-> NoFile]]
    BY <1>4 DEF Shutdown, Quiet, New, GoTo
  <2>2. EachQueuesOnce' /\ Last(c)'
    BY <1>4, JoiningKeepsOrder DEF Shutdown, New
  <2>3. IdleAsksNothing' /\ ShutdownIsLast'
    BY <2>1, <2>2 DEF IdleAsksNothing, ShutdownIsLast
  <2> QED
    BY <2>2, <2>3
<1>5. CASE Enter(c)
  <2>1. /\ pc' = [pc EXCEPT ![c] = "queued"] /\ pc[c] = "created" /\ phase = "up"
        /\ UNCHANGED <<call, phase>>
    BY <1>5 DEF Enter, GoTo, ShutdownIsLast
  <2>2. EachQueuesOnce'
    BY <1>5, JoiningKeepsOrder DEF Enter
  <2>3. IdleAsksNothing' /\ ShutdownIsLast'
    BY <2>1 DEF IdleAsksNothing, ShutdownIsLast
  <2> QED
    BY <2>2, <2>3
<1> QED
  BY <1>2, <1>3, <1>4, <1>5

\* The holder returns.  When it is the shutdown, nobody is left behind it.
LEMMA ReturningKeepsQueue ==
    ASSUME EngineTypeOK, EngineTypeOK', QueueInv, NEW c \in Calls, holder = c, Return(c),
           call[c].kind = "shutdown" => Alive' = {}
    PROVE  QueueInv'
<1> USE DEF EngineTypeOK, QueueInv
<1>1. /\ pc' = [pc EXCEPT ![c] = "idle"] /\ call' = [call EXCEPT ![c] = NoRequest]
      /\ phase' = IF call[c].kind = "shutdown" THEN "down" ELSE phase
  BY DEF Return, GoTo
<1>2. EachQueuesOnce' /\ \A d \in Calls : d # c /\ Last(d) => Last(d)'
  BY LeavingKeepsOrder DEF Return
<1>3. IdleAsksNothing'
  BY <1>1 DEF IdleAsksNothing
<1>4. pc[c] # "idle"
  BY DEF EachQueuesOnce, InQueue
<1>5. ShutdownIsLast'
  <2>1. CASE call[c].kind = "shutdown"
    <3>1. waiters = <<>>
      <4>1. Last(c)
        BY <2>1 DEF ShutdownIsLast
      <4> QED
        BY <4>1 DEF Last, EachQueuesOnce
    <3>2. \A d \in Calls : d # c => pc[d] \in {"idle", "created"}
      BY <3>1 DEF EachQueuesOnce, InQueue, Waits
    <3>3. \A d \in Calls : pc'[d] = "idle"
      BY <1>1, <2>1, <3>2 DEF ShutdownIsLast
    <3>4. \A d \in Calls : call'[d] = NoRequest
      BY <1>3, <3>3 DEF IdleAsksNothing
    <3> QED
      BY <1>1, <2>1, <3>3, <3>4 DEF ShutdownIsLast, NoRequest
  <2>2. CASE call[c].kind # "shutdown"
    <3>1. phase # "down" /\ phase' = phase
      BY <1>1, <1>4, <2>2 DEF ShutdownIsLast
    <3>2. \A d \in Calls : call'[d].kind = "shutdown" => d # c /\ call[d].kind = "shutdown"
      BY <1>1 DEF NoRequest
    <3> QED
      BY <1>1, <1>2, <3>1, <3>2 DEF ShutdownIsLast
  <2> QED
    BY <2>1, <2>2
<1> QED
  BY <1>2, <1>3, <1>5

LEMMA QueueStep == EngineInv /\ EngineTypeOK' /\ QueueInv /\ [Next]_vars => QueueInv'
<1> SUFFICES ASSUME EngineInv, EngineTypeOK', QueueInv, [Next]_vars
             PROVE  QueueInv'
  OBVIOUS
<1>0. EngineTypeOK
  BY DEF EngineInv
<1>1. ASSUME NEW c \in Calls,
             \/ \E f \in Files : LaunchLoad(c, f) \/ LaunchSwitch(c, f)
             \/ Unload(c) \/ Shutdown(c) \/ Enter(c)
      PROVE  QueueInv'
  BY <1>0, <1>1, RequestsKeepQueue
<1>2. ASSUME UNCHANGED <<pc, call, holder, waiters, phase>>, Alive' \subseteq Alive
      PROVE  QueueInv'
  BY <1>0, <1>2, StayingKeepsQueue
<1>3. CASE ReadState \/ UNCHANGED vars
  BY <1>2, <1>3 DEF ReadState, vars, Alive
<1>4. ASSUME NEW p \in Pids, Crash(p)
      PROVE  QueueInv'
  BY <1>0, <1>2, <1>4 DEF Crash, Alive, EngineTypeOK
<1>5. ASSUME NEW c \in Calls, NEW point \in Working, holder = c, Suspend(c, point),
             UNCHANGED call
      PROVE  QueueInv'
  <2>1. pc[c] \in Points \ {"idle", "created"} /\ pc' = [pc EXCEPT ![c] = point]
    BY <1>0, <1>5 DEF QueueInv, EachQueuesOnce, InQueue, Suspend, GoTo, EngineTypeOK
  <2>2. phase # "down"
    BY <2>1 DEF QueueInv, ShutdownIsLast
  <2>3. Working \subseteq Points \ {"idle", "created"}
    BY DEF Working, Points, Starting
  <2> QED
    BY <1>0, <1>5, <2>1, <2>2, <2>3, StayingKeepsQueue DEF Suspend, EngineTypeOK
<1>6. ASSUME NEW c \in Calls, holder = c, Return(c), call[c].kind = "shutdown" => Alive' = {}
      PROVE  QueueInv'
  BY <1>0, <1>6, ReturningKeepsQueue
<1>7. ASSUME NEW c \in Calls, Load(c)
      PROVE  QueueInv'
  <2>1. CASE LoadFindsEngine(c) \/ LoadRejected(c)
    BY <1>6, <2>1 DEF LoadFindsEngine, LoadRejected, Holds
  <2>2. pc[c] \in Starting => call[c].kind # "shutdown"
    BY DEF EngineInv, WorkersFindTheirState, FindsItsState
  <2>3. CASE SpawnFails(c) \/ ExitedDuringLoad(c) \/ ProbeSucceeds(c) \/ LoadTimedOut(c)
    <3>1. holder = c /\ Return(c) /\ pc[c] \in Starting
      BY <2>3 DEF SpawnFails, ExitedDuringLoad, ProbeSucceeds, LoadTimedOut, AtLoopTop, Holds,
                  Starting
    <3> QED
      BY <1>6, <2>2, <3>1
  <2>4. CASE \/ LoadBegins(c) \/ (\E p \in Pids : Spawned(c, p)) \/ Probe(c) \/ ProbeFails(c)
             \/ ReadinessTimesOut(c)
    <3>1. /\ holder = c /\ UNCHANGED call
          /\ \E point \in Starting : Suspend(c, point)
      BY <2>4 DEF LoadBegins, Spawned, Probe, ProbeFails, ReadinessTimesOut, AtLoopTop, Holds,
                  Starting
    <3> QED
      BY <1>5, <3>1 DEF Working
  <2> QED
    BY <1>7, <2>1, <2>3, <2>4 DEF Load
<1>8. ASSUME NEW c \in Calls, Stop(c)
      PROVE  QueueInv'
  <2>1. CASE StopBegins(c) \/ SwitchStarts(c)
    <3>1. holder = c /\ UNCHANGED call /\ (Suspend(c, "ending") \/ Suspend(c, "spawning"))
      BY <2>1 DEF StopBegins, SwitchStarts, StopEnds, Holds
    <3> QED
      BY <1>5, <3>1 DEF Working, Starting
  <2>2. CASE Unloaded(c)
    <3>1. holder = c /\ Return(c)
      BY <2>2 DEF Unloaded, StopEnds, Holds
    <3>2. Alive' = {}
      BY <2>2 DEF Unloaded, StopEnds, Terminate, Alive, EngineInv, NoStrayEngine
    <3> QED
      BY <1>6, <3>1, <3>2
  <2> QED
    BY <1>8, <2>1, <2>2 DEF Stop
<1> QED
  BY <1>1, <1>3, <1>4, <1>7, <1>8 DEF Next, Advance

LEMMA QueueInitially == Init => QueueInv
BY NothingIsNothing
   DEF Init, QueueInv, EachQueuesOnce, InQueue, Waits, IdleAsksNothing, ShutdownIsLast, NoRequest

\* When the module has stopped no engine is left, whatever was in flight when
\* the stop was asked for: the lock serves in order, and behind the stop nobody
\* queues (process.py, stop and _stop_locked; module.py, stop).
THEOREM ShutdownStaysClean == Spec => []ShutdownLeavesNoEngine
<1>1. EngineInv /\ QueueInv /\ [Next]_vars => (EngineInv /\ QueueInv)'
  BY EngineStep, TypeStep, QueueStep
<1>2. QueueInv => ShutdownLeavesNoEngine
  BY DEF QueueInv, ShutdownIsLast, ShutdownLeavesNoEngine
<1> QED
  BY <1>1, <1>2, EngineInitially, QueueInitially, PTL DEF Spec
=============================================================================
