-------------------------- MODULE ExecSandboxProofs --------------------------
(***************************************************************************)
(* What holds of the sandbox for any number of calls and processes: the    *)
(* types, that a handle is backed by a container, that a workspace starts  *)
(* fresh; and of the runner of one subprocess, for any caps and any output *)
(* of the child: that what is missing from an answer is told.              *)
(***************************************************************************)
EXTENDS ExecSandbox, SubprocessRunner, FiniteSetTheorems, TLAPS


\* A process that is starting has no handle yet; one that is not down counts.
StartsBlank ==
    /\ phase \in {"down", "removing", "wiping"} => ~created /\ ~noted
    /\ phase # "down" => life > 0

\* A call that creates has noted the volume, and the answer to its docker run
\* stays true until it acts on it.
AnswersHold ==
    \A c \in Calls : at[c] = "create" =>
        /\ noted
        /\ reply[c] # "live"
        /\ reply[c] = "ok" => container # "absent" /\ stored

\* A start that nothing disturbed has no container when it wipes the volume.
CollectedBeforeWipe ==
    phase = "wiping" /\ ~failed /\ ~overtaken => container = "absent"

\* ... and from then on only its own commands write to the workspace.
OwnWorkspace == phase = "up" /\ ~failed /\ ~overtaken => planted \subseteq {life}

\* close() knows of every volume, and of the container by its name.
StopsFindAll ==
    ~failed /\ ~overtaken =>
        /\ phase \in {"up", "dropping"} /\ stored => noted
        /\ phase = "dropping" => container = "absent"

\* A container that was killed stays dead, and nothing runs in it.
KillsHold ==
    \A c \in Calls : at[c] = "kill" =>
        /\ reply[c] # "live"
        /\ reply[c] = "ok" => container = "exited" /\ orphans = {}

SandboxInv ==
    /\ SandboxTypeOK
    /\ StartsBlank
    /\ AnswersHold
    /\ CreatedIsBacked
    /\ CollectedBeforeWipe
    /\ OwnWorkspace
    /\ StopsFindAll
    /\ KillsHold

USE DEF Places, Working, Replies, Outcomes

\* A call in flight: the module is up, and this process counts.
LEMMA InFlight ==
    ASSUME SandboxInv, NEW c \in Calls, at[c] # "idle"
    PROVE  phase = "up" /\ life \in 1..Lives
BY LivesPositive DEF SandboxInv, SandboxTypeOK, ModuleTyped, CallsTyped, StartsBlank, Quiet

LEMMA InitHolds == Init => SandboxInv
<1> SUFFICES ASSUME Init PROVE SandboxInv
    OBVIOUS
<1>1. SandboxTypeOK
  <2>1. at \in [Calls -> Places] /\ reply \in [Calls -> Replies] /\ outcome \in [Calls -> Outcomes]
        BY DEF Init
  <2>2. CallsTyped
        BY <2>1 DEF Init, CallsTyped, Quiet
  <2>3. life \in 0..Lives
        BY LivesPositive DEF Init
  <2>4. ModuleTyped
        BY <2>3 DEF Init, ModuleTyped
  <2>5. DockerTyped
        BY DEF Init, DockerTyped
  <2> QED BY <2>2, <2>4, <2>5 DEF SandboxTypeOK
<1>2. StartsBlank /\ AnswersHold /\ CreatedIsBacked /\ CollectedBeforeWipe /\ OwnWorkspace
        /\ StopsFindAll /\ KillsHold
      BY DEF Init, StartsBlank, AnswersHold, CreatedIsBacked, CollectedBeforeWipe,
         OwnWorkspace, StopsFindAll, KillsHold
<1> QED BY <1>1, <1>2 DEF SandboxInv

\* The steps of the module: start, stop, and the end of the process.
LEMMA LifecycleHolds == SandboxInv /\ Lifecycle => SandboxInv'
<1> SUFFICES ASSUME SandboxInv, Lifecycle PROVE SandboxInv'
    OBVIOUS
<1> USE LivesPositive DEF SandboxInv, SandboxTypeOK, ModuleTyped, CallsTyped, DockerTyped,
        StartsBlank, AnswersHold, CreatedIsBacked, CollectedBeforeWipe, OwnWorkspace,
        StopsFindAll, KillsHold, Quiet, module, callers, docker, ghosts, VolumeRemoved
<1>1. CASE Boot
  <2>1. ModuleTyped'
        BY <1>1 DEF Boot, CollectFirst
  <2>2. CallsTyped'
        BY <1>1 DEF Boot, CollectFirst
  <2>3. DockerTyped'
        BY <1>1 DEF Boot, CollectFirst
  <2>4. StartsBlank' /\ AnswersHold' /\ CreatedIsBacked'
        BY <1>1 DEF Boot, CollectFirst
  <2>5. CollectedBeforeWipe' /\ OwnWorkspace'
        BY <1>1 DEF Boot, CollectFirst
  <2>6. StopsFindAll' /\ KillsHold'
        BY <1>1 DEF Boot, CollectFirst
  <2> QED BY <2>1, <2>2, <2>3, <2>4, <2>5, <2>6
<1>2. CASE RemoveOrphan
  <2>1. ModuleTyped'
        BY <1>2 DEF RemoveOrphan
  <2>2. CallsTyped'
        BY <1>2 DEF RemoveOrphan
  <2>3. DockerTyped'
        BY <1>2 DEF RemoveOrphan
  <2>4. StartsBlank' /\ AnswersHold' /\ CreatedIsBacked'
        BY <1>2 DEF RemoveOrphan
  <2>5. CollectedBeforeWipe' /\ OwnWorkspace'
        BY <1>2 DEF RemoveOrphan
  <2>6. StopsFindAll' /\ KillsHold'
        BY <1>2 DEF RemoveOrphan
  <2> QED BY <2>1, <2>2, <2>3, <2>4, <2>5, <2>6
<1>3. CASE Wipe
  <2>1. ModuleTyped'
        BY <1>3 DEF Wipe
  <2>2. CallsTyped'
        BY <1>3 DEF Wipe
  <2>3. DockerTyped'
        BY <1>3 DEF Wipe
  <2>4. StartsBlank' /\ AnswersHold' /\ CreatedIsBacked'
        BY <1>3 DEF Wipe
  <2>5. CollectedBeforeWipe' /\ OwnWorkspace'
        BY <1>3 DEF Wipe
  <2>6. StopsFindAll' /\ KillsHold'
        BY <1>3 DEF Wipe
  <2> QED BY <2>1, <2>2, <2>3, <2>4, <2>5, <2>6
<1>4. CASE Close
  <2>1. ModuleTyped'
        BY <1>4 DEF Close, AfterRemoval
  <2>2. CallsTyped'
        BY <1>4 DEF Close, AfterRemoval
  <2>3. DockerTyped'
        BY <1>4 DEF Close, AfterRemoval
  <2>4. StartsBlank' /\ AnswersHold' /\ CreatedIsBacked'
        BY <1>4 DEF Close, AfterRemoval
  <2>5. CollectedBeforeWipe' /\ OwnWorkspace'
        BY <1>4 DEF Close, AfterRemoval
  <2>6. StopsFindAll' /\ KillsHold'
        BY <1>4 DEF AfterRemoval, Close
  <2> QED BY <2>1, <2>2, <2>3, <2>4, <2>5, <2>6
<1>5. CASE DropVolume
  <2>1. ModuleTyped'
        BY <1>5 DEF DropVolume
  <2>2. CallsTyped'
        BY <1>5 DEF DropVolume
  <2>3. DockerTyped'
        BY <1>5 DEF DropVolume
  <2>4. StartsBlank' /\ AnswersHold' /\ CreatedIsBacked'
        BY <1>5 DEF DropVolume
  <2>5. CollectedBeforeWipe' /\ OwnWorkspace'
        BY <1>5 DEF DropVolume
  <2>6. StopsFindAll' /\ KillsHold'
        BY <1>5 DEF DropVolume
  <2> QED BY <2>1, <2>2, <2>3, <2>4, <2>5, <2>6
<1>6. CASE Crash
  <2>1. ModuleTyped'
        BY <1>6 DEF Crash
  <2>2. CallsTyped'
        BY <1>6 DEF Crash
  <2>3. DockerTyped'
        BY <1>6 DEF Crash
  <2>4. StartsBlank' /\ AnswersHold' /\ CreatedIsBacked'
        BY <1>6 DEF Crash
  <2>5. CollectedBeforeWipe' /\ OwnWorkspace'
        BY <1>6 DEF Crash
  <2>6. StopsFindAll' /\ KillsHold'
        BY <1>6 DEF Crash
  <2> QED BY <2>1, <2>2, <2>3, <2>4, <2>5, <2>6
<1> QED BY <1>1, <1>2, <1>3, <1>4, <1>5, <1>6 DEF Lifecycle

\* The steps of a call.
LEMMA CallHolds ==
    ASSUME SandboxInv, NEW c \in Calls, Call(c) \/ Advance(c) \/ Cancel(c)
    PROVE  SandboxInv'
<1> USE LivesPositive DEF SandboxInv, SandboxTypeOK, ModuleTyped, CallsTyped, DockerTyped,
        StartsBlank, AnswersHold, CreatedIsBacked, CollectedBeforeWipe, OwnWorkspace,
        StopsFindAll, KillsHold, Quiet, module, callers, docker, ghosts, Await, Return
<1>1. CASE Call(c)
  <2>1. ModuleTyped'
        BY <1>1 DEF Call, Notes
  <2>2. CallsTyped'
        BY <1>1 DEF Call, Notes
  <2>3. DockerTyped'
        BY <1>1 DEF Call, Notes
  <2>4. noted' = TRUE /\ \A d \in Calls \ {c} : at'[d] = at[d] /\ reply'[d] = reply[d]
        BY <1>1 DEF Call, Notes
  <2>5. reply'[c] = "asked" /\ UNCHANGED <<phase, life, created, docker, ghosts>>
        BY <1>1 DEF Call
  <2>6. AnswersHold'
        BY <2>4, <2>5
  <2>7. StartsBlank' /\ CreatedIsBacked' /\ CollectedBeforeWipe' /\ OwnWorkspace'
        BY <1>1, <2>5 DEF Call
  <2>8. StopsFindAll' /\ KillsHold'
        BY <1>1 DEF Call, Notes
  <2> QED BY <2>1, <2>2, <2>3, <2>6, <2>7, <2>8
<1>2. CASE CreateAnswered(c)
  <2>0. phase = "up" /\ life \in 1..Lives
        BY <1>2, InFlight DEF CreateAnswered
  <2>1. ModuleTyped'
        BY <1>2, <2>0 DEF CreateAnswered, Notes
  <2>2. CallsTyped'
        BY <1>2, <2>0 DEF CreateAnswered, Notes
  <2>3. DockerTyped'
        BY <1>2, <2>0 DEF CreateAnswered, Notes
  <2>4. StartsBlank' /\ AnswersHold' /\ CreatedIsBacked'
        BY <1>2, <2>0 DEF CreateAnswered, Notes
  <2>5. CollectedBeforeWipe' /\ OwnWorkspace'
        BY <1>2, <2>0 DEF CreateAnswered, Notes
  <2>6. StopsFindAll' /\ KillsHold'
        BY <1>2, <2>0 DEF CreateAnswered, Notes
  <2> QED BY <2>1, <2>2, <2>3, <2>4, <2>5, <2>6
<1>3. CASE CreateTimesOut(c)
  <2>0. phase = "up" /\ life \in 1..Lives
        BY <1>3, InFlight DEF CreateTimesOut
  <2>1. ModuleTyped'
        BY <1>3, <2>0 DEF CreateTimesOut, Leaves
  <2>2. CallsTyped'
        BY <1>3, <2>0 DEF CreateTimesOut, Leaves
  <2>3. DockerTyped'
        BY <1>3, <2>0 DEF CreateTimesOut, Leaves
  <2>4. StartsBlank' /\ AnswersHold' /\ CreatedIsBacked'
        BY <1>3, <2>0 DEF CreateTimesOut, Leaves
  <2>5. CollectedBeforeWipe' /\ OwnWorkspace'
        BY <1>3, <2>0 DEF CreateTimesOut, Leaves
  <2>6. StopsFindAll' /\ KillsHold'
        BY <1>3, <2>0 DEF CreateTimesOut, Leaves
  <2> QED BY <2>1, <2>2, <2>3, <2>4, <2>5, <2>6
<1>4. CASE Answered(c)
  <2>0. phase = "up" /\ life \in 1..Lives
        BY <1>4, InFlight DEF Answered
  <2>1. ModuleTyped'
        BY <1>4, <2>0 DEF Answered
  <2>2. CallsTyped'
        BY <1>4, <2>0 DEF Answered
  <2>3. DockerTyped'
        BY <1>4, <2>0 DEF Answered
  <2>4. StartsBlank' /\ AnswersHold' /\ CreatedIsBacked'
        BY <1>4, <2>0 DEF Answered
  <2>5. CollectedBeforeWipe' /\ OwnWorkspace'
        BY <1>4, <2>0 DEF Answered
  <2>6. StopsFindAll' /\ KillsHold'
        BY <1>4, <2>0 DEF Answered
  <2> QED BY <2>1, <2>2, <2>3, <2>4, <2>5, <2>6
<1>5. CASE TimesOut(c)
  <2>0. phase = "up" /\ life \in 1..Lives
        BY <1>5, InFlight DEF TimesOut
  <2>1. ModuleTyped'
        BY <1>5, <2>0 DEF TimesOut, Abandons
  <2>2. CallsTyped'
        BY <1>5, <2>0 DEF TimesOut, Abandons
  <2>3. DockerTyped'
        BY <1>5, <2>0 DEF TimesOut, Abandons
  <2>4. StartsBlank' /\ AnswersHold' /\ CreatedIsBacked'
        BY <1>5, <2>0 DEF TimesOut, Abandons
  <2>5. CollectedBeforeWipe' /\ OwnWorkspace'
        BY <1>5, <2>0 DEF TimesOut, Abandons
  <2>6. StopsFindAll' /\ KillsHold'
        BY <1>5, <2>0 DEF Abandons, TimesOut
  <2> QED BY <2>1, <2>2, <2>3, <2>4, <2>5, <2>6
<1>6. CASE KillEnds(c)
  <2>0. phase = "up" /\ life \in 1..Lives
        BY <1>6, InFlight DEF KillEnds
  <2>1. ModuleTyped'
        BY <1>6, <2>0 DEF KillEnds
  <2>2. CallsTyped'
        BY <1>6, <2>0 DEF KillEnds
  <2>3. DockerTyped'
        BY <1>6, <2>0 DEF KillEnds
  <2>4. StartsBlank' /\ AnswersHold' /\ CreatedIsBacked'
        BY <1>6, <2>0 DEF KillEnds
  <2>5. CollectedBeforeWipe' /\ OwnWorkspace'
        BY <1>6, <2>0 DEF KillEnds
  <2>6. StopsFindAll' /\ KillsHold'
        BY <1>6, <2>0 DEF KillEnds
  <2> QED BY <2>1, <2>2, <2>3, <2>4, <2>5, <2>6
<1>7. CASE Cancel(c)
  <2>0. phase = "up" /\ life \in 1..Lives
        BY <1>7, InFlight DEF Cancel
  <2>1. ModuleTyped'
        BY <1>7, <2>0 DEF Cancel, Leaves, Abandons
  <2>2. CallsTyped'
        BY <1>7, <2>0 DEF Cancel, Leaves, Abandons
  <2>3. DockerTyped'
        BY <1>7, <2>0 DEF Cancel, Leaves, Abandons
  <2>4. StartsBlank' /\ AnswersHold' /\ CreatedIsBacked'
        BY <1>7, <2>0 DEF Cancel, Leaves, Abandons
  <2>5. CollectedBeforeWipe' /\ OwnWorkspace'
        BY <1>7, <2>0 DEF Cancel, Leaves, Abandons
  <2>6. StopsFindAll' /\ KillsHold'
        BY <1>7, <2>0 DEF Cancel, Leaves, Abandons
  <2> QED BY <2>1, <2>2, <2>3, <2>4, <2>5, <2>6
<1> QED BY <1>1, <1>2, <1>3, <1>4, <1>5, <1>6, <1>7 DEF Advance

\* The steps of Docker.
LEMMA DockerHolds ==
    ASSUME SandboxInv, NEW c \in Calls, Docker(c)
    PROVE  SandboxInv'
<1> USE LivesPositive DEF SandboxInv, SandboxTypeOK, ModuleTyped, CallsTyped, DockerTyped,
        StartsBlank, AnswersHold, CreatedIsBacked, CollectedBeforeWipe, OwnWorkspace,
        StopsFindAll, KillsHold, Quiet, module, callers, docker, ghosts
<1>1. CASE DockerRuns(c)
  <2>0. phase = "up" /\ life \in 1..Lives
        BY <1>1, InFlight DEF DockerRuns
  <2>1. ModuleTyped'
        BY <1>1, <2>0 DEF DockerRuns, Started
  <2>2. CallsTyped'
        BY <1>1, <2>0 DEF DockerRuns, Started
  <2>3. DockerTyped'
        BY <1>1, <2>0 DEF DockerRuns, Started
  <2>4. StartsBlank' /\ AnswersHold' /\ CreatedIsBacked'
        BY <1>1, <2>0 DEF DockerRuns, Started
  <2>5. CollectedBeforeWipe' /\ OwnWorkspace'
        BY <1>1, <2>0 DEF DockerRuns, Started
  <2>6. StopsFindAll' /\ KillsHold'
        BY <1>1, <2>0 DEF DockerRuns, Started
  <2> QED BY <2>1, <2>2, <2>3, <2>4, <2>5, <2>6
<1>2. CASE DockerStarts(c)
  <2>0. phase = "up" /\ life \in 1..Lives
        BY <1>2, InFlight DEF DockerStarts
  <2>1. ModuleTyped'
        BY <1>2, <2>0 DEF DockerStarts
  <2>2. CallsTyped'
        BY <1>2, <2>0 DEF DockerStarts
  <2>3. DockerTyped'
        BY <1>2, <2>0 DEF DockerStarts
  <2>4. StartsBlank' /\ AnswersHold' /\ CreatedIsBacked'
        BY <1>2, <2>0 DEF DockerStarts
  <2>5. ~failed' => ~failed
        BY <1>2 DEF DockerStarts
  <2>6. planted' \subseteq planted \cup {life} /\ UNCHANGED <<phase, life, overtaken>>
        BY <1>2 DEF DockerStarts
  <2>7. CollectedBeforeWipe' /\ OwnWorkspace'
        BY <2>0, <2>5, <2>6
  <2>8. StopsFindAll' /\ KillsHold'
        BY <1>2, <2>0 DEF DockerStarts
  <2> QED BY <2>1, <2>2, <2>3, <2>4, <2>7, <2>8
<1>3. CASE CommandEnds(c)
  <2>0. phase = "up" /\ life \in 1..Lives
        BY <1>3, InFlight DEF CommandEnds
  <2>1. ModuleTyped'
        BY <1>3, <2>0 DEF CommandEnds
  <2>2. CallsTyped'
        BY <1>3, <2>0 DEF CommandEnds
  <2>3. DockerTyped'
        BY <1>3, <2>0 DEF CommandEnds
  <2>4. StartsBlank' /\ AnswersHold' /\ CreatedIsBacked'
        BY <1>3, <2>0 DEF CommandEnds
  <2>5. CollectedBeforeWipe' /\ OwnWorkspace'
        BY <1>3, <2>0 DEF CommandEnds
  <2>6. StopsFindAll' /\ KillsHold'
        BY <1>3, <2>0 DEF CommandEnds
  <2> QED BY <2>1, <2>2, <2>3, <2>4, <2>5, <2>6
<1>4. CASE OrphanEnds(c)
  <2>1. ModuleTyped'
        BY <1>4 DEF OrphanEnds
  <2>2. CallsTyped'
        BY <1>4 DEF OrphanEnds
  <2>3. DockerTyped'
        BY <1>4 DEF OrphanEnds
  <2>4. StartsBlank' /\ AnswersHold' /\ CreatedIsBacked'
        BY <1>4 DEF OrphanEnds
  <2>5. CollectedBeforeWipe' /\ OwnWorkspace'
        BY <1>4 DEF OrphanEnds
  <2>6. StopsFindAll' /\ KillsHold'
        BY <1>4 DEF OrphanEnds
  <2> QED BY <2>1, <2>2, <2>3, <2>4, <2>5, <2>6
<1>5. CASE DockerKills(c)
  <2>0. phase = "up" /\ life \in 1..Lives
        BY <1>5, InFlight DEF DockerKills
  <2>1. ModuleTyped'
        BY <1>5, <2>0 DEF DockerKills, Killed
  <2>2. CallsTyped'
        BY <1>5, <2>0 DEF DockerKills, Killed
  <2>3. DockerTyped'
        BY <1>5, <2>0 DEF DockerKills, Killed
  <2>4. StartsBlank' /\ AnswersHold' /\ CreatedIsBacked'
        BY <1>5, <2>0 DEF DockerKills, Killed
  <2>5. CollectedBeforeWipe' /\ OwnWorkspace'
        BY <1>5, <2>0 DEF DockerKills, Killed
  <2>6. StopsFindAll' /\ KillsHold'
        BY <1>5, <2>0 DEF DockerKills, Killed
  <2> QED BY <2>1, <2>2, <2>3, <2>4, <2>5, <2>6
<1>6. CASE LateRun(c)
  <2>1. ModuleTyped'
        BY <1>6 DEF LateRun, Started
  <2>2. CallsTyped'
        BY <1>6 DEF LateRun, Started
  <2>3. DockerTyped'
        BY <1>6 DEF LateRun, Started
  <2>4. StartsBlank' /\ AnswersHold' /\ CreatedIsBacked'
        BY <1>6 DEF LateRun, Started
  <2>5. CollectedBeforeWipe' /\ OwnWorkspace'
        BY <1>6 DEF LateRun, Started
  <2>6. StopsFindAll' /\ KillsHold'
        BY <1>6 DEF LateRun, Started
  <2> QED BY <2>1, <2>2, <2>3, <2>4, <2>5, <2>6
<1> QED BY <1>1, <1>2, <1>3, <1>4, <1>5, <1>6 DEF Docker

LEMMA StutterHolds == SandboxInv /\ UNCHANGED vars => SandboxInv'
  BY DEF SandboxInv, SandboxTypeOK, ModuleTyped, CallsTyped, DockerTyped, StartsBlank,
     AnswersHold, CreatedIsBacked, CollectedBeforeWipe, OwnWorkspace, StopsFindAll, KillsHold,
     Quiet, vars, module, callers, docker, ghosts

LEMMA SandboxInvariant == Spec => []SandboxInv
<1>1. SandboxInv /\ [Next]_vars => SandboxInv'
      BY LifecycleHolds, CallHolds, DockerHolds, StutterHolds DEF Next
<1> QED BY <1>1, InitHolds, PTL DEF Spec

\* SandboxTypeOK in every reachable state, for any set of calls and any number
\* of server processes.
THEOREM SandboxTypeCorrect == Spec => []SandboxTypeOK
  BY SandboxInvariant, PTL DEF SandboxInv

\* A call that skips docker run because _created is set finds the name taken
\* and the volume there.
THEOREM CreatedStaysBacked == Spec => []CreatedIsBacked
  BY SandboxInvariant, PTL DEF SandboxInv

\* start() keeps what an earlier process wrote out of the workspace.
THEOREM WorkspaceIsFresh == Spec => []WorkspaceStartsFresh
<1>1. SandboxInv => WorkspaceStartsFresh
      BY DEF SandboxInv, SandboxTypeOK, CallsTyped, OwnWorkspace, WorkspaceStartsFresh, Quiet
<1> QED BY <1>1, SandboxInvariant, PTL

\* The three together, in every state of any number of processes.
THEOREM SandboxStaysBacked == Spec => []SandboxIsBacked
  BY SandboxTypeCorrect, CreatedStaysBacked, WorkspaceIsFresh, PTL DEF SandboxIsBacked

\* A stop leaves neither container nor volume where Docker obeys.
THEOREM CleanStopIsClean == Spec => CleanStopLeavesNothing
<1>1. SandboxInv /\ [Next]_vars
        => (phase # "down" /\ phase' = "down" /\ ~failed' /\ ~overtaken'
              => container' = "absent" /\ ~stored')
  <2> SUFFICES ASSUME SandboxInv, [Next]_vars,
                      phase # "down", phase' = "down", ~failed', ~overtaken'
               PROVE  container' = "absent" /\ ~stored'
      OBVIOUS
  <2>1. Close \/ DropVolume
        BY DEF Next, Lifecycle, Boot, RemoveOrphan, Wipe, Crash, Call, Advance, CreateAnswered,
           CreateTimesOut, Answered, TimesOut, KillEnds, Cancel, Docker, DockerRuns, DockerStarts,
           CommandEnds, OrphanEnds, DockerKills, LateRun, CollectFirst, module, vars
  <2>2. CASE Close
        BY <2>2 DEF Close, AfterRemoval, SandboxInv, SandboxTypeOK, DockerTyped, StopsFindAll
  <2>3. CASE DropVolume
        BY <2>3 DEF DropVolume, VolumeRemoved, SandboxInv, StopsFindAll
  <2> QED BY <2>1, <2>2, <2>3
<1> QED BY <1>1, SandboxInvariant, PTL DEF Spec, CleanStopLeavesNothing

\* A timeout reported after an obeyed kill is the end of the command.
THEOREM TimeoutsAreFinal == Spec => TimedOutCommandsAreGone
<1> DEFINE Gone == \A c \in Calls :
               /\ outcome[c] # "timeout" /\ outcome'[c] = "timeout"
               /\ at[c] = "kill" => reply[c] = "ok"
               => c \notin orphans'
<1>1. SandboxInv /\ [Next]_vars => Gone
  <2> SUFFICES ASSUME SandboxInv, [Next]_vars, NEW c \in Calls,
                      outcome[c] # "timeout", outcome'[c] = "timeout",
                      at[c] = "kill" => reply[c] = "ok"
               PROVE  c \notin orphans'
      OBVIOUS
  <2>1. KillEnds(c)
        BY DEF SandboxInv, SandboxTypeOK, CallsTyped, Next, Lifecycle, Boot, RemoveOrphan, Wipe,
           Close, DropVolume, Crash, Call, Advance, CreateAnswered, CreateTimesOut, Answered,
           TimesOut, KillEnds, Cancel, Docker, DockerRuns, DockerStarts, CommandEnds, OrphanEnds,
           DockerKills, LateRun, Return, callers, vars
  <2> QED BY <2>1 DEF KillEnds, SandboxInv, KillsHold, docker
<1> QED BY <1>1, SandboxInvariant, PTL DEF Spec, TimedOutCommandsAreGone

-----------------------------------------------------------------------------
(* The runner of one subprocess.                                           *)


\* Types of the runner, its child and the two streams.
RunnerTyped ==
    /\ runner \in Streams \cup {"idle", "exit", "answered", "timed_out"}
    /\ capped \in BOOLEAN /\ hangs \in BOOLEAN /\ clipped \in BOOLEAN
    /\ script \in Seq(Streams)
    /\ pipe \in [Streams -> Nat] /\ got \in [Streams -> Nat] /\ written \in [Streams -> Nat]

\* A piece is still to be written, in the pipe or read; a timeout drops what was read.
PiecesAreKept ==
    runner # "timed_out" =>
        \A s \in Streams : written[s] = got[s] + pipe[s] + Count(s, script)

\* Before the child there is nothing of it.
IdleIsBlank ==
    runner = "idle" => ~clipped /\ \A s \in Streams : pipe[s] = 0 /\ got[s] = 0

\* What the runner has done with stream s: read it to its end, or past the cap.
Drained(s) ==
    \/ pipe[s] = 0 /\ script = <<>>
    \/ capped /\ clipped /\ got[s] >= Hard

DrainedInOrder ==
    /\ runner \in {"err", "exit", "answered"} => Drained("out")
    /\ runner \in {"exit", "answered"} => Drained("err")
    /\ runner = "answered" => script = <<>>
    /\ clipped => capped /\ \E s \in Streams : got[s] >= Hard

RunnerInv == RunnerTyped /\ IdleIsBlank /\ PiecesAreKept /\ DrainedInOrder

\* Of the pieces of a plan, the first and those that follow.
LEMMA CountHead ==
    ASSUME NEW plan \in Seq(Streams), plan # <<>>, NEW s \in Streams
    PROVE  /\ Tail(plan) \in Seq(Streams) /\ Head(plan) \in Streams
           /\ Count(s, plan) \in Nat /\ Count(s, Tail(plan)) \in Nat
           /\ Count(s, plan) = Count(s, Tail(plan)) + (IF Head(plan) = s THEN 1 ELSE 0)
<1> DEFINE rest == {i \in 1 .. Len(Tail(plan)) : Tail(plan)[i] = s}
           later == {i \in 2 .. Len(plan) : plan[i] = s}
           all == {i \in 1 .. Len(plan) : plan[i] = s}
           f == [i \in rest |-> i + 1]
<1>1. /\ Tail(plan) \in Seq(Streams) /\ Head(plan) = plan[1] /\ plan[1] \in Streams
      /\ Len(plan) \in Nat /\ Len(plan) >= 1 /\ Len(Tail(plan)) = Len(plan) - 1
      /\ \A i \in 1 .. Len(plan) - 1 : Tail(plan)[i] = plan[i + 1]
  OBVIOUS
<1>2. Count(s, plan) = Cardinality(all) /\ Count(s, Tail(plan)) = Cardinality(rest)
  <2>1. DOMAIN plan = 1 .. Len(plan) /\ DOMAIN Tail(plan) = 1 .. Len(Tail(plan))
    BY <1>1
  <2> QED
    BY <2>1 DEF Count
<1>3. IsFiniteSet(rest)
  <2>1. IsFiniteSet(1 .. Len(Tail(plan)))
    BY <1>1, FS_Interval
  <2> QED
    BY <2>1, FS_Subset
<1>4. f \in Bijection(rest, later)
  <2>1. \A i \in rest : i + 1 \in later
    BY <1>1
  <2>2. \A j \in later : j - 1 \in rest /\ (j - 1) + 1 = j
    BY <1>1
  <2>3. f \in [rest -> later] /\ \A i \in rest : f[i] = i + 1
    BY <2>1
  <2>4. \A i, j \in rest : f[i] = f[j] => i = j
    BY <2>3
  <2>5. \A j \in later : \E i \in rest : f[i] = j
    BY <2>2, <2>3
  <2> HIDE DEF f, rest, later
  <2> QED
    BY <2>3, <2>4, <2>5 DEF Bijection, Injection, Surjection, IsInjective
<1>5. IsFiniteSet(later) /\ Cardinality(later) = Cardinality(rest)
  BY <1>3, <1>4, FS_Bijection DEF ExistsBijection
<1>6. Cardinality(rest) \in Nat
  BY <1>3, FS_CardinalityType
<1>7. 1 \notin later
  OBVIOUS
<1>a. all = IF plan[1] = s THEN later \cup {1} ELSE later
  BY <1>1
<1> HIDE DEF all, later, rest, f
<1>8. CASE Head(plan) = s
  <2>1. all = later \cup {1}
    BY <1>1, <1>8, <1>a
  <2>2. Cardinality(all) = Cardinality(later) + 1
    BY <1>5, <1>7, <2>1, FS_AddElement
  <2> QED
    BY <1>1, <1>2, <1>5, <1>6, <1>8, <2>2
<1>9. CASE Head(plan) # s
  <2>1. all = later
    BY <1>1, <1>9, <1>a
  <2> QED
    BY <1>1, <1>2, <1>5, <1>6, <1>9, <2>1
<1> QED
  BY <1>8, <1>9

LEMMA CountEmpty ==
    ASSUME NEW s \in Streams
    PROVE  Count(s, <<>>) = 0
<1>1. {i \in DOMAIN <<>> : <<>>[i] = s} = {}
  OBVIOUS
<1> QED
  BY <1>1, FS_EmptySet DEF Count

LEMMA RunnerStarts == RunnerInit => RunnerInv
<1> SUFFICES ASSUME RunnerInit
             PROVE  RunnerInv
  OBVIOUS
<1>1. RunnerTyped
  <2>1. Empty \in [Streams -> Nat]
    BY DEF Empty
  <2>2. <<>> \in Seq(Streams)
    OBVIOUS
  <2> QED
    BY <2>1, <2>2 DEF RunnerInit, RunnerTyped
<1>2. PiecesAreKept /\ IdleIsBlank
  BY CountEmpty DEF RunnerInit, PiecesAreKept, IdleIsBlank, Empty
<1>3. DrainedInOrder
  BY DEF RunnerInit, DrainedInOrder, Streams
<1> QED
  BY <1>1, <1>2, <1>3 DEF RunnerInv

LEMMA SpawnKeeps ==
    ASSUME RunnerInv, Spawn
    PROVE  RunnerInv'
<1>0. RunnerTyped /\ IdleIsBlank
  BY DEF RunnerInv
<1>1. /\ runner = "idle" /\ runner' = "out" /\ script' \in Seq(Streams)
      /\ capped' \in BOOLEAN /\ hangs' \in BOOLEAN
      /\ written' = [s \in Streams |-> Count(s, script')]
      /\ pipe' = pipe /\ got' = got /\ clipped' = clipped
  BY DEF Spawn, First
<1>2. \A s \in Streams : Count(s, script') \in Nat
  <2> TAKE s \in Streams
  <2>1. CASE script' = <<>>
    BY <2>1, CountEmpty
  <2>2. CASE script' # <<>>
    BY <1>1, <2>2, CountHead
  <2> QED
    BY <2>1, <2>2
<1>3. written' \in [Streams -> Nat] /\ \A s \in Streams : written'[s] = Count(s, script')
  BY <1>1, <1>2
<1>4. RunnerTyped'
  BY <1>0, <1>1, <1>3 DEF RunnerTyped, Streams
<1>5. PiecesAreKept'
  BY <1>0, <1>1, <1>2, <1>3 DEF IdleIsBlank, PiecesAreKept
<1>6. IdleIsBlank' /\ DrainedInOrder'
  BY <1>0, <1>1 DEF IdleIsBlank, DrainedInOrder
<1> QED
  BY <1>4, <1>5, <1>6 DEF RunnerInv

LEMMA ChildWritesKeeps ==
    ASSUME RunnerInv, ChildWrites
    PROVE  RunnerInv'
<1> DEFINE x == Head(script)
<1>0. RunnerTyped /\ PiecesAreKept /\ DrainedInOrder
  BY DEF RunnerInv
<1>1. /\ script \in Seq(Streams) /\ script # <<>> /\ x \in Streams
      /\ script' = Tail(script) /\ script' \in Seq(Streams)
      /\ runner \in {"out", "err", "exit"}
      /\ UNCHANGED <<runner, capped, hangs, got, clipped, written>>
  BY <1>0 DEF RunnerTyped, ChildWrites, Running, Streams
<1>2. pipe' = [pipe EXCEPT ![x] = @ + 1]
  BY DEF ChildWrites
<1>3. \A s \in Streams : Count(s, script) \in Nat /\ Count(s, script') \in Nat
                         /\ Count(s, script) = Count(s, script') + (IF x = s THEN 1 ELSE 0)
  BY <1>1, CountHead
<1> HIDE DEF x
<1>4. pipe' \in [Streams -> Nat]
      /\ \A s \in Streams : pipe'[s] = pipe[s] + (IF x = s THEN 1 ELSE 0)
  BY <1>0, <1>1, <1>2 DEF RunnerTyped
<1>5. RunnerTyped'
  BY <1>0, <1>1, <1>4 DEF RunnerTyped
<1>6. PiecesAreKept'
  <2> SUFFICES ASSUME NEW s \in Streams
               PROVE  written'[s] = got'[s] + pipe'[s] + Count(s, script')
    BY DEF PiecesAreKept
  <2>1. written[s] = got[s] + pipe[s] + Count(s, script)
    BY <1>0, <1>1 DEF PiecesAreKept
  <2>2. got[s] \in Nat /\ pipe[s] \in Nat /\ written[s] \in Nat
    BY <1>0 DEF RunnerTyped
  <2>3. written'[s] = written[s] /\ got'[s] = got[s]
    BY <1>1
  <2> QED
    BY <1>3, <1>4, <2>1, <2>2, <2>3
<1>7. DrainedInOrder'
  BY <1>0, <1>1 DEF DrainedInOrder, Drained
<1>8. IdleIsBlank'
  BY <1>1 DEF IdleIsBlank
<1> QED
  BY <1>5, <1>6, <1>7, <1>8 DEF RunnerInv

LEMMA ReadsKeeps ==
    ASSUME RunnerInv, Reads
    PROVE  RunnerInv'
<1> DEFINE enough == capped /\ got'[runner] >= Hard
<1>0. RunnerTyped /\ PiecesAreKept /\ DrainedInOrder
  BY DEF RunnerInv
<1>1. PICK n \in 1 .. pipe[runner] :
         /\ pipe' = [pipe EXCEPT ![runner] = @ - n]
         /\ got' = [got EXCEPT ![runner] = @ + n]
  BY DEF Reads
<1>2. /\ runner \in Streams
      /\ clipped' = (clipped \/ enough)
      /\ runner' = IF enough THEN After(runner) ELSE runner
      /\ UNCHANGED <<capped, script, hangs, written>>
  BY DEF Reads
<1>3. \A s \in Streams : pipe[s] \in Nat /\ got[s] \in Nat /\ written[s] \in Nat
  BY <1>0 DEF RunnerTyped
<1>4. n \in Nat /\ n <= pipe[runner]
  BY <1>2, <1>3
<1>5. /\ pipe' \in [Streams -> Nat] /\ got' \in [Streams -> Nat]
      /\ \A s \in Streams : /\ got'[s] + pipe'[s] = got[s] + pipe[s] /\ got'[s] >= got[s]
                            /\ s # runner => pipe'[s] = pipe[s]
  BY <1>0, <1>1, <1>2, <1>3, <1>4 DEF RunnerTyped
<1>6. Hard \in Nat
  BY RunnerNumbers DEF Hard
<1>7. runner' \in {"out", "err", "exit"}
  BY <1>2 DEF After, Streams
<1>8. RunnerTyped'
  BY <1>0, <1>2, <1>5, <1>7 DEF RunnerTyped, Streams
<1>9. PiecesAreKept'
  <2> SUFFICES ASSUME NEW s \in Streams
               PROVE  written'[s] = got'[s] + pipe'[s] + Count(s, script')
    BY DEF PiecesAreKept
  <2>1. written[s] = got[s] + pipe[s] + Count(s, script)
    BY <1>0, <1>2 DEF PiecesAreKept, Streams
  <2> QED
    BY <1>2, <1>5, <2>1
<1>10. runner' \in {"err", "exit"} => Drained("out")'
  <2>1. CASE runner = "out"
    BY <1>2, <2>1 DEF Drained
  <2>2. CASE runner = "err"
    <3>1. Drained("out") /\ pipe'["out"] = pipe["out"] /\ got'["out"] >= got["out"]
      BY <1>0, <1>5, <2>2 DEF DrainedInOrder, Streams
    <3>2. got["out"] \in Nat /\ got'["out"] \in Nat
      BY <1>3, <1>5 DEF Streams
    <3>3. pipe["out"] = 0 /\ script = <<>> => Drained("out")'
      BY <1>2, <3>1 DEF Drained
    <3>4. capped /\ clipped /\ got["out"] >= Hard => Drained("out")'
      <4>1. clipped => clipped'
        BY <1>2
      <4>2. got["out"] >= Hard => got'["out"] >= Hard
        BY <1>6, <3>1, <3>2
      <4>3. capped' = capped /\ Hard' = Hard
        BY <1>2 DEF Hard
      <4> QED
        BY <4>1, <4>2, <4>3 DEF Drained
    <3> QED
      BY <3>1, <3>3, <3>4 DEF Drained
  <2> QED
    BY <1>2, <2>1, <2>2 DEF Streams
<1>11. runner' = "exit" => Drained("err")'
  BY <1>2 DEF Drained, After, Streams
<1>12. clipped' => capped' /\ \E s \in Streams : got'[s] >= Hard
  <2>1. CASE enough
    BY <1>2, <2>1
  <2>2. CASE clipped
    <3>1. capped /\ \E s \in Streams : got[s] >= Hard
      BY <1>0, <2>2 DEF DrainedInOrder
    <3>2. \A s \in Streams : got'[s] \in Nat /\ got'[s] >= got[s]
      BY <1>5
    <3> QED
      BY <1>2, <1>3, <1>6, <3>1, <3>2
  <2> QED
    BY <1>2, <2>1, <2>2
<1>13. DrainedInOrder'
  BY <1>7, <1>10, <1>11, <1>12 DEF DrainedInOrder
<1>14. IdleIsBlank'
  BY <1>7 DEF IdleIsBlank
<1> QED
  BY <1>8, <1>9, <1>13, <1>14 DEF RunnerInv

LEMMA RunnerMovesOn ==
    ASSUME RunnerInv, EndOfStream \/ Exits \/ RunnerTimesOut
    PROVE  RunnerInv'
<1>0. RunnerTyped /\ PiecesAreKept /\ DrainedInOrder
  BY DEF RunnerInv
<1>1. CASE EndOfStream
  <2>1. /\ runner \in {"out", "err"} /\ pipe[runner] = 0 /\ script = <<>>
        /\ runner' = IF runner = "out" THEN "err" ELSE "exit"
        /\ UNCHANGED <<capped, script, hangs, pipe, got, clipped, written>>
    BY <1>1 DEF EndOfStream, After, ChildEnded, Streams
  <2>2. RunnerTyped'
    BY <1>0, <2>1 DEF RunnerTyped, Streams
  <2>3. PiecesAreKept' /\ IdleIsBlank'
    BY <1>0, <2>1 DEF PiecesAreKept, IdleIsBlank
  <2>4. DrainedInOrder'
    BY <1>0, <2>1 DEF DrainedInOrder, Drained
  <2> QED
    BY <2>2, <2>3, <2>4 DEF RunnerInv
<1>2. CASE Exits
  <2>1. /\ runner = "exit" /\ script = <<>> /\ runner' = "answered"
        /\ UNCHANGED <<capped, script, hangs, pipe, got, clipped, written>>
    BY <1>2 DEF Exits, ChildEnded
  <2>2. RunnerTyped'
    BY <1>0, <2>1 DEF RunnerTyped
  <2>3. PiecesAreKept' /\ IdleIsBlank'
    BY <1>0, <2>1 DEF PiecesAreKept, IdleIsBlank
  <2>4. DrainedInOrder'
    BY <1>0, <2>1 DEF DrainedInOrder, Drained
  <2> QED
    BY <2>2, <2>3, <2>4 DEF RunnerInv
<1>3. CASE RunnerTimesOut
  <2>1. Empty \in [Streams -> Nat]
    BY DEF Empty
  <2>2. RunnerTyped'
    BY <1>0, <1>3, <2>1 DEF RunnerTyped, RunnerTimesOut
  <2> QED
    BY <1>3, <2>2 DEF RunnerInv, PiecesAreKept, IdleIsBlank, DrainedInOrder, RunnerTimesOut
<1> QED
  BY <1>1, <1>2, <1>3

LEMMA RunnerStutters ==
    ASSUME RunnerInv, UNCHANGED runnerVars
    PROVE  RunnerInv'
  BY DEF RunnerInv, runnerVars, RunnerTyped, IdleIsBlank, PiecesAreKept, DrainedInOrder, Drained

\* What is written is read, in the pipe or to come, and a stream that the runner
\* has left was at its end or past the cap (sandbox.py:84-112).
THEOREM RunnerInvariance == RunnerSpec => []RunnerInv
<1>1. RunnerInv /\ RunnerNext => RunnerInv'
  BY SpawnKeeps, ChildWritesKeeps, ReadsKeeps, RunnerMovesOn DEF RunnerNext
<1> QED
  BY <1>1, RunnerStarts, RunnerStutters, PTL DEF RunnerSpec

LEMMA TruncationFollows ==
    ASSUME RunnerInv
    PROVE  TruncationIsTold
<1> SUFFICES ASSUME runner = "answered"
             PROVE  /\ Truncated <=> capped /\ \E s \in Streams : written[s] > Cap
                    /\ ~Truncated => got = written
  BY DEF TruncationIsTold
<1>0. RunnerTyped /\ PiecesAreKept /\ DrainedInOrder
  BY DEF RunnerInv
<1>1. \A s \in Streams : pipe[s] \in Nat /\ got[s] \in Nat /\ written[s] \in Nat
  BY <1>0 DEF RunnerTyped
<1>2. Cap \in Nat /\ Hard \in Nat /\ Hard > Cap
  BY RunnerNumbers DEF Hard
<1>3. script = <<>>
  BY <1>0 DEF DrainedInOrder
<1>4. \A s \in Streams : written[s] = got[s] + pipe[s]
  <2> TAKE s \in Streams
  <2>1. written[s] = got[s] + pipe[s] + Count(s, script) /\ Count(s, script) = 0
    BY <1>0, <1>3, CountEmpty DEF PiecesAreKept
  <2> QED
    BY <1>1, <2>1
<1>5. clipped \/ \A s \in Streams : pipe[s] = 0
  BY <1>0 DEF DrainedInOrder, Drained, Streams
<1>6. clipped => capped /\ \E s \in Streams : got[s] > Cap
  <2> SUFFICES ASSUME clipped
               PROVE  capped /\ \E s \in Streams : got[s] > Cap
    OBVIOUS
  <2>1. PICK s \in Streams : got[s] >= Hard
    BY <1>0 DEF DrainedInOrder
  <2>2. got[s] > Cap
    BY <1>1, <1>2, <2>1
  <2> QED
    BY <1>0, <2>2 DEF DrainedInOrder
<1>7. \A s \in Streams : got[s] > Cap => written[s] > Cap
  BY <1>1, <1>2, <1>4
<1>8. ~clipped => \A s \in Streams : got[s] = written[s]
  BY <1>1, <1>4, <1>5
<1>9. ~clipped => got = written
  <2>1. got = [s \in Streams |-> got[s]] /\ written = [s \in Streams |-> written[s]]
    BY <1>0 DEF RunnerTyped
  <2> QED
    BY <1>8, <2>1
<1> QED
  BY <1>6, <1>7, <1>8, <1>9 DEF Truncated

LEMMA FloodsFollow ==
    ASSUME RunnerInv
    PROVE  OnlyFloodsBlock
<1> SUFFICES ASSUME Deadlocked
             PROVE  \/ written["err"] > Capacity
                    \/ capped /\ \E s \in Streams : written[s] > Hard + Capacity
  BY DEF OnlyFloodsBlock
<1> DEFINE x == Head(script)
<1>0. RunnerTyped /\ PiecesAreKept /\ DrainedInOrder
  BY DEF RunnerInv
<1>1. /\ runner \in {"out", "err", "exit"} /\ script # <<>>
      /\ pipe[x] = Capacity /\ runner # x
  BY DEF Deadlocked, Running, Streams
<1>2. x \in Streams /\ Count(x, script) \in Nat \ {0}
  <2>1. script \in Seq(Streams)
    BY <1>0 DEF RunnerTyped
  <2>2. x \in Streams
    BY <1>1, <2>1
  <2>3. Count(x, script) = Count(x, Tail(script)) + 1 /\ Count(x, Tail(script)) \in Nat
    BY <1>1, <2>1, <2>2, CountHead
  <2> QED
    BY <2>2, <2>3
<1> HIDE DEF x
<1>3. \A s \in Streams : pipe[s] \in Nat /\ got[s] \in Nat /\ written[s] \in Nat
  BY <1>0 DEF RunnerTyped
<1>4. Capacity \in Nat /\ Hard \in Nat
  BY RunnerNumbers DEF Hard
<1>5. written[x] = got[x] + Capacity + Count(x, script)
  BY <1>0, <1>1, <1>2 DEF PiecesAreKept
<1>6. written[x] > got[x] + Capacity
  BY <1>2, <1>3, <1>4, <1>5
<1>7. CASE x = "err"
  BY <1>2, <1>3, <1>4, <1>6, <1>7
<1>8. CASE x = "out"
  <2>1. capped /\ got["out"] >= Hard
    BY <1>0, <1>1, <1>8 DEF DrainedInOrder, Drained
  <2>2. written[x] > Hard + Capacity
    BY <1>2, <1>3, <1>4, <1>6, <1>8, <2>1
  <2> QED
    BY <1>2, <2>1, <2>2
<1> QED
  BY <1>2, <1>7, <1>8 DEF Streams

\* What an answer gives without saying that it is cut is all the child wrote, and
\* only a flood stops child and runner for good (sandbox.py:81-112, 248-277).
THEOREM OutputStaysAccountedFor == RunnerSpec => []OutputIsAccountedFor
<1>1. RunnerInv => OutputIsAccountedFor
  BY TruncationFollows, FloodsFollow DEF OutputIsAccountedFor
<1> QED
  BY <1>1, RunnerInvariance, PTL
=============================================================================
