---------------------------- MODULE AgentSession ----------------------------
(***************************************************************************)
(* Interactive agent runs over WebSocket connections:                      *)
(* modules/orchestrator/session.py (the approval round trip) and           *)
(* modules/orchestrator/loop.py (the bounded loop), over one dispatcher    *)
(* and one approval registry that all sessions of the process share.       *)
(*                                                                         *)
(* A session has two tasks under the asyncio event loop: the orchestrator  *)
(* task, whose await points are the values of pc, and the reader task,     *)
(* which handles one frame of the client at a time (Decision).  Tasks      *)
(* switch only at an await, so one action is everything a task does from   *)
(* one await to the next.  A send awaits: the transport may suspend it     *)
(* after the frame is on the wire, so the client's answer may be handled   *)
(* before the send returns.                                                *)
(*                                                                         *)
(* pc of the orchestrator task:                                            *)
(*   "none"        no task                                                 *)
(*   "model"       awaiting the model's turn                               *)
(*   "announcing"  awaiting the send of tool_call                          *)
(*   "asking"      awaiting the send of approval_request                   *)
(*   "waiting"     awaiting the decision future, at most DecisionTimeout   *)
(*   "giving_up"   awaiting the send of approval_timeout                   *)
(*   "tool"        awaiting tool.run                                       *)
(*   "reporting"   awaiting the send of tool_result                        *)
(*   "done"        the loop returned a RunResult                           *)
(*   "cancelled"   the task ended in CancelledError                        *)
(***************************************************************************)
EXTENDS Dispatcher, FiniteSets

CONSTANTS
    Sessions,           \* WebSocket connections
    PrincipalOf,        \* the principal each connection authenticated as
    Runners,            \* principals with the agent:run scope
    MaxSteps,           \* max_steps: model turns per run
    MaxToolCalls,       \* max_tool_calls: tool calls per run
    Deadline,           \* deadline_seconds of a run, or NoDeadline (None)
    NoDeadline,
    DecisionTimeout,    \* decision_timeout of an approval prompt
    MaxBatch,           \* bound: tool calls the model proposes in one turn
    NoAction,           \* "no entry" in a session's _actions
    NoId                \* "no approval is being obtained"

ASSUME NoIdIsNoId == NoId \notin Ids
ASSUME PrincipalOfIsTotal == PrincipalOf \in [Sessions -> Principals]
ASSUME BudgetsNonNegative == MaxSteps \in Nat /\ MaxToolCalls \in Nat
ASSUME DeadlineIsPositive == Deadline \in (Nat \ {0}) \cup {NoDeadline}
ASSUME DecisionTimeoutPositive == DecisionTimeout \in Nat \ {0}

VARIABLES
    conn,       \* the client's connection: "open" | "closed"
    run,        \* "idle" | "running" | "orphaned" (the reader task has ended)
    pc,         \* await point of the orchestrator task
    todo,       \* tool calls of the current turn still to handle
    steps,      \* model turns made
    calls,      \* tool_calls_made
    result,     \* status of the RunResult
    timeLeft,   \* time left to the run's deadline
    asked,      \* the approval id obtain_approval was called with
    actions,    \* _actions: approval id -> the action bound to it
    future,     \* _pending: approval id -> "none" | "unset" | "set"
    waitLeft,   \* time left to the decision timeout
    cancelSent, \* run() has cancelled the orchestrator task
    started,    \* tool executions this run has started
    logged,     \* dispatch audit records this run has written for them
    decisions,  \* the approval audit: <<id, "approve" | "deny" | "timeout">>
    cutOff      \* history: <<id, pc>> where a cancellation was delivered

loopVars == <<todo, steps, calls, result, timeLeft, started, logged>>
promptVars == <<asked, actions, future, waitLeft, decisions, cutOff>>
sessionVars == <<conn, run, pc, cancelSent, loopVars, promptVars>>
vars == <<dispatchVars, sessionVars>>

RunStatus == {"completed", "max_steps", "timed_out", "budget_exhausted", "error"}
Batches == UNION {[1..n -> Actions] : n \in 0..MaxBatch}

Set(f, s, v) == [f EXCEPT ![s] = v]
Increment(f, s) == [f EXCEPT ![s] = @ + 1]

-----------------------------------------------------------------------------
(* The loop between two awaits.                                            *)

Overdue(s) == timeLeft[s] # NoDeadline /\ timeLeft[s] < 0

Finish(s, status) ==
    /\ pc' = Set(pc, s, "done")
    /\ result' = Set(result, s, status)

\* Top of the while loop: the step budget first, then the deadline.
NextTurn(s, turns) ==
    IF turns >= MaxSteps THEN Finish(s, "max_steps")
    ELSE IF Overdue(s) THEN Finish(s, "timed_out")
    ELSE pc' = Set(pc, s, "model") /\ UNCHANGED result

\* Mutant of NextCall: the budget test is off by one.
NextCallOneOver(s, rest, made, turns) ==
    IF rest = <<>> THEN NextTurn(s, turns)
    ELSE IF made > MaxToolCalls THEN Finish(s, "budget_exhausted")
    ELSE pc' = Set(pc, s, "announcing") /\ UNCHANGED result

\* Top of the for loop over a turn's calls: the tool-call budget.
NextCall(s, rest, made, turns) ==
    IF rest = <<>> THEN NextTurn(s, turns)
    ELSE IF made >= MaxToolCalls THEN Finish(s, "budget_exhausted")
    ELSE pc' = Set(pc, s, "announcing") /\ UNCHANGED result

\* The dispatch of one call is over: count it, audit it, report it.
Observed(s) ==
    /\ calls' = Increment(calls, s)
    /\ pc' = Set(pc, s, "reporting")

\* The fresh ids a run may need; StartRun keeps the id supply sufficient.
IdsSuffice ==
    Cardinality(issued) + MaxToolCalls * (1 + Cardinality({s \in Sessions : run[s] # "idle"}))
        <= Cardinality(Ids)

StartRun(s) ==
    /\ conn[s] = "open" /\ run[s] = "idle"
    /\ PrincipalOf[s] \in Runners
    /\ IdsSuffice
    /\ run' = Set(run, s, "running")
    /\ IF MaxSteps = 0 THEN Finish(s, "max_steps")
                       ELSE pc' = Set(pc, s, "model") /\ UNCHANGED result
    /\ timeLeft' = Set(timeLeft, s, Deadline)
    /\ UNCHANGED <<dispatchVars, conn, cancelSent, todo, steps, calls, started,
                   logged, promptVars>>

ModelFails(s) ==
    /\ pc[s] = "model"
    /\ Finish(s, "error")
    /\ UNCHANGED <<dispatchVars, conn, run, cancelSent, todo, steps, calls,
                   timeLeft, started, logged, promptVars>>

ModelReturns(s, batch) ==
    /\ pc[s] = "model"
    /\ steps' = Increment(steps, s)
    /\ todo' = Set(todo, s, batch)
    /\ IF batch = <<>> THEN Finish(s, "completed")
                       ELSE NextCall(s, batch, calls[s], steps[s] + 1)
    /\ UNCHANGED <<dispatchVars, conn, run, cancelSent, calls, timeLeft, started,
                   logged, promptVars>>

-----------------------------------------------------------------------------
(* One tool call: announce, dispatch, ask, run, report.                    *)

DispatchNothing(s) ==
    /\ pc[s] = "announcing"
    /\ DispatchRunsNothing(Head(todo[s]))
    /\ Observed(s)
    /\ UNCHANGED <<dispatchVars, conn, run, cancelSent, todo, steps, result,
                   timeLeft, started, logged, promptVars>>

DispatchRuns(s) ==
    /\ pc[s] = "announcing"
    /\ DispatchSafe(Head(todo[s]))
    /\ pc' = Set(pc, s, "tool")
    /\ started' = Increment(started, s)
    /\ UNCHANGED <<conn, run, cancelSent, todo, steps, calls, result, timeLeft,
                   logged, promptVars>>

\* dispatch returns `pending`; obtain_approval binds the action and sends.
DispatchAsks(s, id) ==
    /\ pc[s] = "announcing"
    /\ DispatchEnrol(Head(todo[s]), PrincipalOf[s], id)
    /\ asked' = Set(asked, s, id)
    /\ actions' = [actions EXCEPT ![s][id] = Head(todo[s])]
    /\ pc' = Set(pc, s, "asking")
    /\ UNCHANGED <<conn, run, cancelSent, loopVars, future, waitLeft, decisions,
                   cutOff>>

\* Only now is the future created that a decision can set.
PromptSent(s) ==
    /\ pc[s] = "asking"
    /\ future' = [future EXCEPT ![s][asked[s]] = "unset"]
    /\ waitLeft' = Set(waitLeft, s, DecisionTimeout)
    /\ pc' = Set(pc, s, "waiting")
    /\ UNCHANGED <<dispatchVars, conn, run, cancelSent, loopVars, asked, actions,
                   decisions, cutOff>>

\* The timer of wait_for wins.  From here on the wait ends as a timeout, even
\* if a decision sets the future before the task gets to run.
GiveUp(s) ==
    /\ pc[s] = "waiting" /\ future[s][asked[s]] = "unset"
    /\ waitLeft[s] <= 0
    /\ decisions' = decisions \cup {<<asked[s], "timeout">>}
    /\ pc' = Set(pc, s, "giving_up")
    /\ UNCHANGED <<dispatchVars, conn, run, cancelSent, loopVars, asked, actions,
                   future, waitLeft, cutOff>>

\* Mutant of Unbind: the action stays bound after the prompt.
UnbindFutureOnly(s) ==
    /\ future' = [future EXCEPT ![s][asked[s]] = "none"]
    /\ asked' = Set(asked, s, NoId)
    /\ waitLeft' = Set(waitLeft, s, 0)
    /\ UNCHANGED actions

\* obtain_approval's finally block, but for its last line.
Unbind(s) ==
    /\ actions' = [actions EXCEPT ![s][asked[s]] = NoAction]
    /\ future' = [future EXCEPT ![s][asked[s]] = "none"]
    /\ asked' = Set(asked, s, NoId)
    /\ waitLeft' = Set(waitLeft, s, 0)

\* Mutants of DenyIfPending: the timeout leaves the approval pending; the
\* record is set to denied without asking the registry.
LeavePending(s) == Lookup(asked[s])

DenyRegardless(s) ==
    /\ Store(asked[s], "denied", PrincipalOf[s])
    /\ UNCHANGED <<issued, registered, ungated, runs, grants>>

\* The last line of that block.
DenyIfPending(s) ==
    IF LiveStatus(asked[s], {"pending"}) THEN DecideDeny(asked[s], PrincipalOf[s])
                                         ELSE Lookup(asked[s])

\* obtain_approval returns and execute_approved is called without an await in
\* between: the tool starts, or the call is over.
Conclude(s) ==
    LET id == asked[s]
        a  == Head(todo[s])
    IN  /\ Unbind(s)
        /\ IF WillRun(id, a)
           THEN /\ ExecuteApproved(id, a)
                /\ pc' = Set(pc, s, "tool")
                /\ started' = Increment(started, s)
                /\ UNCHANGED calls
           ELSE /\ DenyIfPending(s)
                /\ Observed(s)
                /\ UNCHANGED started
        /\ UNCHANGED <<conn, run, todo, steps, result, timeLeft, logged, decisions>>

Woken(s) ==
    /\ pc[s] = "waiting" /\ future[s][asked[s]] = "set"
    /\ Conclude(s)
    /\ UNCHANGED <<cancelSent, cutOff>>

TimeoutSent(s) ==
    /\ pc[s] = "giving_up"
    /\ Conclude(s)
    /\ UNCHANGED <<cancelSent, cutOff>>

\* The tool returned or raised; either way the outcome is audited.
ToolEnds(s) ==
    /\ pc[s] = "tool"
    /\ Observed(s)
    /\ logged' = Increment(logged, s)
    /\ UNCHANGED <<dispatchVars, conn, run, todo, steps, result, timeLeft, started,
                   promptVars>>

ToolReturns(s) == ToolEnds(s) /\ UNCHANGED cancelSent

Reported(s) ==
    /\ pc[s] = "reporting"
    /\ todo' = Set(todo, s, Tail(todo[s]))
    /\ NextCall(s, Tail(todo[s]), calls[s], steps[s])
    /\ UNCHANGED <<dispatchVars, conn, run, cancelSent, steps, calls, timeLeft,
                   started, logged, promptVars>>

-----------------------------------------------------------------------------
(* The reader task: one frame of the client.                               *)

Reading(s) == run[s] = "running"

\* A decision is acted on only for an id this session has bound; any other
\* frame (junk, unknown id) is answered with an error and changes nothing.
Bound(s, id) == actions[s][id] # NoAction

Resolve(s, id) ==
    future' = [future EXCEPT ![s][id] = IF @ = "unset" THEN "set" ELSE @]

Decision(s, id, ok, verb) ==
    /\ IF ok THEN /\ decisions' = decisions \cup {<<id, verb>>}
                  /\ Resolve(s, id)
             ELSE UNCHANGED <<decisions, future>>
    /\ UNCHANGED <<conn, run, pc, cancelSent, loopVars, asked, actions, waitLeft,
                   cutOff>>

ClientApproves(s, id) ==
    /\ Reading(s) /\ Bound(s, id)
    /\ DecideApprove(id, actions[s][id], PrincipalOf[s])
    /\ Decision(s, id, MayApprove(id, actions[s][id], PrincipalOf[s]), "approve")

\* Mutant of ClientDenies: a deny is taken for any id.
ClientDeniesAny(s, id) ==
    /\ Reading(s)
    /\ DecideDeny(id, PrincipalOf[s])
    /\ Decision(s, id, MayDeny(id), "deny")

ClientDenies(s, id) ==
    /\ Reading(s) /\ Bound(s, id)
    /\ DecideDeny(id, PrincipalOf[s])
    /\ Decision(s, id, MayDeny(id), "deny")

\* receive_json raises and the reader task ends: the client is gone, or it
\* sent a frame that is not JSON and the connection is still there.
ReaderEnds(s) ==
    /\ Reading(s)
    /\ run' = Set(run, s, "orphaned")
    /\ conn' \in {conn, Set(conn, s, "closed")}
    /\ UNCHANGED <<dispatchVars, pc, cancelSent, loopVars, promptVars>>

-----------------------------------------------------------------------------
(* run(): cancellation and the end of a run.                               *)

Cancellable(s) ==
    /\ run[s] = "orphaned" /\ ~cancelSent[s]
    /\ pc[s] \notin {"none", "done", "cancelled"}

CutOff(s) == cutOff' = IF asked[s] = NoId THEN cutOff
                       ELSE cutOff \cup {<<asked[s], pc[s]>>}

\* CancelledError ends the task at an await outside obtain_approval's try
\* block: nothing is unbound and no approval is denied.
CancelOutsidePrompt(s) ==
    /\ Cancellable(s)
    /\ pc[s] \in {"model", "announcing", "asking", "tool", "reporting"}
    /\ cancelSent' = Set(cancelSent, s, TRUE)
    /\ pc' = Set(pc, s, "cancelled")
    /\ CutOff(s)
    /\ UNCHANGED <<dispatchVars, conn, run, loopVars, asked, actions, future,
                   waitLeft, decisions>>

\* Inside the try block the finally clause runs first.
CancelInsidePrompt(s) ==
    /\ Cancellable(s)
    /\ pc[s] \in {"waiting", "giving_up"}
    /\ cancelSent' = Set(cancelSent, s, TRUE)
    /\ pc' = Set(pc, s, "cancelled")
    /\ CutOff(s)
    /\ Unbind(s)
    /\ DenyIfPending(s)
    /\ UNCHANGED <<conn, run, loopVars, decisions>>

\* wait_for of Python 3.11 returns the result instead of raising when the
\* decision has arrived by the time it is cancelled: the run goes on.
CancelSwallowedByWait(s) ==
    /\ Cancellable(s)
    /\ pc[s] = "waiting" /\ future[s][asked[s]] = "set"
    /\ cancelSent' = Set(cancelSent, s, TRUE)
    /\ CutOff(s)
    /\ Conclude(s)

\* A tool may turn the cancellation into an ordinary failure (the MCP session
\* does); the run goes on as well.
CancelSwallowedByTool(s) ==
    /\ Cancellable(s)
    /\ ToolEnds(s)
    /\ cancelSent' = Set(cancelSent, s, TRUE)

\* Mutant of LoopEnded: the cancelled task is awaited for a result for ever.
LoopReturned(s) == pc[s] = "done"

LoopEnded(s) == pc[s] \in {"done", "cancelled"}

\* Both tasks have ended: send task_result if there is one, purge.
EndRun(s) ==
    /\ LoopEnded(s)
    /\ PurgeTerminal
    /\ run' = Set(run, s, "idle")
    /\ pc' = Set(pc, s, "none")
    /\ todo' = Set(todo, s, <<>>)
    /\ steps' = Set(steps, s, 0)
    /\ calls' = Set(calls, s, 0)
    /\ result' = Set(result, s, "none")
    /\ timeLeft' = Set(timeLeft, s, NoDeadline)
    /\ started' = Set(started, s, 0)
    /\ logged' = Set(logged, s, 0)
    /\ asked' = Set(asked, s, NoId)
    /\ actions' = Set(actions, s, [id \in Ids |-> NoAction])
    /\ future' = Set(future, s, [id \in Ids |-> "none"])
    /\ waitLeft' = Set(waitLeft, s, 0)
    /\ cancelSent' = Set(cancelSent, s, FALSE)
    /\ UNCHANGED <<registered, ungated, runs, grants, conn, decisions, cutOff>>

-----------------------------------------------------------------------------
Clock ==
    /\ TimePasses
    /\ waitLeft' = [s \in Sessions |-> IF pc[s] = "waiting" THEN Elapse(waitLeft[s])
                                                            ELSE waitLeft[s]]
    /\ timeLeft' = [s \in Sessions |-> IF timeLeft[s] = NoDeadline THEN NoDeadline
                                                            ELSE Elapse(timeLeft[s])]
    /\ UNCHANGED <<conn, run, pc, cancelSent, todo, steps, calls, result, started,
                   logged, asked, actions, future, decisions, cutOff>>

ToolsArrive == \E t \in Tools : Register(t) /\ UNCHANGED sessionVars

Progress(s) ==
    \/ ModelFails(s)
    \/ \E batch \in Batches : ModelReturns(s, batch)
    \/ DispatchNothing(s)
    \/ DispatchRuns(s)
    \/ \E id \in Ids : DispatchAsks(s, id)
    \/ PromptSent(s)
    \/ GiveUp(s)
    \/ Woken(s)
    \/ TimeoutSent(s)
    \/ ToolReturns(s)
    \/ Reported(s)
    \/ CancelOutsidePrompt(s)
    \/ CancelInsidePrompt(s)
    \/ CancelSwallowedByWait(s)
    \/ CancelSwallowedByTool(s)
    \/ EndRun(s)

Client(s) ==
    \/ StartRun(s)
    \/ \E id \in Ids : ClientApproves(s, id) \/ ClientDenies(s, id)
    \/ ReaderEnds(s)

Init ==
    /\ DispatchInit
    /\ conn = [s \in Sessions |-> "open"]
    /\ run = [s \in Sessions |-> "idle"]
    /\ pc = [s \in Sessions |-> "none"]
    /\ todo = [s \in Sessions |-> <<>>]
    /\ steps = [s \in Sessions |-> 0]
    /\ calls = [s \in Sessions |-> 0]
    /\ result = [s \in Sessions |-> "none"]
    /\ timeLeft = [s \in Sessions |-> NoDeadline]
    /\ asked = [s \in Sessions |-> NoId]
    /\ actions = [s \in Sessions |-> [id \in Ids |-> NoAction]]
    /\ future = [s \in Sessions |-> [id \in Ids |-> "none"]]
    /\ waitLeft = [s \in Sessions |-> 0]
    /\ cancelSent = [s \in Sessions |-> FALSE]
    /\ started = [s \in Sessions |-> 0]
    /\ logged = [s \in Sessions |-> 0]
    /\ decisions = {}
    /\ cutOff = {}

Next ==
    \/ \E s \in Sessions : Progress(s) \/ Client(s)
    \/ Clock
    \/ ToolsArrive

Spec == Init /\ [][Next]_vars

\* The event loop runs every task that can run, and the clock advances.  That
\* awaiting the model, a tool or a send comes back is an assumption about the
\* HTTP client, the tools and the transport.
Fairness == WF_vars(Clock) /\ \A s \in Sessions : WF_vars(Progress(s))

FairSpec == Spec /\ Fairness

-----------------------------------------------------------------------------
(* Correctness.                                                            *)

AwaitPoints == {"none", "model", "announcing", "asking", "waiting", "giving_up",
                "tool", "reporting", "done", "cancelled"}

PromptOpen(s) == pc[s] \in {"asking", "waiting", "giving_up"}

\* The session's bookkeeping is well formed, and its two dictionaries follow
\* the await point: an action is bound exactly while its prompt is open, and
\* a decision future exists exactly between the two sends.
SessionTypeOK ==
    /\ DispatchTypeOK
    /\ conn \in [Sessions -> {"open", "closed"}]
    /\ run \in [Sessions -> {"idle", "running", "orphaned"}]
    /\ pc \in [Sessions -> AwaitPoints]
    /\ result \in [Sessions -> RunStatus \cup {"none"}]
    /\ decisions \subseteq Ids \X {"approve", "deny", "timeout"}
    /\ cutOff \subseteq Ids \X AwaitPoints
    /\ \A s \in Sessions :
          /\ run[s] = "idle" <=> pc[s] = "none"
          /\ PromptOpen(s) => /\ asked[s] \in Ids
                              /\ actions[s][asked[s]] = Head(todo[s])
          /\ \A id \in Ids :
                /\ Bound(s, id) => asked[s] = id
                /\ (future[s][id] # "none") <=>
                       (asked[s] = id /\ pc[s] \in {"waiting", "giving_up"})

\* The composition refines the dispatcher on its own: whatever sessions,
\* clients, timers and cancellations do, all they do to the shared registry
\* and to the tools is a sequence of single dispatcher and registry calls, so
\* what is proved of DispatchSpec holds of every run.
ImplementsDispatcher == DispatchSpec

\* Sessions share one registry but not their decisions: whatever a record's
\* decision is, it was taken by the principal on whose behalf the approval was
\* requested, through the session that asked.
DecisionsStayInTheirSession ==
    /\ \A id \in Enrolled : records[id].decided_by \in {Nobody, records[id].requested_by}
    /\ \A g \in grants : \A s \in Sessions : asked[s] = g.id => g.by = PrincipalOf[s]

\* The approval audit explains what ran: a tool ran under an approval only if
\* an approve is on record, and never if a deny is - also when the deny revoked
\* an approve that the orchestrator had not yet acted on. A run that was not cut
\* off has a dispatch record of every execution it started.
AuditExplainsRuns ==
    /\ \A id \in Ids :
         /\ runs[id] # <<>> => <<id, "approve">> \in decisions
         /\ <<id, "deny">> \in decisions => runs[id] = <<>>
    /\ \A s \in Sessions : pc[s] = "done" => logged[s] = started[s]

\* INV-5, the bounds bind: no interleaving of batches, prompts and
\* cancellations lets a run exceed its budgets, and the status a run reports
\* is the bound it actually hit.
BudgetsBind ==
    \A s \in Sessions :
        /\ steps[s] <= MaxSteps
        /\ started[s] <= MaxToolCalls /\ calls[s] <= MaxToolCalls
        /\ logged[s] <= started[s] /\ started[s] <= calls[s] + 1
        /\ result[s] = "max_steps" => steps[s] = MaxSteps /\ todo[s] = <<>>
        /\ result[s] = "budget_exhausted" => calls[s] = MaxToolCalls /\ todo[s] # <<>>
        /\ result[s] = "timed_out" => Overdue(s) /\ steps[s] < MaxSteps

\* The cleanup of obtain_approval: a live approval always has a session that
\* still has its prompt open, except where a cancellation was delivered - a
\* pending one is left behind only by a cancellation during the send of the
\* prompt, an approved one only by a cancellation that came after the approve.
LeftoversComeFromCancellation ==
    \A id \in Ids :
        HasStatus(id, {"pending", "approved"}) =>
            \/ \E s \in Sessions : asked[s] = id /\ PromptOpen(s)
            \/ <<id, "asking">> \in cutOff
            \/ records[id].status = "approved" /\ \E at \in AwaitPoints : <<id, at>> \in cutOff

\* The sessions in every state: bookkeeping, decisions and leftovers together.
SessionsAreSound ==
    SessionTypeOK /\ DecisionsStayInTheirSession /\ LeftoversComeFromCancellation

\* INV-5, termination: every run ends, whatever the model proposes and
\* whether or not the client ever answers, decides or goes away.
RunsEnd == \A s \in Sessions : run[s] # "idle" ~> run[s] = "idle"

\* The registry drains: every approval that was enrolled is eventually purged,
\* unless a cancellation was delivered while its prompt was open.
RegistryDrains ==
    \A id \in Ids : id \in Enrolled ~>
        (id \notin Enrolled \/ \E at \in AwaitPoints : <<id, at>> \in cutOff)

-----------------------------------------------------------------------------
(* What a comment says that the code does not do.                          *)

\* "A decision timeout denies the approval so a late approve can't leave an
\* orphan" (session.py, B5) and "a late approve can't run it": an approval that
\* is undecided when its timeout goes on record is never granted afterwards.
TimeoutIsFinal ==
    [][\A id \in Ids :
          <<id, "timeout">> \in decisions /\ Phase(id) = "pending" =>
              Phase(id)' # "approved"]_vars
=============================================================================
