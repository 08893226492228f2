----------------------------- MODULE WebClient -----------------------------
(***************************************************************************)
(* The browser side of a session: ApiClient (web/src/api/client.ts), the   *)
(* RunController and the ApprovalsController that share its socket, and    *)
(* the App shell that mounts them while it is connected.  The other end    *)
(* of the socket is the gateway's /ws handler and the AgentSession that    *)
(* takes the socket over for a task, seen from the wire: which frames it   *)
(* reads and writes, in order.                                             *)
(*                                                                         *)
(* JavaScript runs one callback at a time, so a callback, with the state   *)
(* listeners it calls, is one step.  A browser fires `error` and `close`   *)
(* of a failed socket in the same task, so they are one step too.  Only    *)
(* the passing of the back-off and of the run timeout is left open: a      *)
(* timer may fire at any time while it is armed.                           *)
(***************************************************************************)
EXTENDS Integers, Sequences

CONSTANTS
    Approvals,              \* approval ids a session may ask for
    MaxHandshakeFailures,   \* MAX_HANDSHAKE_FAILURES
    MaxTasks,               \* bound: tasks the operator submits
    MaxSockets,             \* bound: sockets ever created
    MaxFrames               \* bound: frames on the way in one direction

ASSUME BoundsAreNat ==
    /\ MaxHandshakeFailures \in Nat \ {0}
    /\ MaxTasks \in Nat /\ MaxSockets \in Nat /\ MaxFrames \in Nat

NoTask == 0
NoApproval == "none"

VARIABLES
    state,      \* _state of the client: its ConnState
    client,     \* closedByUser, the reconnect timer, handshakeFailures
    sock,       \* the socket whose handlers are attached
    sockets,    \* how many sockets were created
    tasks,      \* how many tasks were submitted
    running,    \* the task the RunController runs, or NoTask
    items,      \* what the ApprovalsController shows of each approval
    sent,       \* decision frames sent for each approval (history)
    shown,      \* pairs <<task shown as answered, task answered>> (history)
    timedOut,   \* a run timeout has fired (history)
    up, down,   \* frames on the way to the server, and from it
    server      \* the session at the other end of the socket

connVars == <<state, client, sock, sockets>>
uiVars == <<tasks, running, items, sent, shown, timedOut>>
wireVars == <<up, down, server>>
vars == <<state, client, sock, sockets, tasks, running, items, sent, shown,
          timedOut, up, down, server>>

Connected == state = "connected"

NoSession == [authed |-> FALSE, task |-> NoTask, ask |-> NoApproval, asked |-> {}]

-----------------------------------------------------------------------------
(* What the listeners of the state do, and the mounting of the views. *)

Dead(s) == s \in {"disconnected", "error", "auth_failed"}

\* ApprovalsController.onState: no prompt outlives the socket.
ExpirePending == [i \in Approvals |-> IF items[i] = "pending" THEN "expired" ELSE items[i]]

\* setState, when it is not to "connected": the controllers settle.
Becomes(s) ==
    /\ state' = s
    /\ items' = IF Dead(s) THEN ExpirePending ELSE items
    /\ running' = IF Dead(s) THEN NoTask ELSE running
    /\ UNCHANGED <<tasks, sent, shown, timedOut>>

\* The socket is gone, with every frame on it and the session behind it.
LoseSocket ==
    /\ sock' = "none"
    /\ up' = <<>> /\ down' = <<>>
    /\ server' = NoSession

\* scheduleReconnect
Reconnect == client' = [client EXCEPT !.timer = ~client.closed]

-----------------------------------------------------------------------------
(* ApiClient: the life of the connection. *)

\* A new client for a new token; its first connect().
SignIn ==
    /\ client.closed /\ sockets < MaxSockets
    /\ client' = [closed |-> FALSE, timer |-> FALSE, failures |-> 0]
    /\ Becomes("connecting")
    /\ sock' = "opening" /\ sockets' = sockets + 1
    /\ UNCHANGED wireVars

\* The reconnect timer fires: connect(), unless it is under way.
TimerFires ==
    /\ client.timer /\ sockets < MaxSockets
    /\ client' = [client EXCEPT !.timer = FALSE]
    /\ ~Connected /\ state # "connecting"
    /\ Becomes("connecting")
    /\ sock' = "opening" /\ sockets' = sockets + 1
    /\ UNCHANGED wireVars

\* The WebSocket constructor throws: error, and try again later.
FactoryThrows ==
    /\ client.timer
    /\ Becomes("error")
    /\ Reconnect
    /\ UNCHANGED <<sock, sockets>> /\ UNCHANGED wireVars

\* onopen: the views mount with nothing in them.  The gateway has accepted
\* the socket; whether it accepts the token shows in its next frame.
Opens ==
    /\ sock = "opening"
    /\ sock' = "open"
    /\ client' = [client EXCEPT !.failures = 0]
    /\ state' = "connected"
    /\ running' = NoTask
    /\ items' = [i \in Approvals |-> IF items[i] = "absent" THEN "absent" ELSE "unmounted"]
    /\ \E authed \in BOOLEAN :
          server' = [NoSession EXCEPT !.authed = authed,
                                      !.asked = {i \in Approvals : items[i] # "absent"}]
    /\ UNCHANGED <<sockets, tasks, sent, shown, timedOut, up, down>>

\* Mutant of HandshakeFails: the last failure still schedules a retry.
HandshakeFailsForEver ==
    /\ sock = "opening"
    /\ client' = [client EXCEPT !.failures = @ + 1, !.timer = TRUE]
    /\ Becomes("disconnected")
    /\ LoseSocket
    /\ UNCHANGED sockets

\* error and close of a socket that never opened.
HandshakeFails ==
    /\ sock = "opening"
    /\ \/ /\ client.failures + 1 >= MaxHandshakeFailures
          /\ client' = [client EXCEPT !.failures = @ + 1]
          /\ Becomes("error")
       \/ /\ client.failures + 1 < MaxHandshakeFailures
          /\ client' = [client EXCEPT !.failures = @ + 1, !.timer = TRUE]
          /\ Becomes("disconnected")
    /\ LoseSocket
    /\ UNCHANGED sockets

\* close of a socket that had opened: with 1008 the token was refused.
Closes ==
    /\ sock = "open"
    /\ \/ ~server.authed /\ Becomes("auth_failed") /\ UNCHANGED client
       \/ Becomes("disconnected") /\ Reconnect
    /\ LoseSocket
    /\ UNCHANGED sockets

\* Mutant of SignOut: the reconnect timer is not cleared.
SignOutTimerLeft ==
    /\ ~client.closed
    /\ client' = [client EXCEPT !.closed = TRUE]
    /\ Becomes("disconnected")
    /\ LoseSocket
    /\ UNCHANGED sockets

\* disconnect(): the handlers are detached before the socket is closed.
SignOut ==
    /\ ~client.closed
    /\ client' = [client EXCEPT !.closed = TRUE, !.timer = FALSE]
    /\ Becomes("disconnected")
    /\ LoseSocket
    /\ UNCHANGED sockets

-----------------------------------------------------------------------------
(* The operator. *)

CanSend == Connected /\ sock = "open"

\* Mutant of Start: a new task while one is running.
StartAgain ==
    /\ CanSend /\ tasks < MaxTasks /\ Len(up) < MaxFrames
    /\ tasks' = tasks + 1
    /\ running' = tasks + 1
    /\ up' = Append(up, [do |-> "run_task", of |-> tasks + 1])
    /\ UNCHANGED <<items, sent, shown, timedOut, down, server>> /\ UNCHANGED connVars

\* RunController.start: single-flight.
Start ==
    /\ CanSend /\ running = NoTask /\ tasks < MaxTasks /\ Len(up) < MaxFrames
    /\ tasks' = tasks + 1
    /\ running' = tasks + 1
    /\ up' = Append(up, [do |-> "run_task", of |-> tasks + 1])
    /\ UNCHANGED <<items, sent, shown, timedOut, down, server>> /\ UNCHANGED connVars

\* The run timer: nothing was heard from the server for too long.
RunTimesOut ==
    /\ running # NoTask
    /\ running' = NoTask
    /\ timedOut' = TRUE
    /\ UNCHANGED <<tasks, items, sent, shown>> /\ UNCHANGED <<connVars, wireVars>>

\* Mutant of MayDecide: a decided prompt may be decided again.
MayDecideAgain(i) == items[i] \in {"pending", "resolved"}

MayDecide(i) == items[i] = "pending"

\* ApprovalsController.decide: on an explicit click only.
Decide(i) ==
    /\ CanSend /\ MayDecide(i) /\ Len(up) < MaxFrames
    /\ items' = [items EXCEPT ![i] = "resolved"]
    /\ sent' = [sent EXCEPT ![i] = @ + 1]
    /\ up' = Append(up, [do |-> "decide", of |-> i])
    /\ UNCHANGED <<tasks, running, shown, timedOut, down, server>> /\ UNCHANGED connVars

-----------------------------------------------------------------------------
(* Frames from the server. *)

Settle(i, status) == [items EXCEPT ![i] = IF @ = "pending" THEN status ELSE @]

\* Mutant of OnFrame: a timeout notice leaves the prompt on offer.
OnFrameDeafToTimeouts(f) ==
    items' = IF f.event = "approval_request" /\ items[f.of] = "absent"
             THEN [items EXCEPT ![f.of] = "pending"]
             ELSE IF f.event = "approval_error" /\ f.of # NoApproval
                  THEN Settle(f.of, "error") ELSE items

\* ApprovalsController.onEvent
OnFrame(f) ==
    items' = CASE f.event = "approval_request" ->
                    [items EXCEPT ![f.of] = IF @ = "absent" THEN "pending" ELSE @]
               [] f.event = "approval_timeout" -> Settle(f.of, "expired")
               [] f.event = "approval_error" /\ f.of # NoApproval -> Settle(f.of, "error")
               [] OTHER -> items

\* RunController.onEvent: a result or an error ends the run it finds.
RunHears(f) ==
    IF running # NoTask /\ f.event \in {"task_result", "error"}
    THEN /\ running' = NoTask
         /\ shown' = IF f.event = "task_result" THEN shown \cup {<<running, f.of>>} ELSE shown
    ELSE UNCHANGED <<running, shown>>

Hear ==
    /\ Connected /\ down # <<>>
    /\ OnFrame(Head(down))
    /\ RunHears(Head(down))
    /\ down' = Tail(down)
    /\ UNCHANGED <<tasks, sent, timedOut, up, server>> /\ UNCHANGED connVars

-----------------------------------------------------------------------------
(* The session at the other end: it reads while a task runs, too. *)

Says(event, of) == down' = Append(down, [event |-> event, of |-> of])
ServerCan == server.authed /\ Len(down) < MaxFrames

\* The gateway hands the socket to a session, which runs or refuses the task.
ServerTakesTask ==
    /\ ServerCan /\ up # <<>> /\ Head(up).do = "run_task" /\ server.task = NoTask
    /\ up' = Tail(up)
    /\ \/ server' = [server EXCEPT !.task = Head(up).of] /\ UNCHANGED down
       \/ Says("error", NoTask) /\ UNCHANGED server
    /\ UNCHANGED <<connVars, uiVars>>

\* The reader of a running session takes every frame for a decision.
ServerReads ==
    /\ ServerCan /\ up # <<>> /\ server.task # NoTask
    /\ up' = Tail(up)
    /\ \/ /\ Head(up).do = "run_task"
          /\ Says("approval_error", NoApproval) /\ UNCHANGED server
       \/ /\ Head(up).do = "decide" /\ Head(up).of # server.ask
          /\ Says("approval_error", Head(up).of) /\ UNCHANGED server
       \/ /\ Head(up).do = "decide" /\ Head(up).of = server.ask
          /\ server' = [server EXCEPT !.ask = NoApproval] /\ UNCHANGED down
    /\ UNCHANGED <<connVars, uiVars>>

\* Between tasks the gateway echoes what is not a run_task.
ServerEchoes ==
    /\ ServerCan /\ up # <<>> /\ server.task = NoTask /\ Head(up).do = "decide"
    /\ up' = Tail(up)
    /\ Says("echo", NoTask)
    /\ UNCHANGED server /\ UNCHANGED <<connVars, uiVars>>

ServerAsks(i) ==
    /\ ServerCan /\ server.task # NoTask /\ server.ask = NoApproval
    /\ i \notin server.asked
    /\ server' = [server EXCEPT !.ask = i, !.asked = @ \cup {i}]
    /\ Says("approval_request", i)
    /\ UNCHANGED up /\ UNCHANGED <<connVars, uiVars>>

ServerTimesOut ==
    /\ ServerCan /\ server.ask # NoApproval
    /\ server' = [server EXCEPT !.ask = NoApproval]
    /\ Says("approval_timeout", server.ask)
    /\ UNCHANGED up /\ UNCHANGED <<connVars, uiVars>>

ServerAnswers ==
    /\ ServerCan /\ server.task # NoTask /\ server.ask = NoApproval
    /\ server' = [server EXCEPT !.task = NoTask]
    /\ Says("task_result", server.task)
    /\ UNCHANGED up /\ UNCHANGED <<connVars, uiVars>>

-----------------------------------------------------------------------------
Init ==
    /\ state = "disconnected"
    /\ client = [closed |-> TRUE, timer |-> FALSE, failures |-> 0]
    /\ sock = "none" /\ sockets = 0
    /\ tasks = 0 /\ running = NoTask
    /\ items = [i \in Approvals |-> "absent"]
    /\ sent = [i \in Approvals |-> 0]
    /\ shown = {} /\ timedOut = FALSE
    /\ up = <<>> /\ down = <<>>
    /\ server = NoSession

Connection ==
    SignIn \/ TimerFires \/ FactoryThrows \/ Opens \/ HandshakeFails \/ Closes \/ SignOut
Operator == Start \/ RunTimesOut \/ \E i \in Approvals : Decide(i)
Server ==
    \/ ServerTakesTask \/ ServerReads \/ ServerEchoes \/ ServerTimesOut \/ ServerAnswers
    \/ \E i \in Approvals : ServerAsks(i)

Next == Connection \/ Operator \/ Hear \/ Server

\* The browser delivers frames; a session reads, and ends what it waits for.
Fairness == WF_vars(Hear) /\ WF_vars(ServerReads) /\ WF_vars(ServerTimesOut)
            /\ WF_vars(RunTimesOut)

Spec == Init /\ [][Next]_vars
FairSpec == Spec /\ Fairness

-----------------------------------------------------------------------------
(* Properties. *)

TypeOK ==
    /\ state \in {"disconnected", "connecting", "connected", "auth_failed", "error"}
    /\ client \in [closed : BOOLEAN, timer : BOOLEAN, failures : 0 .. MaxHandshakeFailures]
    /\ sock \in {"none", "opening", "open"}
    /\ sockets \in 0 .. MaxSockets /\ tasks \in 0 .. MaxTasks
    /\ running \in 0 .. MaxTasks
    /\ items \in [Approvals -> {"absent", "pending", "expired", "resolved", "error", "unmounted"}]
    /\ sent \in [Approvals -> Nat]
    /\ shown \subseteq (0 .. MaxTasks) \X (0 .. MaxTasks)
    /\ timedOut \in BOOLEAN
    /\ server.task \in 0 .. MaxTasks /\ server.ask \in Approvals \cup {NoApproval}

\* approvals.ts promises no decision but an operator's, once per request
\* ("A decision is sent at most ONCE"), over reconnects and late frames;
\* and no prompt or run is left on the screen of a dead connection.
DecisionsAreSingle ==
    /\ \A i \in Approvals : sent[i] <= 1
    /\ ~Connected => /\ running = NoTask
                     /\ \A i \in Approvals : items[i] # "pending"

\* The client never stops by accident: unless the operator signed out, the
\* token was refused, or the retries are used up, a socket is there or the
\* timer is armed; and a client that was closed stays quiet.
NeverStuck ==
    /\ \/ client.closed \/ state = "auth_failed"
       \/ client.failures >= MaxHandshakeFailures
       \/ sock # "none" \/ client.timer
    /\ client.closed => sock = "none" /\ ~client.timer
    /\ sock = "open" <=> Connected

\* Unless a run timeout fired, an answer is shown for the task it answers:
\* the single-flight on both ends of the socket keeps them in step.
AnswersMatchUnlessTimedOut == timedOut \/ \A p \in shown : p[1] = p[2]

\* The client in every state: types, one decision per request, one answer shown
\* per task.
OneDecisionOneAnswer == TypeOK /\ DecisionsAreSingle /\ AnswersMatchUnlessTimedOut

\* A prompt on offer is settled: by the operator, by the server's timeout
\* or by the loss of the socket.
PromptsSettle == \A i \in Approvals : items[i] = "pending" ~> items[i] # "pending"

\* run.ts:1-3: the controller "tracks the single in-flight run, and resolves
\* it on the terminal task_result": the result of that run.
AnswersMatch == \A p \in shown : p[1] = p[2]
=============================================================================
