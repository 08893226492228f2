--------------------------- MODULE RemoteStorage ---------------------------
(***************************************************************************)
(* One storage connector: the tools of modules/storage/tools.py, the       *)
(* containment policy of connector.py and the single shared connection of  *)
(* ssh.py, used by several tool calls at once.                             *)
(*                                                                         *)
(* A tool call is a script of transport calls; a transport call (`_call`   *)
(* in ssh.py) is one or more SFTP requests on the connection that          *)
(* `_ensure` gave it, repeated once from its first request when the        *)
(* connection is lost.  One action is one stretch of the event loop        *)
(* between two awaits.  The asyncio.Lock of the transport is a FIFO queue  *)
(* whose head holds the lock, or has just been handed it.                  *)
(*                                                                         *)
(* The server, the network and asyncssh are the environment: a request is  *)
(* executed and then answered, and a connection may be lost in between.    *)
(* What is lost is what `_is_conn_lost` recognises.                        *)
(***************************************************************************)
EXTENDS Integers, Sequences, SequencesExt

CONSTANTS
    Calls,          \* concurrent tool calls on this connector
    Kinds,          \* the tools that are called
    MaxConnections, \* bound: connections ever opened
    MaxLosses       \* bound: connections the network drops

ASSUME ConnectionsBound == MaxConnections \in Nat
ASSUME LossesBound == MaxLosses \in Nat
ASSUME ThereAreCalls == Calls # {}

NoConnection == 0
Connections == 1 .. MaxConnections

VARIABLES
    call,       \* what each tool call is doing
    current,    \* _conn / _sftp: the shared connection, or NoConnection
    live,       \* connections that are open at both ends
    opened,     \* how many connections asyncssh.connect has returned
    stranded,   \* connections whose SFTP subsystem never came up (history)
    queue,      \* the transport's lock: its holder, then the waiters
    remote,     \* the remote file all the calls are about
    losses,     \* how many connections the network has dropped
    connector   \* the GuardedConnector: read-only or not, closed or not

vars == <<call, current, live, opened, stranded, queue, remote, losses, connector>>

-----------------------------------------------------------------------------
(* The tools: every transport call contains its path first, by a realpath. *)

Contain == <<"realpath">>
ListScript   == <<Contain, <<"readdir">>>>
StatScript   == <<Contain, <<"stat">>>>
ReadScript   == <<Contain, <<"size">>, <<"read">>>>
WriteScript  == <<Contain, <<"truncate", "fill">>>>
DeleteScript == <<Contain, <<"remove">>>>
MoveScript   == <<Contain, Contain, <<"rename">>>>

Script == [ list |-> ListScript, stat |-> StatScript, read |-> ReadScript,
            write |-> WriteScript, delete |-> DeleteScript, move |-> MoveScript ]

ASSUME KindsAreTools == Kinds \subseteq DOMAIN Script

Mutations == {"write", "delete", "move"}
Takes == {"truncate", "fill", "remove", "rename"}     \* requests with an effect
InFlight == {"queued", "dialling", "subsystem", "sent", "answered"}

Idle == [kind |-> "list", step |-> 1, req |-> 1, try |-> 1, at |-> "idle",
         on |-> NoConnection, died |-> NoConnection, answer |-> "none",
         did |-> 0, retried |-> FALSE]

Transport(r) == Script[r.kind][r.step]      \* the _call that r is in
Request(r) == Transport(r)[r.req]

\* A tool call is over, with the reply its dictionary carries.
Ended(r, reply) ==
    [Idle EXCEPT !.kind = r.kind, !.at = "ended", !.answer = reply,
                 !.did = r.did, !.retried = r.retried]

\* Mutant of MustRefuse: the read-only test forgets the move tool.
MustRefuseButMoves(kind) == connector.readOnly /\ kind \in {"write", "delete"}

\* A read-only connector refuses every mutation before any traffic.
MustRefuse(kind) == connector.readOnly /\ kind \in Mutations

-----------------------------------------------------------------------------
(* The shared connection. *)

\* _ensure, up to the next await, when the shared connection is `conn`.
Ensure(c, r, conn) ==
    \/ /\ conn # NoConnection
       /\ call' = [call EXCEPT ![c] = [r EXCEPT !.at = "sent", !.on = conn]]
       /\ UNCHANGED queue
    \/ /\ conn = NoConnection
       /\ queue' = Append(queue, c)
       /\ call' = [call EXCEPT ![c] =
                      [r EXCEPT !.at = IF queue = <<>> THEN "dialling" ELSE "queued",
                                !.on = NoConnection]]

\* Begin: a tool call with well-formed arguments for this connector.
Begin(c, kind) ==
    /\ call[c].at = "idle" /\ ~connector.closed
    /\ IF MustRefuse(kind)
       THEN /\ call' = [call EXCEPT ![c] = Ended([Idle EXCEPT !.kind = kind], "read_only")]
            /\ UNCHANGED queue
       ELSE Ensure(c, [Idle EXCEPT !.kind = kind], current)
    /\ UNCHANGED <<current, live, opened, stranded, remote, losses, connector>>

\* A call whose arguments or lexical containment are refused: no traffic.
BeginRefused(c, kind) ==
    /\ call[c].at = "idle" /\ ~connector.closed
    /\ call' = [call EXCEPT ![c] = Ended([Idle EXCEPT !.kind = kind], "refused")]
    /\ UNCHANGED <<current, live, opened, stranded, queue, remote, losses, connector>>

HoldsLock(c) == queue # <<>> /\ Head(queue) = c

\* Mutant of HandedLock: a waiter does not look again whether it must connect.
HandedLockBlindly(c) ==
    /\ call' = [call EXCEPT ![c].at = "dialling"]
    /\ UNCHANGED queue

\* What a waiter does with the lock: it looks again, and connects or goes on.
HandedLock(c) ==
    \/ /\ current # NoConnection
       /\ call' = [call EXCEPT ![c].at = "sent", ![c].on = current]
       /\ queue' = Tail(queue)
    \/ /\ current = NoConnection
       /\ call' = [call EXCEPT ![c].at = "dialling"]
       /\ UNCHANGED queue

Woken(c) ==
    /\ HoldsLock(c) /\ call[c].at = "queued"
    /\ HandedLock(c)
    /\ UNCHANGED <<current, live, opened, stranded, remote, losses, connector>>

\* asyncssh.connect returns a connection; start_sftp_client is next.
Connected(c) ==
    /\ call[c].at = "dialling" /\ opened < MaxConnections
    /\ opened' = opened + 1
    /\ live' = live \cup {opened + 1}
    /\ call' = [call EXCEPT ![c].at = "subsystem", ![c].on = opened + 1]
    /\ UNCHANGED <<current, stranded, queue, remote, losses, connector>>

\* start_sftp_client returns: the connection is shared, the lock released.
SubsystemUp(c) ==
    /\ call[c].at = "subsystem" /\ call[c].on \in live
    /\ current' = call[c].on
    /\ queue' = Tail(queue)
    /\ call' = [call EXCEPT ![c].at = "sent"]
    /\ UNCHANGED <<live, opened, stranded, remote, losses, connector>>

\* Mutant of ReleaseLock: a failed connect keeps the lock.
ReleaseLockNever(c) == queue

\* The call leaves the queue, wherever in it it was.
ReleaseLock(c) ==
    IF \E i \in 1 .. Len(queue) : queue[i] = c
    THEN RemoveAt(queue, CHOOSE i \in 1 .. Len(queue) : queue[i] = c)
    ELSE queue

\* What giving up leaves behind: nobody closes a connection in set-up.
Strand(c) ==
    stranded' = IF call[c].at = "subsystem" THEN stranded \cup {call[c].on} ELSE stranded

\* Authentication, the host key, the dial or the subsystem fails: outside
\* the try block of _call, so there is no second attempt.
ConnectFails(c) ==
    /\ call[c].at \in {"dialling", "subsystem"}
    /\ call' = [call EXCEPT ![c] = Ended(@, "unavailable")]
    /\ queue' = ReleaseLock(c)
    /\ Strand(c)
    /\ UNCHANGED <<current, live, opened, remote, losses, connector>>

\* The task of the call is cancelled at the await it is in.
Cancelled(c) ==
    /\ call[c].at \in InFlight
    /\ call' = [call EXCEPT ![c] = Ended(@, "cancelled")]
    /\ queue' = ReleaseLock(c)
    /\ Strand(c)
    /\ UNCHANGED <<current, live, opened, remote, losses, connector>>

-----------------------------------------------------------------------------
(* Requests and answers. *)

\* The answers to a request that finds the file, and what it leaves of it.
Found(q) ==
    CASE q \in {"remove", "rename"} -> {<<"ok", "absent">>, <<"access", remote>>}
      [] q = "size"                 -> {<<"ok", remote>>, <<"too_large", remote>>}
      [] OTHER                      -> {<<"ok", remote>>}

\* The answers a request may get, and the file it leaves.
Answers(q) ==
    CASE q = "realpath" -> {<<"ok", remote>>, <<"access", remote>>}
      [] q = "truncate" -> {<<"ok", "torn">>, <<"access", remote>>}
      [] q = "fill"     -> {<<"ok", "whole">>, <<"unavailable", "torn">>}
      [] OTHER          -> IF remote = "absent" THEN {<<"not_found", remote>>} ELSE Found(q)

\* The server executes a request; its answer is on the way.
Serve(c) ==
    /\ call[c].at = "sent" /\ call[c].on \in live
    /\ \E a \in Answers(Request(call[c])) :
          /\ remote' = a[2]
          /\ call' = [call EXCEPT
                ![c].at = "answered", ![c].answer = a[1],
                ![c].did = IF a[1] = "ok" /\ Request(call[c]) \in Takes THEN @ + 1 ELSE @]
    /\ UNCHANGED <<current, live, opened, stranded, queue, losses, connector>>

\* Next request of the same transport call: on the client it already holds.
NextRequest(c) ==
    LET r == call[c] IN
    /\ r.at = "answered" /\ r.on \in live /\ r.answer = "ok"
    /\ r.req < Len(Transport(r))
    /\ call' = [call EXCEPT ![c].at = "sent", ![c].req = @ + 1]
    /\ UNCHANGED <<current, live, opened, stranded, queue, remote, losses, connector>>

\* Mutant of NextTransportCall: the tool goes one call too far.
NextTransportCallOneOver(c) ==
    LET r == call[c] IN
    /\ r.at = "answered" /\ r.on \in live /\ r.answer = "ok"
    /\ r.req = Len(Transport(r))
    /\ Ensure(c, [r EXCEPT !.step = @ + 1, !.req = 1, !.try = 1], current)
    /\ UNCHANGED <<current, live, opened, stranded, remote, losses, connector>>

\* Next transport call of the tool: from _ensure, with a fresh retry.
NextTransportCall(c) ==
    LET r == call[c] IN
    /\ r.at = "answered" /\ r.on \in live /\ r.answer = "ok"
    /\ r.req = Len(Transport(r)) /\ r.step < Len(Script[r.kind])
    /\ Ensure(c, [r EXCEPT !.step = @ + 1, !.req = 1, !.try = 1], current)
    /\ UNCHANGED <<current, live, opened, stranded, remote, losses, connector>>

\* The tool replies: after its last request, or at the first refusal.
Replies(c) ==
    LET r == call[c] IN
    /\ r.at = "answered" /\ r.on \in live
    /\ \/ r.answer # "ok"
       \/ r.req = Len(Transport(r)) /\ r.step = Len(Script[r.kind])
    /\ call' = [call EXCEPT ![c] = Ended(@, @.answer)]
    /\ UNCHANGED <<current, live, opened, stranded, queue, remote, losses, connector>>

\* Mutant of Reset: the dead client stays.
ResetKeeping == UNCHANGED <<current, live>>

\* _reset: whatever connection is current is closed and forgotten.
Reset == current' = NoConnection /\ live' = live \ {current}

Lost(r) == r.at \in {"sent", "answered"} /\ r.on \notin live

LostFirst(r) == Lost(r) /\ r.try = 1

\* The connection is lost under the first attempt: reset, and start over.
Retry(c) ==
    LET r == call[c] IN
    /\ LostFirst(r)
    /\ Reset
    /\ Ensure(c, [r EXCEPT !.req = 1, !.try = 2, !.died = r.on, !.retried = TRUE,
                           !.answer = "none"], current')
    /\ UNCHANGED <<opened, stranded, remote, losses, connector>>

\* Lost again: the call gives up, and leaves the dead client in place.
GivesUp(c) ==
    /\ Lost(call[c]) /\ ~LostFirst(call[c])
    /\ call' = [call EXCEPT ![c] = Ended(@, "lost")]
    /\ UNCHANGED <<current, live, opened, stranded, queue, remote, losses, connector>>

-----------------------------------------------------------------------------
(* The environment, and the end of the module. *)

NetworkDrops(n) ==
    /\ n \in live /\ losses < MaxLosses
    /\ live' = live \ {n}
    /\ losses' = losses + 1
    /\ UNCHANGED <<call, current, opened, stranded, queue, remote, connector>>

\* StorageModule.stop: the lifespan ends after the last request has ended.
Stop ==
    /\ ~connector.closed /\ \A c \in Calls : call[c].at \notin InFlight
    /\ connector' = [connector EXCEPT !.closed = TRUE]
    /\ Reset
    /\ UNCHANGED <<call, opened, stranded, queue, remote, losses>>

Init ==
    /\ call = [c \in Calls |-> Idle]
    /\ current = NoConnection
    /\ live = {}
    /\ opened = 0
    /\ stranded = {}
    /\ queue = <<>>
    /\ remote \in {"absent", "whole"}
    /\ losses = 0
    /\ connector \in [readOnly : BOOLEAN, closed : {FALSE}]

Advance(c) ==
    \/ Woken(c) \/ Connected(c) \/ SubsystemUp(c) \/ ConnectFails(c)
    \/ Serve(c) \/ NextRequest(c) \/ NextTransportCall(c) \/ Replies(c)
    \/ Retry(c) \/ GivesUp(c)

Next ==
    \/ \E c \in Calls, kind \in Kinds : Begin(c, kind)
    \/ \E c \in Calls : BeginRefused(c, "move")
    \/ \E c \in Calls : Advance(c) \/ Cancelled(c)
    \/ \E n \in live : NetworkDrops(n)
    \/ Stop

\* Assumed of the network: a dial, a subsystem start and a request end, with
\* an answer or an error (the code sets no timeout of its own on them).
Fairness == \A c \in Calls : WF_vars(Advance(c))

Spec == Init /\ [][Next]_vars
FairSpec == Spec /\ Fairness

-----------------------------------------------------------------------------
(* Properties. *)

CallRecords ==
    [ kind : DOMAIN Script, step : 1 .. 3, req : 1 .. 2, try : 1 .. 2,
      at : InFlight \cup {"idle", "ended"},
      on : Connections \cup {NoConnection}, died : Connections \cup {NoConnection},
      answer : {"none", "ok", "access", "not_found", "too_large", "unavailable",
                "lost", "cancelled", "read_only", "refused"},
      did : Nat, retried : BOOLEAN ]

TypeOK ==
    /\ call \in [Calls -> CallRecords]
    /\ current \in Connections \cup {NoConnection}
    /\ live \subseteq Connections /\ stranded \subseteq Connections
    /\ opened \in 0 .. MaxConnections
    /\ queue \in Seq(Calls)
    /\ remote \in {"absent", "torn", "whole"}
    /\ losses \in 0 .. MaxLosses
    /\ connector \in [readOnly : BOOLEAN, closed : BOOLEAN]

\* The transport keeps one connection (ssh.py:137): any other connection
\* that is open is being set up by the holder of the lock, or was left in
\* set-up by a failed or cancelled call, which closes nothing.
OneConnection ==
    \A n \in live : \/ n = current
                    \/ n \in stranded
                    \/ \E c \in Calls : HoldsLock(c) /\ call[c].at = "subsystem" /\ call[c].on = n

\* A repeated request never goes to the connection that failed under it.
RetryOnAnotherConnection ==
    \A c \in Calls : call[c].try = 2 /\ call[c].at \in {"sent", "answered"}
                        => call[c].on # call[c].died

\* What a reply says of the remote file: ok means the change was made, only
\* a lost connection makes a call change it again or hides its change behind
\* another reply, and a half-written file has a writer that is at work or
\* has not been told ok.
RepliesAreHonest ==
    /\ \A c \in Calls : LET r == call[c] IN
          r.at = "ended" /\ r.kind \in Mutations =>
             /\ r.answer = "ok" => r.did > 0
             /\ connector.readOnly => r.did = 0
             /\ r.answer = "not_found" /\ r.did > 0 => r.retried
             /\ r.did > Len(Last(Script[r.kind])) => r.retried
             /\ r.did <= 2 * Len(Last(Script[r.kind]))
    /\ remote = "torn" => \E c \in Calls : /\ call[c].kind = "write" /\ call[c].did > 0
                                           /\ call[c].at = "ended" => call[c].answer # "ok"

\* Every tool call ends: nobody is left behind in the queue of the lock.
CallsReturn == \A c \in Calls : call[c].at \in InFlight ~> call[c].at = "ended"

\* One drop of the network never fails every call that it hits: the caller
\* that resets last keeps the connection it makes.  (It may fail some: the
\* reset of a second caller closes the connection of the first.)
OneDropSparesACall == losses <= 1 => \E c \in Calls : call[c].answer # "lost"

\* The connection in every state: types, one connection, and no request
\* repeated on the connection that failed under it.
ConnectionIsShared == TypeOK /\ OneConnection /\ RetryOnAnotherConnection

\* The replies in every state: honest, and one drop spares a call.
RepliesCanBeTrusted == RepliesAreHonest /\ OneDropSparesACall
=============================================================================
