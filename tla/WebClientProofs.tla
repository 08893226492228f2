-------------------------- MODULE WebClientProofs --------------------------
(***************************************************************************)
(* Proofs about the browser's connection and the two controllers on it,    *)
(* for any set of approvals and any number of tasks, sockets and frames.   *)
(***************************************************************************)
EXTENDS WebClient, SequenceTheorems, TLAPS

-----------------------------------------------------------------------------
(* The inductive invariant.                                                *)

UpFrames == [do : {"run_task"}, of : 1 .. MaxTasks] \cup [do : {"decide"}, of : Approvals]

DownFrames ==
    [event : {"task_result"}, of : 1 .. MaxTasks]
      \cup [event : {"error", "echo"}, of : {NoTask}]
      \cup [event : {"approval_request", "approval_timeout", "approval_error"},
            of : Approvals \cup {NoApproval}]

Sessions == [authed : BOOLEAN, task : 0 .. MaxTasks, ask : Approvals \cup {NoApproval},
             asked : SUBSET Approvals]

WireTyped == up \in Seq(UpFrames) /\ down \in Seq(DownFrames) /\ server \in Sessions

\* The timer is armed only while there is no socket, and there is neither once
\* the handshakes have failed for good.
RetriesCounted ==
    /\ client.timer => sock = "none"
    /\ client.timer \/ sock # "none" => client.failures < MaxHandshakeFailures

\* Frames and a session are there only on an open socket.
WireIsOfTheSocket == sock # "open" => up = <<>> /\ down = <<>> /\ server = NoSession

\* What was not decided yet was not sent.
SentIsDecided == \A i \in Approvals : items[i] \in {"absent", "pending"} => sent[i] = 0

Submits(i) == up[i].do = "run_task"
Ends(i) == down[i].event \in {"task_result", "error"}

\* The one task that the client runs is in one place: on its way to the server,
\* at the session, or in the frame that ends it.
OneTaskUnderWay ==
    /\ \A i \in 1 .. Len(up) : Submits(i) =>
          /\ up[i].of = running /\ server.task = NoTask
          /\ \A j \in 1 .. Len(up) : Submits(j) => j = i
          /\ \A j \in 1 .. Len(down) : ~Ends(j)
    /\ server.task # NoTask => /\ server.task = running
                               /\ \A j \in 1 .. Len(down) : ~Ends(j)
    /\ \A i \in 1 .. Len(down) : Ends(i) =>
          /\ running # NoTask
          /\ down[i].event = "task_result" => down[i].of = running
          /\ \A j \in 1 .. Len(down) : Ends(j) => j = i

WebInv ==
    /\ TypeOK /\ WireTyped
    /\ NeverStuck /\ RetriesCounted /\ WireIsOfTheSocket
    /\ DecisionsAreSingle /\ SentIsDecided
    /\ timedOut \/ OneTaskUnderWay
    /\ AnswersMatchUnlessTimedOut

-----------------------------------------------------------------------------
(* Frames.                                                                 *)

LEMMA AppendedFrame ==
    ASSUME NEW S, NEW q \in Seq(S), NEW f \in S, NEW p, p = Append(q, f)
    PROVE  /\ p \in Seq(S) /\ Len(p) = Len(q) + 1 /\ Len(p) \in 1 .. Len(p) /\ p[Len(p)] = f
           /\ \A i \in 1 .. Len(p) : i # Len(p) => i \in 1 .. Len(q) /\ p[i] = q[i]
<1>1. Len(q) \in Nat
  BY LenProperties
<1> QED
  BY <1>1, AppendProperties

LEMMA TakenFrame ==
    ASSUME NEW S, NEW q \in Seq(S), q # <<>>, NEW p, p = Tail(q)
    PROVE  /\ p \in Seq(S) /\ Head(q) \in S /\ Head(q) = q[1] /\ 1 \in 1 .. Len(q)
           /\ \A i \in 1 .. Len(p) : i + 1 \in 1 .. Len(q) /\ p[i] = q[i + 1]
<1>1. Len(q) \in Nat /\ Len(q) # 0
  BY LenProperties, EmptySeq
<1>2. p \in Seq(S) /\ Len(p) = Len(q) - 1 /\ \A i \in 1 .. Len(p) : p[i] = q[i + 1]
  BY HeadTailProperties
<1> QED
  BY <1>1, <1>2, HeadTailProperties

LEMMA UpFrameIs ==
    ASSUME NEW f \in UpFrames
    PROVE  \/ f.do = "run_task" /\ f.of \in 1 .. MaxTasks
           \/ f.do = "decide" /\ f.of \in Approvals
BY DEF UpFrames

LEMMA DownFrameIs ==
    ASSUME NEW f \in DownFrames
    PROVE  \/ f.event = "task_result" /\ f.of \in 1 .. MaxTasks
           \/ f.event \in {"error", "echo"} /\ f.of = NoTask
           \/ /\ f.event \in {"approval_request", "approval_timeout", "approval_error"}
              /\ f.of \in Approvals \cup {NoApproval}
BY DEF DownFrames

\* Frames that neither submit nor end a task may come and go.
LEMMA TaskStaysInPlace ==
    ASSUME OneTaskUnderWay, running' = running, server'.task = server.task,
           NEW s \in {0, 1}, NEW t \in {0, 1},
           Len(up) \in Nat, Len(up') \in Nat, Len(down) \in Nat, Len(down') \in Nat,
           \A i \in 1 .. Len(up') : up'[i].do = "run_task" =>
               i + s \in 1 .. Len(up) /\ up'[i] = up[i + s],
           \A i \in 1 .. Len(down') : down'[i].event \in {"task_result", "error"} =>
               i + t \in 1 .. Len(down) /\ down'[i] = down[i + t]
    PROVE  OneTaskUnderWay'
<1>1. ASSUME NEW i \in 1 .. Len(up'), Submits(i)'
      PROVE  /\ up'[i].of = running' /\ server'.task = NoTask
             /\ \A j \in 1 .. Len(up') : Submits(j)' => j = i
             /\ \A j \in 1 .. Len(down') : ~Ends(j)'
  <2>1. i + s \in 1 .. Len(up) /\ up'[i] = up[i + s] /\ Submits(i + s)
    BY <1>1 DEF Submits
  <2>2. /\ up[i + s].of = running /\ server.task = NoTask
        /\ \A j \in 1 .. Len(up) : Submits(j) => j = i + s
        /\ \A j \in 1 .. Len(down) : ~Ends(j)
    BY <2>1 DEF OneTaskUnderWay
  <2>3. ASSUME NEW j \in 1 .. Len(up'), Submits(j)'
        PROVE  j = i
    <3>1. j + s \in 1 .. Len(up) /\ Submits(j + s)
      BY <2>3 DEF Submits
    <3>2. j + s = i + s
      BY <2>2, <3>1
    <3> QED
      BY <3>2
  <2>4. ASSUME NEW j \in 1 .. Len(down'), Ends(j)'
        PROVE  FALSE
    BY <2>2, <2>4 DEF Ends
  <2> QED
    BY <2>1, <2>2, <2>3, <2>4
<1>2. ASSUME server'.task # NoTask
      PROVE  server'.task = running' /\ \A j \in 1 .. Len(down') : ~Ends(j)'
  BY <1>2 DEF OneTaskUnderWay, Ends
<1>3. ASSUME NEW i \in 1 .. Len(down'), Ends(i)'
      PROVE  /\ running' # NoTask
             /\ down'[i].event = "task_result" => down'[i].of = running'
             /\ \A j \in 1 .. Len(down') : Ends(j)' => j = i
  <2>1. i + t \in 1 .. Len(down) /\ down'[i] = down[i + t] /\ Ends(i + t)
    BY <1>3 DEF Ends
  <2>2. /\ running # NoTask /\ down[i + t].event = "task_result" => down[i + t].of = running
        /\ \A j \in 1 .. Len(down) : Ends(j) => j = i + t
    BY <2>1 DEF OneTaskUnderWay
  <2>3. ASSUME NEW j \in 1 .. Len(down'), Ends(j)'
        PROVE  j = i
    <3>1. j + t \in 1 .. Len(down) /\ Ends(j + t)
      BY <2>3 DEF Ends
    <3>2. j + t = i + t
      BY <2>2, <3>1
    <3> QED
      BY <3>2
  <2>4. down'[i].event = "task_result" => down'[i].of = running'
    BY <2>1, <1>3 DEF OneTaskUnderWay
  <2> QED
    BY <1>3, <2>1, <2>3, <2>4 DEF OneTaskUnderWay
<1> QED
  BY <1>1, <1>2, <1>3 DEF OneTaskUnderWay

\* With nothing on the wire and no session, no task is under way.
LEMMA NothingUnderWay ==
    ASSUME up = <<>>, down = <<>>, server = NoSession
    PROVE  OneTaskUnderWay
BY DEF OneTaskUnderWay, NoSession

LEMMA EmptyWireTyped ==
    ASSUME BoundsAreNat
    PROVE  /\ <<>> \in Seq(UpFrames) /\ <<>> \in Seq(DownFrames)
           /\ NoSession \in Sessions
           /\ 0 \in 0 .. MaxTasks
BY EmptySeq, BoundsAreNat DEF NoSession, Sessions, NoTask, BoundsAreNat

-----------------------------------------------------------------------------
(* The life of the connection.                                             *)

ConnStates == {"disconnected", "connecting", "connected", "auth_failed", "error"}

\* The controllers settle when the connection is not, or no longer, up.
LEMMA BecomesStep ==
    ASSUME WebInv, NEW s \in ConnStates \ {"connected"}, Becomes(s), Dead(s) \/ ~Connected
    PROVE  /\ state' = s /\ ~Connected' /\ running' = NoTask
           /\ items' \in [Approvals -> {"absent", "pending", "expired", "resolved", "error",
                                        "unmounted"}]
           /\ DecisionsAreSingle' /\ SentIsDecided' /\ AnswersMatchUnlessTimedOut'
           /\ UNCHANGED <<tasks, sent, shown, timedOut>>
<1>1. /\ TypeOK /\ DecisionsAreSingle /\ SentIsDecided /\ AnswersMatchUnlessTimedOut
  BY DEF WebInv
<1>2. /\ state' = s /\ items' = (IF Dead(s) THEN ExpirePending ELSE items)
      /\ running' = IF Dead(s) THEN NoTask ELSE running
      /\ UNCHANGED <<tasks, sent, shown, timedOut>> /\ ~Connected'
  BY DEF Becomes, Connected
<1>3. /\ items' \in [Approvals -> {"absent", "pending", "expired", "resolved", "error", "unmounted"}]
      /\ \A i \in Approvals : items'[i] # "pending"
      /\ \A i \in Approvals : items'[i] = "absent" => items[i] = "absent"
      /\ running' = NoTask
  BY <1>1, <1>2 DEF TypeOK, ExpirePending, DecisionsAreSingle
<1> QED
  BY <1>1, <1>2, <1>3 DEF DecisionsAreSingle, SentIsDecided, AnswersMatchUnlessTimedOut

\* A step of the client after which nothing is on the wire.
LEMMA WireCleared ==
    ASSUME WebInv, up' = <<>>, down' = <<>>, server' = NoSession,
           state' \in ConnStates,
           client' \in [closed : BOOLEAN, timer : BOOLEAN, failures : 0 .. MaxHandshakeFailures],
           sock' \in {"none", "opening"}, sockets' \in 0 .. MaxSockets, running' = NoTask,
           items' \in [Approvals -> {"absent", "pending", "expired", "resolved", "error",
                                    "unmounted"}],
           DecisionsAreSingle', SentIsDecided', AnswersMatchUnlessTimedOut',
           NeverStuck', RetriesCounted', UNCHANGED <<tasks, sent, shown, timedOut>>
    PROVE  WebInv'
<1>1. TypeOK
  BY DEF WebInv
<1>2. WireTyped'
  BY EmptyWireTyped, BoundsAreNat DEF WireTyped
<1>3. server'.task \in 0 .. MaxTasks /\ server'.ask \in Approvals \cup {NoApproval}
  BY EmptyWireTyped, BoundsAreNat DEF NoSession, NoTask
<1>4. running' \in 0 .. MaxTasks
  BY EmptyWireTyped, BoundsAreNat DEF NoTask
<1>5. TypeOK'
  BY <1>1, <1>3, <1>4 DEF TypeOK, ConnStates
<1>6. OneTaskUnderWay'
  BY NothingUnderWay DEF OneTaskUnderWay, NoSession
<1> QED
  BY <1>2, <1>5, <1>6 DEF WebInv, WireIsOfTheSocket

LEMMA ConnectionStep ==
    ASSUME WebInv, SignIn \/ TimerFires \/ FactoryThrows \/ HandshakeFails \/ Closes \/ SignOut
    PROVE  WebInv'
<1>1. /\ TypeOK /\ NeverStuck /\ RetriesCounted /\ WireIsOfTheSocket
      /\ MaxHandshakeFailures \in Nat \ {0}
  BY BoundsAreNat DEF WebInv
<1>2. /\ client \in [closed : BOOLEAN, timer : BOOLEAN, failures : 0 .. MaxHandshakeFailures]
      /\ sockets \in 0 .. MaxSockets /\ sock \in {"none", "opening", "open"} /\ MaxSockets \in Nat
      /\ state \in ConnStates
  BY <1>1, BoundsAreNat DEF TypeOK, ConnStates
<1>3. /\ client.closed => sock = "none" /\ ~client.timer
      /\ sock = "open" <=> Connected
      /\ client.timer => sock = "none"
      /\ client.timer \/ sock # "none" => client.failures < MaxHandshakeFailures
      /\ sock = "none" => up = <<>> /\ down = <<>> /\ server = NoSession
  BY <1>1 DEF NeverStuck, RetriesCounted, WireIsOfTheSocket
<1> DEFINE ClientTyped == [closed : BOOLEAN, timer : BOOLEAN, failures : 0 .. MaxHandshakeFailures]
           Settled == /\ client' \in ClientTyped /\ sockets' \in 0 .. MaxSockets
                      /\ up' = <<>> /\ down' = <<>> /\ server' = NoSession
                      /\ NeverStuck' /\ RetriesCounted'
                      /\ sock' \in {"none", "opening"}
<1>4. ASSUME NEW s \in ConnStates \ {"connected"}, Becomes(s), Dead(s) \/ ~Connected, Settled
      PROVE  WebInv'
  BY <1>4, BecomesStep, WireCleared
<1>5. ASSUME NEW s, Becomes(s), s # "connected"
      PROVE  state' = s /\ ~Connected'
  BY <1>5 DEF Becomes, Connected
<1>6. CASE SignIn
  <2>1. /\ client.closed /\ sockets < MaxSockets
        /\ client' = [closed |-> FALSE, timer |-> FALSE, failures |-> 0]
        /\ Becomes("connecting") /\ sock' = "opening" /\ sockets' = sockets + 1
        /\ UNCHANGED <<up, down, server>>
    BY <1>6 DEF SignIn, wireVars
  <2>2. client' \in ClientTyped /\ client'.failures = 0 /\ ~client'.timer /\ ~client'.closed
    BY <1>1, <2>1
  <2>3. sockets' \in 0 .. MaxSockets
    BY <1>2, <2>1
  <2>4. NeverStuck' /\ RetriesCounted'
    BY <1>1, <1>5, <2>1, <2>2 DEF NeverStuck, RetriesCounted
  <2> QED
    BY <1>3, <1>4, <2>1, <2>2, <2>3, <2>4 DEF ConnStates
<1>7. CASE TimerFires
  <2>1. /\ client.timer /\ sockets < MaxSockets /\ ~Connected
        /\ client' = [client EXCEPT !.timer = FALSE]
        /\ Becomes("connecting") /\ sock' = "opening" /\ sockets' = sockets + 1
        /\ UNCHANGED <<up, down, server>>
    BY <1>7 DEF TimerFires, wireVars
  <2>2. /\ client' \in ClientTyped /\ client'.failures = client.failures /\ ~client'.timer
        /\ client'.closed = client.closed /\ ~client.closed
    BY <1>2, <1>3, <2>1
  <2>3. sockets' \in 0 .. MaxSockets
    BY <1>2, <2>1
  <2>4. NeverStuck' /\ RetriesCounted'
    BY <1>3, <1>5, <2>1, <2>2 DEF NeverStuck, RetriesCounted
  <2> QED
    BY <1>3, <1>4, <2>1, <2>2, <2>3, <2>4 DEF ConnStates
<1>8. CASE FactoryThrows
  <2>1. /\ client.timer /\ Becomes("error")
        /\ client' = [client EXCEPT !.timer = ~client.closed]
        /\ UNCHANGED <<sock, sockets, up, down, server>>
    BY <1>8 DEF FactoryThrows, Reconnect, wireVars
  <2>2. /\ client' \in ClientTyped /\ client'.failures = client.failures /\ client'.timer
        /\ client'.closed = client.closed /\ ~client.closed
    BY <1>2, <1>3, <2>1
  <2>3. NeverStuck' /\ RetriesCounted'
    BY <1>3, <1>5, <2>1, <2>2 DEF NeverStuck, RetriesCounted
  <2> QED
    BY <1>2, <1>3, <1>4, <2>1, <2>2, <2>3 DEF ConnStates, Dead
<1>9. CASE HandshakeFails
  <2>1. /\ sock = "opening" /\ sock' = "none" /\ sockets' = sockets
        /\ up' = <<>> /\ down' = <<>> /\ server' = NoSession
        /\ \/ /\ client.failures + 1 >= MaxHandshakeFailures
              /\ client' = [client EXCEPT !.failures = client.failures + 1]
              /\ Becomes("error")
           \/ /\ client.failures + 1 < MaxHandshakeFailures
              /\ client' = [client EXCEPT !.failures = client.failures + 1, !.timer = TRUE]
              /\ Becomes("disconnected")
    BY <1>2, <1>9 DEF HandshakeFails, LoseSocket
  <2>2. /\ client.failures + 1 \in 0 .. MaxHandshakeFailures /\ ~client.timer /\ ~client.closed
    BY <1>1, <1>2, <1>3, <2>1
  <2>3. CASE client.failures + 1 >= MaxHandshakeFailures
    <3>1. /\ client' = [client EXCEPT !.failures = client.failures + 1] /\ Becomes("error")
      BY <1>1, <1>2, <2>1, <2>3
    <3>2. /\ client' \in ClientTyped /\ client'.failures = client.failures + 1 /\ ~client'.timer
          /\ ~client'.closed
      BY <1>2, <2>2, <3>1
    <3>3. NeverStuck' /\ RetriesCounted'
      BY <1>5, <2>1, <2>3, <3>1, <3>2 DEF NeverStuck, RetriesCounted
    <3> QED
      BY <1>2, <1>4, <2>1, <3>1, <3>2, <3>3 DEF ConnStates, Dead
  <2>4. CASE client.failures + 1 < MaxHandshakeFailures
    <3>1. /\ client' = [client EXCEPT !.failures = client.failures + 1, !.timer = TRUE]
          /\ Becomes("disconnected")
      BY <1>1, <1>2, <2>1, <2>4
    <3>2. /\ client' \in ClientTyped /\ client'.failures = client.failures + 1 /\ client'.timer
          /\ ~client'.closed
      BY <1>2, <2>2, <3>1
    <3>3. NeverStuck' /\ RetriesCounted'
      BY <1>5, <2>1, <2>4, <3>1, <3>2 DEF NeverStuck, RetriesCounted
    <3> QED
      BY <1>2, <1>4, <2>1, <3>1, <3>2, <3>3 DEF ConnStates, Dead
  <2> QED
    BY <1>1, <1>2, <2>3, <2>4
<1>10. CASE Closes
  <2>1. /\ sock = "open" /\ sock' = "none" /\ sockets' = sockets
        /\ up' = <<>> /\ down' = <<>> /\ server' = NoSession
        /\ \/ Becomes("auth_failed") /\ client' = client
           \/ Becomes("disconnected") /\ client' = [client EXCEPT !.timer = ~client.closed]
    BY <1>10 DEF Closes, LoseSocket, Reconnect
  <2>2. ~client.closed /\ ~client.timer /\ client.failures < MaxHandshakeFailures
    BY <1>3, <2>1
  <2>3. CASE Becomes("auth_failed") /\ client' = client
    <3>1. NeverStuck' /\ RetriesCounted'
      BY <1>5, <2>1, <2>2, <2>3 DEF NeverStuck, RetriesCounted
    <3> QED
      BY <1>2, <1>4, <2>1, <2>3, <3>1 DEF ConnStates, Dead
  <2>4. CASE Becomes("disconnected") /\ client' = [client EXCEPT !.timer = ~client.closed]
    <3>1. /\ client' \in ClientTyped /\ client'.failures = client.failures /\ client'.timer
          /\ ~client'.closed
      BY <1>2, <2>2, <2>4
    <3>2. NeverStuck' /\ RetriesCounted'
      BY <1>5, <2>1, <2>2, <2>4, <3>1 DEF NeverStuck, RetriesCounted
    <3> QED
      BY <1>2, <1>4, <2>1, <2>4, <3>1, <3>2 DEF ConnStates, Dead
  <2> QED
    BY <2>1, <2>3, <2>4
<1>11. CASE SignOut
  <2>1. /\ sock' = "none" /\ sockets' = sockets /\ Becomes("disconnected")
        /\ up' = <<>> /\ down' = <<>> /\ server' = NoSession
        /\ client' = [client EXCEPT !.closed = TRUE, !.timer = FALSE]
    BY <1>11 DEF SignOut, LoseSocket
  <2>2. client' \in ClientTyped /\ client'.closed /\ ~client'.timer
    BY <1>2, <2>1
  <2>3. NeverStuck' /\ RetriesCounted'
    BY <1>5, <2>1, <2>2 DEF NeverStuck, RetriesCounted
  <2> QED
    BY <1>2, <1>4, <2>1, <2>2, <2>3 DEF ConnStates, Dead
<1> QED
  BY <1>6, <1>7, <1>8, <1>9, <1>10, <1>11

LEMMA OpensStep ==
    ASSUME WebInv, Opens
    PROVE  WebInv'
<1>1. /\ TypeOK /\ NeverStuck /\ RetriesCounted /\ WireIsOfTheSocket /\ SentIsDecided
      /\ DecisionsAreSingle /\ AnswersMatchUnlessTimedOut
      /\ MaxHandshakeFailures \in Nat \ {0} /\ MaxTasks \in Nat
  BY BoundsAreNat DEF WebInv
<1>2. PICK authed \in BOOLEAN :
         server' = [NoSession EXCEPT !.authed = authed,
                                     !.asked = {i \in Approvals : items[i] # "absent"}]
  BY DEF Opens
<1>3. /\ sock = "opening" /\ sock' = "open" /\ state' = "connected" /\ running' = NoTask
      /\ client' = [client EXCEPT !.failures = 0]
      /\ items' = [i \in Approvals |-> IF items[i] = "absent" THEN "absent" ELSE "unmounted"]
      /\ UNCHANGED <<sockets, tasks, sent, shown, timedOut, up, down>>
  BY DEF Opens
<1>4. up' = <<>> /\ down' = <<>> /\ ~client.closed /\ ~client.timer
  BY <1>1, <1>3 DEF WireIsOfTheSocket, NeverStuck, RetriesCounted
<1>5. /\ client' \in [closed : BOOLEAN, timer : BOOLEAN, failures : 0 .. MaxHandshakeFailures]
      /\ ~client'.closed /\ ~client'.timer /\ client'.failures = 0
  <2>1. 0 \in 0 .. MaxHandshakeFailures
    BY <1>1
  <2>2. client \in [closed : BOOLEAN, timer : BOOLEAN, failures : 0 .. MaxHandshakeFailures]
    BY <1>1 DEF TypeOK
  <2> QED
    BY <1>3, <1>4, <2>1, <2>2
<1>6. server' \in Sessions /\ server'.task = NoTask /\ server'.ask = NoApproval
  <2> DEFINE asked == {i \in Approvals : items[i] # "absent"}
  <2>1. server' = [authed |-> authed, task |-> NoTask, ask |-> NoApproval, asked |-> asked]
    BY <1>2 DEF NoSession
  <2>2. asked \in SUBSET Approvals /\ NoTask \in 0 .. MaxTasks
    BY <1>1 DEF NoTask
  <2> HIDE DEF asked
  <2> QED
    BY <2>1, <2>2 DEF Sessions
<1>7. TypeOK'
  BY <1>1, <1>3, <1>5, <1>6 DEF TypeOK, NoTask
<1>8. WireTyped'
  BY <1>4, <1>6, EmptySeq DEF WireTyped
<1>9. NeverStuck' /\ RetriesCounted' /\ WireIsOfTheSocket'
  BY <1>1, <1>3, <1>5 DEF NeverStuck, RetriesCounted, WireIsOfTheSocket, Connected
<1>10. DecisionsAreSingle' /\ SentIsDecided' /\ AnswersMatchUnlessTimedOut'
  BY <1>1, <1>3 DEF DecisionsAreSingle, SentIsDecided, AnswersMatchUnlessTimedOut, Connected
<1>11. OneTaskUnderWay'
  BY <1>4, <1>6 DEF OneTaskUnderWay
<1> QED
  BY <1>7, <1>8, <1>9, <1>10, <1>11 DEF WebInv

-----------------------------------------------------------------------------
(* The operator, and what the browser hears.                               *)

\* The connection stays as it is.
LEMMA ConnectionStays ==
    ASSUME WebInv, UNCHANGED connVars
    PROVE  /\ NeverStuck' /\ RetriesCounted' /\ (Connected' <=> Connected)
           /\ state' = state /\ client' = client /\ sock' = sock /\ sockets' = sockets
BY DEF WebInv, connVars, NeverStuck, RetriesCounted, Connected

LEMMA StartStep ==
    ASSUME WebInv, Start
    PROVE  WebInv'
<1>1. /\ TypeOK /\ WireTyped /\ DecisionsAreSingle /\ SentIsDecided /\ AnswersMatchUnlessTimedOut
      /\ timedOut \/ OneTaskUnderWay
      /\ MaxTasks \in Nat /\ tasks \in 0 .. MaxTasks
  BY BoundsAreNat DEF WebInv, TypeOK
<1> DEFINE f == [do |-> "run_task", of |-> tasks + 1]
<1>2. /\ Connected /\ sock = "open" /\ running = NoTask /\ tasks < MaxTasks
      /\ tasks' = tasks + 1 /\ running' = tasks + 1 /\ up' = Append(up, f)
      /\ UNCHANGED <<items, sent, shown, timedOut, down, server>> /\ UNCHANGED connVars
  BY DEF Start, CanSend
<1>3. tasks + 1 \in 1 .. MaxTasks /\ tasks + 1 \in 0 .. MaxTasks
  BY <1>1, <1>2
<1>4. f \in UpFrames /\ f.do = "run_task" /\ f.of = tasks + 1
  BY <1>3 DEF UpFrames
<1> HIDE DEF f
<1>5. /\ up' \in Seq(UpFrames) /\ Len(up') \in 1 .. Len(up') /\ up'[Len(up')] = f
      /\ \A i \in 1 .. Len(up') : i # Len(up') => i \in 1 .. Len(up) /\ up'[i] = up[i]
  BY <1>1, <1>2, <1>4, AppendedFrame DEF WireTyped
<1>6. TypeOK' /\ WireTyped'
  BY <1>1, <1>2, <1>3, <1>5, ConnectionStays DEF TypeOK, WireTyped
<1>7. ASSUME OneTaskUnderWay
      PROVE  OneTaskUnderWay'
  <2>1. \A i \in 1 .. Len(up) : up[i] \in UpFrames
    BY <1>1, ElementOfSeq DEF WireTyped
  <2>2. \A i \in 1 .. Len(up) : ~Submits(i)
    <3> SUFFICES ASSUME NEW i \in 1 .. Len(up), Submits(i)
                 PROVE  FALSE
      OBVIOUS
    <3>1. up[i].of = running /\ up[i].of \in 1 .. MaxTasks
      BY <1>7, <2>1, UpFrameIs DEF OneTaskUnderWay, Submits
    <3> QED
      BY <1>2, <3>1 DEF NoTask
  <2>3. server.task = NoTask /\ \A j \in 1 .. Len(down) : ~Ends(j)
    BY <1>2, <1>7 DEF OneTaskUnderWay
  <2>4. server'.task = NoTask /\ \A j \in 1 .. Len(down') : ~Ends(j)'
    BY <1>2, <2>3 DEF Ends
  <2>5. ASSUME NEW i \in 1 .. Len(up'), Submits(i)'
        PROVE  i = Len(up') /\ up'[i].of = running'
    BY <1>2, <1>4, <1>5, <2>2, <2>5 DEF Submits
  <2> QED
    BY <2>4, <2>5 DEF OneTaskUnderWay
<1>8. DecisionsAreSingle' /\ SentIsDecided' /\ AnswersMatchUnlessTimedOut' /\ WireIsOfTheSocket'
  BY <1>1, <1>2, ConnectionStays
     DEF DecisionsAreSingle, SentIsDecided, AnswersMatchUnlessTimedOut, WireIsOfTheSocket
<1> QED
  BY <1>1, <1>2, <1>6, <1>7, <1>8, ConnectionStays DEF WebInv

LEMMA RunTimesOutStep ==
    ASSUME WebInv, RunTimesOut
    PROVE  WebInv'
<1>1. /\ TypeOK /\ WireTyped /\ DecisionsAreSingle /\ SentIsDecided /\ WireIsOfTheSocket
      /\ MaxTasks \in Nat
  BY BoundsAreNat DEF WebInv
<1>2. /\ running' = NoTask /\ timedOut' = TRUE
      /\ UNCHANGED <<tasks, items, sent, shown, up, down, server>> /\ UNCHANGED connVars
  BY DEF RunTimesOut, wireVars, connVars
<1>3. TypeOK' /\ WireTyped'
  BY <1>1, <1>2, ConnectionStays DEF TypeOK, WireTyped, NoTask
<1>4. DecisionsAreSingle' /\ SentIsDecided' /\ AnswersMatchUnlessTimedOut' /\ WireIsOfTheSocket'
  BY <1>1, <1>2, ConnectionStays
     DEF DecisionsAreSingle, SentIsDecided, AnswersMatchUnlessTimedOut, WireIsOfTheSocket
<1> QED
  BY <1>2, <1>3, <1>4, ConnectionStays DEF WebInv

\* An operator's decision: the first and the last for its prompt.
LEMMA DecideStep ==
    ASSUME WebInv, NEW i \in Approvals, Decide(i)
    PROVE  WebInv'
<1>1. /\ TypeOK /\ WireTyped /\ DecisionsAreSingle /\ SentIsDecided /\ AnswersMatchUnlessTimedOut
      /\ timedOut \/ OneTaskUnderWay
  BY DEF WebInv
<1> DEFINE f == [do |-> "decide", of |-> i]
<1>2. /\ Connected /\ sock = "open" /\ items[i] = "pending"
      /\ items' = [items EXCEPT ![i] = "resolved"]
      /\ sent' = [sent EXCEPT ![i] = sent[i] + 1]
      /\ up' = Append(up, f)
      /\ UNCHANGED <<tasks, running, shown, timedOut, down, server>> /\ UNCHANGED connVars
  BY DEF Decide, CanSend, MayDecide
<1>3. f \in UpFrames /\ f.do = "decide"
  BY DEF UpFrames
<1> HIDE DEF f
<1>4. /\ up' \in Seq(UpFrames) /\ up'[Len(up')] = f
      /\ \A j \in 1 .. Len(up') : j # Len(up') => j \in 1 .. Len(up) /\ up'[j] = up[j]
  BY <1>1, <1>2, <1>3, AppendedFrame DEF WireTyped
<1>5. sent[i] = 0 /\ sent'[i] = 1 /\ items'[i] = "resolved"
  BY <1>1, <1>2 DEF SentIsDecided, TypeOK
<1>6. \A j \in Approvals : j # i => sent'[j] = sent[j] /\ items'[j] = items[j]
  BY <1>1, <1>2 DEF TypeOK
<1>7. TypeOK' /\ WireTyped'
  BY <1>1, <1>2, <1>4, ConnectionStays DEF TypeOK, WireTyped
<1>8. DecisionsAreSingle' /\ SentIsDecided'
  <2>1. \A j \in Approvals : sent'[j] <= 1
    BY <1>1, <1>5, <1>6 DEF DecisionsAreSingle
  <2> QED
    BY <1>1, <1>2, <1>5, <1>6, <2>1, ConnectionStays DEF DecisionsAreSingle, SentIsDecided
<1>9. AnswersMatchUnlessTimedOut' /\ WireIsOfTheSocket'
  BY <1>1, <1>2, ConnectionStays DEF AnswersMatchUnlessTimedOut, WireIsOfTheSocket
<1>10. ASSUME OneTaskUnderWay
       PROVE  OneTaskUnderWay'
  <2>1. /\ Len(up) \in Nat /\ Len(up') \in Nat /\ Len(down) \in Nat /\ Len(down') \in Nat
    BY <1>1, <1>7, LenProperties DEF WireTyped
  <2>2. \A j \in 1 .. Len(up') : up'[j].do = "run_task" =>
            j + 0 \in 1 .. Len(up) /\ up'[j] = up[j + 0]
    BY <1>3, <1>4, <2>1
  <2>3. \A j \in 1 .. Len(down') : down'[j].event \in {"task_result", "error"} =>
            j + 0 \in 1 .. Len(down) /\ down'[j] = down[j + 0]
    BY <1>2, <2>1
  <2>4. running' = running /\ server'.task = server.task
    BY <1>2
  <2> QED
    BY <1>10, <2>1, <2>2, <2>3, <2>4, TaskStaysInPlace
<1> QED
  BY <1>1, <1>2, <1>7, <1>8, <1>9, <1>10, ConnectionStays DEF WebInv

\* What a frame may change on the screen.
LEMMA FrameMovesItems ==
    ASSUME TypeOK, NEW f \in DownFrames, OnFrame(f)
    PROVE  /\ items' \in [Approvals -> {"absent", "pending", "expired", "resolved", "error",
                                        "unmounted"}]
           /\ \A j \in Approvals : \/ items'[j] = items[j]
                                   \/ items[j] = "absent" /\ items'[j] = "pending"
                                   \/ items[j] = "pending" /\ items'[j] \in {"expired", "error"}
<1>1. items \in [Approvals -> {"absent", "pending", "expired", "resolved", "error", "unmounted"}]
  BY DEF TypeOK
<1>2. CASE f.event = "approval_request"
  <2>1. items' = [items EXCEPT ![f.of] = IF items[f.of] = "absent" THEN "pending" ELSE items[f.of]]
    BY <1>2 DEF OnFrame
  <2> QED
    BY <1>1, <2>1
<1>3. CASE f.event = "approval_timeout"
  <2>1. items' = [items EXCEPT ![f.of] = IF items[f.of] = "pending" THEN "expired" ELSE items[f.of]]
    BY <1>3 DEF OnFrame, Settle
  <2> QED
    BY <1>1, <2>1
<1>4. CASE f.event = "approval_error" /\ f.of # NoApproval
  <2>1. items' = [items EXCEPT ![f.of] = IF items[f.of] = "pending" THEN "error" ELSE items[f.of]]
    BY <1>4 DEF OnFrame, Settle
  <2> QED
    BY <1>1, <2>1
<1>5. CASE f.event \notin {"approval_request", "approval_timeout"}
           /\ ~(f.event = "approval_error" /\ f.of # NoApproval)
  <2>1. items' = items
    BY <1>5 DEF OnFrame
  <2> QED
    BY <1>1, <2>1
<1> QED
  BY <1>2, <1>3, <1>4, <1>5

LEMMA HearStep ==
    ASSUME WebInv, Hear
    PROVE  WebInv'
<1>1. /\ TypeOK /\ WireTyped /\ DecisionsAreSingle /\ SentIsDecided /\ AnswersMatchUnlessTimedOut
      /\ timedOut \/ OneTaskUnderWay
      /\ MaxTasks \in Nat /\ down \in Seq(DownFrames)
      /\ Len(up) \in Nat /\ Len(down) \in Nat
  BY BoundsAreNat, LenProperties DEF WebInv, WireTyped
<1> DEFINE f == Head(down)
<1>2. /\ Connected /\ down # <<>> /\ OnFrame(f) /\ RunHears(f) /\ down' = Tail(down)
      /\ UNCHANGED <<tasks, sent, timedOut, up, server>> /\ UNCHANGED connVars
  BY DEF Hear
<1>3. /\ down' \in Seq(DownFrames) /\ f \in DownFrames /\ f = down[1] /\ 1 \in 1 .. Len(down)
      /\ \A i \in 1 .. Len(down') : i + 1 \in 1 .. Len(down) /\ down'[i] = down[i + 1]
  BY <1>1, <1>2, TakenFrame
<1> HIDE DEF f
<1>4. /\ items' \in [Approvals -> {"absent", "pending", "expired", "resolved", "error", "unmounted"}]
      /\ \A j \in Approvals : \/ items'[j] = items[j]
                              \/ items[j] = "absent" /\ items'[j] = "pending"
                              \/ items[j] = "pending" /\ items'[j] \in {"expired", "error"}
  BY <1>1, <1>2, <1>3, FrameMovesItems
<1>5. DecisionsAreSingle' /\ SentIsDecided'
  BY <1>1, <1>2, <1>4, ConnectionStays DEF DecisionsAreSingle, SentIsDecided
<1>6. WireIsOfTheSocket'
  BY <1>2, ConnectionStays DEF WireIsOfTheSocket, WebInv, NeverStuck
<1>7. Len(down') \in Nat /\ Len(up') \in Nat
  BY <1>1, <1>2, <1>3, LenProperties
<1>8. CASE running # NoTask /\ f.event \in {"task_result", "error"}
  <2>1. /\ running' = NoTask
        /\ shown' = IF f.event = "task_result" THEN shown \cup {<<running, f.of>>} ELSE shown
    BY <1>2, <1>8 DEF RunHears
  <2>2. f.event = "task_result" => f.of \in 0 .. MaxTasks
    BY <1>1, <1>3, DownFrameIs
  <2>3. TypeOK' /\ WireTyped'
    BY <1>1, <1>2, <1>3, <1>4, <2>1, <2>2, ConnectionStays DEF TypeOK, WireTyped, NoTask
  <2>4. ASSUME OneTaskUnderWay
        PROVE  OneTaskUnderWay' /\ (f.event = "task_result" => f.of = running)
    <3>1. Ends(1)
      BY <1>3, <1>8 DEF Ends
    <3>2. /\ down[1].event = "task_result" => down[1].of = running
          /\ \A j \in 1 .. Len(down) : Ends(j) => j = 1
      BY <1>3, <2>4, <3>1 DEF OneTaskUnderWay
    <3>3. server.task = NoTask /\ \A i \in 1 .. Len(up) : ~Submits(i)
      BY <1>3, <2>4, <3>1 DEF OneTaskUnderWay
    <3>4. \A i \in 1 .. Len(down') : ~Ends(i)'
      <4> SUFFICES ASSUME NEW i \in 1 .. Len(down'), Ends(i)'
                   PROVE  FALSE
        OBVIOUS
      <4>1. i + 1 \in 1 .. Len(down) /\ Ends(i + 1)
        BY <1>3 DEF Ends
      <4>2. i + 1 = 1
        BY <3>2, <4>1
      <4> QED
        BY <1>7, <4>2
    <3>5. server'.task = NoTask /\ \A i \in 1 .. Len(up') : ~Submits(i)'
      BY <1>2, <3>3 DEF Submits
    <3> QED
      BY <1>3, <3>2, <3>4, <3>5 DEF OneTaskUnderWay
  <2>5. AnswersMatchUnlessTimedOut'
    <3>1. CASE timedOut
      BY <1>2, <3>1 DEF AnswersMatchUnlessTimedOut
    <3>2. CASE ~timedOut
      <4>1. f.event = "task_result" => f.of = running
        BY <1>1, <2>4, <3>2
      <4>2. \A p \in shown' : p \in shown \/ p = <<running, running>>
        BY <2>1, <4>1
      <4>3. \A p \in shown : p[1] = p[2]
        BY <1>1, <3>2 DEF AnswersMatchUnlessTimedOut
      <4> QED
        BY <4>2, <4>3 DEF AnswersMatchUnlessTimedOut
    <3> QED
      BY <3>1, <3>2
  <2> QED
    BY <1>1, <1>2, <1>5, <1>6, <2>3, <2>4, <2>5, ConnectionStays DEF WebInv
<1>9. CASE ~(running # NoTask /\ f.event \in {"task_result", "error"})
  <2>1. running' = running /\ shown' = shown
    BY <1>2, <1>9 DEF RunHears
  <2>2. TypeOK' /\ WireTyped'
    BY <1>1, <1>2, <1>3, <1>4, <2>1, ConnectionStays DEF TypeOK, WireTyped
  <2>3. AnswersMatchUnlessTimedOut'
    BY <1>1, <1>2, <2>1 DEF AnswersMatchUnlessTimedOut
  <2>4. ASSUME OneTaskUnderWay
        PROVE  OneTaskUnderWay'
    <3>1. \A j \in 1 .. Len(up') : up'[j].do = "run_task" =>
              j + 0 \in 1 .. Len(up) /\ up'[j] = up[j + 0]
      BY <1>1, <1>2
    <3>2. \A j \in 1 .. Len(down') : down'[j].event \in {"task_result", "error"} =>
              j + 1 \in 1 .. Len(down) /\ down'[j] = down[j + 1]
      BY <1>3
    <3>3. server'.task = server.task
      BY <1>2
    <3> QED
      BY <1>1, <1>7, <2>1, <2>4, <3>1, <3>2, <3>3, TaskStaysInPlace
  <2> QED
    BY <1>1, <1>2, <1>5, <1>6, <2>2, <2>3, <2>4, ConnectionStays DEF WebInv
<1> QED
  BY <1>8, <1>9

-----------------------------------------------------------------------------
(* The session at the other end.                                           *)

\* A session writes and reads only on an open socket.
LEMMA SessionHasSocket ==
    ASSUME WebInv, server.authed
    PROVE  sock = "open"
BY DEF WebInv, WireIsOfTheSocket, NoSession

\* What a step of the session leaves as it was.
LEMMA ClientStays ==
    ASSUME WebInv, server.authed, UNCHANGED <<connVars, uiVars>>, WireTyped'
    PROVE  /\ TypeOK' /\ NeverStuck' /\ RetriesCounted' /\ WireIsOfTheSocket'
           /\ DecisionsAreSingle' /\ SentIsDecided' /\ AnswersMatchUnlessTimedOut'
           /\ running' = running /\ timedOut' = timedOut
<1>1. UNCHANGED connVars
  OBVIOUS
<1>2. UNCHANGED <<tasks, running, items, sent, shown, timedOut>>
  BY DEF uiVars
<1>3. server'.task \in 0 .. MaxTasks /\ server'.ask \in Approvals \cup {NoApproval}
  BY DEF WireTyped, Sessions
<1>4. TypeOK /\ DecisionsAreSingle /\ SentIsDecided /\ AnswersMatchUnlessTimedOut /\ sock = "open"
  BY SessionHasSocket DEF WebInv
<1>5. TypeOK'
  BY <1>1, <1>2, <1>3, <1>4, ConnectionStays DEF TypeOK
<1>6. WireIsOfTheSocket'
  BY <1>1, <1>4, ConnectionStays DEF WireIsOfTheSocket
<1>7. DecisionsAreSingle' /\ SentIsDecided' /\ AnswersMatchUnlessTimedOut'
  BY <1>1, <1>2, <1>4, ConnectionStays
     DEF DecisionsAreSingle, SentIsDecided, AnswersMatchUnlessTimedOut
<1> QED
  BY <1>1, <1>2, <1>5, <1>6, <1>7, ConnectionStays

\* A frame is written that ends no task, and perhaps a decision is read.
LEMMA SessionSpeaks ==
    ASSUME WebInv, server.authed, UNCHANGED <<connVars, uiVars>>, server' \in Sessions,
           server'.task = server.task,
           \/ up' = up
           \/ up # <<>> /\ up' = Tail(up),
           \/ down' = down
           \/ \E g \in DownFrames : /\ down' = Append(down, g)
                                     /\ g.event \notin {"task_result", "error"}
    PROVE  WebInv'
<1>1. /\ up \in Seq(UpFrames) /\ down \in Seq(DownFrames) /\ (timedOut \/ OneTaskUnderWay)
  BY DEF WebInv, WireTyped
<1>2. PICK s \in {0, 1} : /\ up' \in Seq(UpFrames)
                          /\ \A i \in 1 .. Len(up') : up'[i].do = "run_task" =>
                                 i + s \in 1 .. Len(up) /\ up'[i] = up[i + s]
  <2>1. CASE up' = up
    <3>1. /\ up' \in Seq(UpFrames)
          /\ \A i \in 1 .. Len(up') : up'[i].do = "run_task" =>
                 i + 0 \in 1 .. Len(up) /\ up'[i] = up[i + 0]
      BY <1>1, <2>1, LenProperties
    <3> QED
      BY <3>1
  <2>2. CASE up # <<>> /\ up' = Tail(up)
    <3>1. /\ up' \in Seq(UpFrames)
          /\ \A i \in 1 .. Len(up') : up'[i].do = "run_task" =>
                 i + 1 \in 1 .. Len(up) /\ up'[i] = up[i + 1]
      BY <1>1, <2>2, TakenFrame
    <3> QED
      BY <3>1
  <2> QED
    BY <2>1, <2>2
<1>3. /\ down' \in Seq(DownFrames)
      /\ \A i \in 1 .. Len(down') : down'[i].event \in {"task_result", "error"} =>
             i + 0 \in 1 .. Len(down) /\ down'[i] = down[i + 0]
  <2>1. CASE down' = down
    BY <1>1, <2>1, LenProperties
  <2>2. ASSUME NEW g \in DownFrames, down' = Append(down, g),
               g.event \notin {"task_result", "error"}
        PROVE  /\ down' \in Seq(DownFrames)
               /\ \A i \in 1 .. Len(down') : down'[i].event \in {"task_result", "error"} =>
                      i + 0 \in 1 .. Len(down) /\ down'[i] = down[i + 0]
    <3>1. /\ down' \in Seq(DownFrames) /\ down'[Len(down')] = g
          /\ \A i \in 1 .. Len(down') : i # Len(down') => i \in 1 .. Len(down) /\ down'[i] = down[i]
      BY <1>1, <2>2, AppendedFrame
    <3>2. Len(down) \in Nat
      BY <1>1, LenProperties
    <3> QED
      BY <2>2, <3>1, <3>2
  <2> QED
    BY <2>1, <2>2
<1>4. WireTyped'
  BY <1>2, <1>3 DEF WireTyped
<1>5. /\ Len(up) \in Nat /\ Len(up') \in Nat /\ Len(down) \in Nat /\ Len(down') \in Nat
  BY <1>1, <1>2, <1>3, LenProperties
<1>6. running' = running /\ timedOut' = timedOut
  BY DEF uiVars
<1>7. OneTaskUnderWay => OneTaskUnderWay'
  BY <1>2, <1>3, <1>5, <1>6, TaskStaysInPlace
<1> QED
  BY <1>1, <1>4, <1>6, <1>7, ClientStays DEF WebInv

\* The one frame that hands a task over, or refuses it.
LEMMA ServerTakesTaskStep ==
    ASSUME WebInv, ServerTakesTask
    PROVE  WebInv'
<1>1. /\ up \in Seq(UpFrames) /\ down \in Seq(DownFrames) /\ (timedOut \/ OneTaskUnderWay)
      /\ server \in Sessions
  BY DEF WebInv, WireTyped
<1>2. /\ server.authed /\ up # <<>> /\ Head(up).do = "run_task" /\ server.task = NoTask
      /\ up' = Tail(up) /\ UNCHANGED <<connVars, uiVars>>
      /\ \/ server' = [server EXCEPT !.task = Head(up).of] /\ down' = down
         \/ down' = Append(down, [event |-> "error", of |-> NoTask]) /\ server' = server
  BY DEF ServerTakesTask, ServerCan, Says
<1>3. /\ up' \in Seq(UpFrames) /\ Head(up) \in UpFrames /\ Head(up) = up[1] /\ 1 \in 1 .. Len(up)
      /\ \A i \in 1 .. Len(up') : i + 1 \in 1 .. Len(up) /\ up'[i] = up[i + 1]
      /\ Len(up') \in Nat
  BY <1>1, <1>2, TakenFrame, LenProperties
<1>4. up[1].of \in 1 .. MaxTasks /\ Submits(1) /\ running' = running /\ timedOut' = timedOut
  BY <1>2, <1>3, UpFrameIs DEF Submits, uiVars
<1>5. ASSUME OneTaskUnderWay
      PROVE  /\ up[1].of = running /\ running # NoTask
             /\ \A i \in 1 .. Len(up') : ~Submits(i)'
             /\ \A i \in 1 .. Len(down) : ~Ends(i)
  <2>1. /\ up[1].of = running /\ \A j \in 1 .. Len(up) : Submits(j) => j = 1
        /\ \A i \in 1 .. Len(down) : ~Ends(i)
    BY <1>3, <1>4, <1>5 DEF OneTaskUnderWay
  <2>2. running # NoTask
    BY <1>4, <2>1 DEF NoTask
  <2>3. ASSUME NEW i \in 1 .. Len(up'), Submits(i)'
        PROVE  FALSE
    <3>1. i + 1 \in 1 .. Len(up) /\ Submits(i + 1)
      BY <1>3, <2>3 DEF Submits
    <3>2. i + 1 = 1
      BY <2>1, <3>1
    <3> QED
      BY <1>3, <3>2
  <2> QED
    BY <2>1, <2>2, <2>3
<1>6. CASE server' = [server EXCEPT !.task = Head(up).of] /\ down' = down
  <2>1. server'.task = up[1].of /\ server' \in Sessions
    <3>1. up[1].of \in 0 .. MaxTasks
      BY <1>4, BoundsAreNat
    <3> QED
      BY <1>1, <1>3, <1>6, <3>1 DEF Sessions
  <2>2. WireTyped'
    BY <1>1, <1>3, <1>6, <2>1 DEF WireTyped
  <2>3. OneTaskUnderWay => OneTaskUnderWay'
    <3> SUFFICES ASSUME OneTaskUnderWay
                 PROVE  OneTaskUnderWay'
      OBVIOUS
    <3>1. \A i \in 1 .. Len(down') : ~Ends(i)'
      BY <1>5, <1>6 DEF Ends
    <3> QED
      BY <1>4, <1>5, <2>1, <3>1 DEF OneTaskUnderWay
  <2> QED
    BY <1>1, <1>2, <1>4, <2>2, <2>3, ClientStays DEF WebInv
<1>7. CASE down' = Append(down, [event |-> "error", of |-> NoTask]) /\ server' = server
  <2> DEFINE g == [event |-> "error", of |-> NoTask]
  <2>1. g \in DownFrames /\ g.event = "error" /\ down' = Append(down, g)
    BY <1>7 DEF DownFrames
  <2> HIDE DEF g
  <2>2. /\ down' \in Seq(DownFrames) /\ Len(down') \in 1 .. Len(down') /\ down'[Len(down')] = g
        /\ \A i \in 1 .. Len(down') : i # Len(down') => i \in 1 .. Len(down) /\ down'[i] = down[i]
    BY <1>1, <2>1, AppendedFrame
  <2>3. WireTyped'
    BY <1>1, <1>3, <1>7, <2>2 DEF WireTyped
  <2>4. OneTaskUnderWay => OneTaskUnderWay'
    <3> SUFFICES ASSUME OneTaskUnderWay
                 PROVE  OneTaskUnderWay'
      OBVIOUS
    <3>1. \A i \in 1 .. Len(down') : Ends(i)' => i = Len(down') /\ down'[i].event = "error"
      BY <1>5, <2>1, <2>2 DEF Ends
    <3>2. server'.task = NoTask
      BY <1>2, <1>7
    <3> QED
      BY <1>4, <1>5, <3>1, <3>2 DEF OneTaskUnderWay
  <2> QED
    BY <1>1, <1>2, <1>4, <2>3, <2>4, ClientStays DEF WebInv
<1> QED
  BY <1>2, <1>6, <1>7

LEMMA ServerReadsStep ==
    ASSUME WebInv, ServerReads \/ ServerEchoes
    PROVE  WebInv'
<1>1. up \in Seq(UpFrames) /\ server \in Sessions
  BY DEF WebInv, WireTyped
<1>2. /\ server.authed /\ up # <<>> /\ up' = Tail(up) /\ UNCHANGED <<connVars, uiVars>>
      /\ \/ down' = Append(down, [event |-> "approval_error", of |-> NoApproval]) /\ server' = server
         \/ /\ Head(up).do = "decide"
            /\ \/ down' = Append(down, [event |-> "approval_error", of |-> Head(up).of])
                  /\ server' = server
               \/ server' = [server EXCEPT !.ask = NoApproval] /\ down' = down
               \/ down' = Append(down, [event |-> "echo", of |-> NoTask]) /\ server' = server
  BY DEF ServerReads, ServerEchoes, ServerCan, Says
<1>3. Head(up).do = "decide" => Head(up).of \in Approvals
  <2>1. Head(up) \in UpFrames
    BY <1>1, <1>2, TakenFrame
  <2> QED
    BY <2>1, UpFrameIs
<1>4. /\ [event |-> "approval_error", of |-> NoApproval] \in DownFrames
      /\ [event |-> "echo", of |-> NoTask] \in DownFrames
      /\ Head(up).do = "decide" => [event |-> "approval_error", of |-> Head(up).of] \in DownFrames
  BY <1>3 DEF DownFrames
<1>5. server' \in Sessions /\ server'.task = server.task
  BY <1>1, <1>2 DEF Sessions
<1>6. \/ down' = down
      \/ \E g \in DownFrames : down' = Append(down, g) /\ g.event \notin {"task_result", "error"}
  <2>1. /\ [event |-> "approval_error", of |-> NoApproval].event = "approval_error"
        /\ [event |-> "echo", of |-> NoTask].event = "echo"
        /\ [event |-> "approval_error", of |-> Head(up).of].event = "approval_error"
    OBVIOUS
  <2> QED
    BY <1>2, <1>4, <2>1
<1> QED
  BY <1>2, <1>5, <1>6, SessionSpeaks

LEMMA ServerAsksStep ==
    ASSUME WebInv, ServerTimesOut \/ \E i \in Approvals : ServerAsks(i)
    PROVE  WebInv'
<1>1. server \in Sessions
  BY DEF WebInv, WireTyped
<1>2. CASE ServerTimesOut
  <2> DEFINE g == [event |-> "approval_timeout", of |-> server.ask]
  <2>1. /\ server.authed /\ UNCHANGED <<connVars, uiVars>> /\ up' = up
        /\ server' = [server EXCEPT !.ask = NoApproval] /\ down' = Append(down, g)
    BY <1>2 DEF ServerTimesOut, ServerCan, Says
  <2>2. server' \in Sessions /\ server'.task = server.task
    BY <1>1, <2>1 DEF Sessions
  <2>3. g \in DownFrames /\ g.event = "approval_timeout"
    BY <1>1 DEF DownFrames, Sessions
  <2> HIDE DEF g
  <2> QED
    BY <2>1, <2>2, <2>3, SessionSpeaks
<1>3. ASSUME NEW i \in Approvals, ServerAsks(i)
      PROVE  WebInv'
  <2> DEFINE g == [event |-> "approval_request", of |-> i]
  <2>1. /\ server.authed /\ UNCHANGED <<connVars, uiVars>> /\ up' = up
        /\ server' = [server EXCEPT !.ask = i, !.asked = server.asked \cup {i}]
        /\ down' = Append(down, g)
    BY <1>1, <1>3 DEF ServerAsks, ServerCan, Says, Sessions
  <2>2. server' \in Sessions /\ server'.task = server.task
    <3>1. i \in Approvals \cup {NoApproval} /\ server.asked \cup {i} \in SUBSET Approvals
      BY <1>1 DEF Sessions
    <3> QED
      BY <1>1, <2>1, <3>1 DEF Sessions
  <2>3. g \in DownFrames /\ g.event = "approval_request"
    BY DEF DownFrames
  <2> HIDE DEF g
  <2> QED
    BY <2>1, <2>2, <2>3, SessionSpeaks
<1> QED
  BY <1>2, <1>3

LEMMA ServerAnswersStep ==
    ASSUME WebInv, ServerAnswers
    PROVE  WebInv'
<1>1. /\ up \in Seq(UpFrames) /\ down \in Seq(DownFrames) /\ (timedOut \/ OneTaskUnderWay)
      /\ server \in Sessions /\ MaxTasks \in Nat
  BY BoundsAreNat DEF WebInv, WireTyped
<1> DEFINE g == [event |-> "task_result", of |-> server.task]
<1>2. /\ server.authed /\ server.task # NoTask /\ server' = [server EXCEPT !.task = NoTask]
      /\ down' = Append(down, g) /\ up' = up /\ UNCHANGED <<connVars, uiVars>>
  BY DEF ServerAnswers, ServerCan, Says
<1>3. server' \in Sessions /\ server'.task = NoTask
  BY <1>1, <1>2 DEF Sessions, NoTask
<1>4. g \in DownFrames /\ g.event = "task_result" /\ g.of = server.task
  <2>1. server.task \in 1 .. MaxTasks
    BY <1>1, <1>2 DEF Sessions, NoTask
  <2> QED
    BY <2>1 DEF DownFrames
<1> HIDE DEF g
<1>5. /\ down' \in Seq(DownFrames) /\ Len(down') \in 1 .. Len(down') /\ down'[Len(down')] = g
      /\ \A i \in 1 .. Len(down') : i # Len(down') => i \in 1 .. Len(down) /\ down'[i] = down[i]
  BY <1>1, <1>2, <1>4, AppendedFrame
<1>6. WireTyped'
  BY <1>1, <1>2, <1>3, <1>5 DEF WireTyped
<1>7. running' = running /\ timedOut' = timedOut
  BY <1>2 DEF uiVars
<1>8. OneTaskUnderWay => OneTaskUnderWay'
  <2> SUFFICES ASSUME OneTaskUnderWay
               PROVE  OneTaskUnderWay'
    OBVIOUS
  <2>1. /\ server.task = running /\ \A i \in 1 .. Len(down) : ~Ends(i)
        /\ \A i \in 1 .. Len(up) : ~Submits(i)
    BY <1>2 DEF OneTaskUnderWay
  <2>2. \A i \in 1 .. Len(down') : Ends(i)' => i = Len(down') /\ down'[i].of = running'
    BY <1>4, <1>5, <1>7, <2>1 DEF Ends
  <2>3. \A i \in 1 .. Len(up') : ~Submits(i)'
    BY <1>2, <2>1 DEF Submits
  <2>4. running' # NoTask
    BY <1>2, <1>7, <2>1
  <2> QED
    BY <1>3, <2>2, <2>3, <2>4 DEF OneTaskUnderWay
<1> QED
  BY <1>1, <1>2, <1>6, <1>7, <1>8, ClientStays DEF WebInv

-----------------------------------------------------------------------------
(* The theorems.                                                           *)

LEMMA InitWeb ==
    ASSUME Init
    PROVE  WebInv
<1>1. WireTyped
  BY EmptyWireTyped, BoundsAreNat DEF Init, WireTyped
<1>2. TypeOK
  <2>1. 0 \in 0 .. MaxTasks /\ 0 \in 0 .. MaxSockets /\ 0 \in 0 .. MaxHandshakeFailures
    BY BoundsAreNat
  <2>2. client \in [closed : BOOLEAN, timer : BOOLEAN, failures : 0 .. MaxHandshakeFailures]
    BY <2>1 DEF Init
  <2>3. /\ items \in [Approvals -> {"absent", "pending", "resolved", "expired", "unmounted"}]
        /\ sent \in [Approvals -> Nat]
    BY DEF Init
  <2> QED
    BY <2>1, <2>2, <2>3 DEF Init, TypeOK, NoSession, NoTask
<1>3. NeverStuck /\ RetriesCounted /\ WireIsOfTheSocket
  BY DEF Init, NeverStuck, RetriesCounted, WireIsOfTheSocket, Connected
<1>4. DecisionsAreSingle /\ SentIsDecided /\ AnswersMatchUnlessTimedOut
  BY DEF Init, DecisionsAreSingle, SentIsDecided, AnswersMatchUnlessTimedOut
<1>5. OneTaskUnderWay
  BY NothingUnderWay DEF Init
<1> QED
  BY <1>1, <1>2, <1>3, <1>4, <1>5 DEF WebInv

LEMMA StutteringWeb ==
    ASSUME WebInv, UNCHANGED vars
    PROVE  WebInv'
<1>1. UNCHANGED <<state, client, sock, sockets, tasks, running, items, sent, shown,
                  timedOut, up, down, server>>
  BY DEF vars
<1> QED
  BY <1>1 DEF WebInv, TypeOK, WireTyped, NeverStuck, RetriesCounted, WireIsOfTheSocket,
     DecisionsAreSingle, SentIsDecided, OneTaskUnderWay, Submits, Ends,
     AnswersMatchUnlessTimedOut, Connected

\* In every state of the browser's connection: the frames and the session fit
\* the socket, and unless a run timed out the task that runs is in one place.
THEOREM WebInvariance == Spec => []WebInv
<1>1. WebInv /\ Next => WebInv'
  BY ConnectionStep, OpensStep, StartStep, RunTimesOutStep, DecideStep, HearStep,
     ServerTakesTaskStep, ServerReadsStep, ServerAsksStep, ServerAnswersStep
     DEF Next, Connection, Operator, Server
<1> QED
  BY <1>1, InitWeb, StutteringWeb, PTL DEF Spec

\* A decision is sent at most once for each request, nothing is left on offer on a
\* dead connection, and an answer is shown for the task it answers unless a run
\* timed out (approvals.ts decide, run.ts onEvent).
THEOREM OneDecisionGetsOneAnswer == Spec => []OneDecisionOneAnswer
<1>1. WebInv => OneDecisionOneAnswer
  BY DEF WebInv, OneDecisionOneAnswer
<1> QED
  BY <1>1, WebInvariance, PTL

\* The client has a socket or an armed timer unless it was signed out, refused or
\* out of retries, and a client that was closed has neither (client.ts).
THEOREM TheClientIsNeverStuck == Spec => []NeverStuck
<1>1. WebInv => NeverStuck
  BY DEF WebInv
<1> QED
  BY <1>1, WebInvariance, PTL
=============================================================================
