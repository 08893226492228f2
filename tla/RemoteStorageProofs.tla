------------------------ MODULE RemoteStorageProofs ------------------------
(***************************************************************************)
(* Proofs about one storage connector, for any number of concurrent tool   *)
(* calls, any tools, connections and drops of the network.                 *)
(***************************************************************************)
EXTENDS RemoteStorage, SequenceTheorems, TLAPS

-----------------------------------------------------------------------------
(* The inductive invariant.                                                *)

InLine == {"queued", "dialling", "subsystem"}       \* at the transport's lock
OnWire == {"sent", "answered"}                      \* with a client in hand

\* The calls at the lock are the ones in its queue, each once; the holder
\* alone connects, and only while no connection is shared.
LockIsFair ==
    /\ \A i, j \in 1 .. Len(queue) : queue[i] = queue[j] => i = j
    /\ \A c \in Calls : call[c].at \in InLine <=> \E i \in 1 .. Len(queue) : queue[i] = c
    /\ \A c \in Calls : call[c].at \in {"dialling", "subsystem"}
                            => HoldsLock(c) /\ current = NoConnection

\* Connections are numbered as they are opened.  One that died under a call is
\* not open and, once the call is in line again, not the shared one either.
DeadStayDead ==
    /\ current <= opened /\ \A n \in live : n <= opened
    /\ \A c \in Calls :
          /\ call[c].at \in InFlight => call[c].on <= opened
          /\ call[c].at \in InFlight /\ call[c].try = 2 =>
                /\ call[c].died \notin live /\ call[c].died <= opened
                /\ call[c].at \in InLine /\ current # NoConnection => current # call[c].died
                /\ call[c].at \in OnWire => call[c].on # call[c].died

LastStep(r) == r.step = Len(Script[r.kind])

\* Where a call in flight is in its script.
InScript(r) ==
    /\ r.at = "idle" => r = Idle
    /\ r.at \in InFlight =>
         /\ r.step <= Len(Script[r.kind]) /\ r.req <= Len(Transport(r))
         /\ r.at \in InLine => r.req = 1
         /\ r.at = "subsystem" => r.on # NoConnection
         /\ r.try = 2 => r.retried
         /\ r.at = "answered" /\ r.kind = "write" => r.answer # "not_found"

\* Requests of the present attempt that the server has carried out.
Done(r) == IF r.at = "answered" /\ r.answer = "ok" THEN r.req ELSE r.req - 1

\* What a call in flight has changed: nothing before its last transport call,
\* then one change for each request, over again in a second attempt.
ChangesCounted(r) ==
    r.at \in InFlight =>
        IF r.kind \in Mutations /\ LastStep(r)
        THEN /\ Done(r) <= r.did
             /\ r.did <= IF r.try = 2 THEN Len(Transport(r)) + Done(r) ELSE Done(r)
        ELSE r.did = 0

\* The same of a call that is over.
Accounted(r) ==
    r.at = "ended" /\ r.kind \in Mutations =>
        /\ r.answer = "ok" => r.did > 0
        /\ r.answer = "not_found" /\ r.did > 0 => r.retried
        /\ r.did > Len(Last(Script[r.kind])) => r.retried
        /\ r.did <= 2 * Len(Last(Script[r.kind]))

\* Nothing that changes the remote file passes a read-only connector.
Refused(r) ==
    connector.readOnly /\ r.kind \in Mutations => r.at \notin InFlight /\ r.did = 0

InOrder(r) == InScript(r) /\ ChangesCounted(r) /\ Accounted(r) /\ Refused(r)

CallsFollowTheirScripts == \A c \in Calls : InOrder(call[c])

\* A writer whose file is still half-written, as far as it can know.
Tearing(r) ==
    /\ r.kind = "write" /\ r.did > 0
    /\ r.at = "ended" => r.answer # "ok"
    /\ ~(r.at = "answered" /\ r.req = 2 /\ r.answer = "ok")

TornByAWriter == remote = "torn" => \E c \in Calls : Tearing(call[c])

\* Up to the first reset nobody has started over; after it the call that reset
\* last has a connection that nothing will take from it.
Spared(r) == r.retried /\ r.answer # "lost" /\ (r.at \in OnWire => r.on \in live)

OneDropIsSurvived ==
    /\ losses = 0 =>
          /\ current \in live \cup {NoConnection}
          /\ \A c \in Calls : call[c].at \in OnWire => call[c].on \in live
    /\ losses <= 1 =>
          \/ \A c \in Calls : ~call[c].retried /\ call[c].answer # "lost"
          \/ /\ losses = 1 /\ current \in live \cup {NoConnection}
             /\ \E c \in Calls : Spared(call[c])

StorageInv ==
    /\ TypeOK
    /\ LockIsFair
    /\ OneConnection
    /\ DeadStayDead
    /\ CallsFollowTheirScripts
    /\ TornByAWriter
    /\ OneDropIsSurvived

-----------------------------------------------------------------------------
(* The scripts of the tools.                                               *)

Tools == {"list", "stat", "read", "write", "delete", "move"}

LEMMA ToolNames == DOMAIN Script = Tools
BY DEF Script, Tools

\* Every transport call but the last is one request that changes nothing; the
\* last is the operation, and it takes effect just for the mutations.
LEMMA ScriptsContainFirst ==
    ASSUME NEW k \in Tools
    PROVE  /\ Len(Script[k]) \in 2 .. 3
           /\ \A i \in 1 .. Len(Script[k]) : i < Len(Script[k]) =>
                  \/ Script[k][i] = <<"realpath">>
                  \/ Script[k][i] = <<"size">> /\ k = "read"
           /\ Len(Last(Script[k])) \in 1 .. 2
           /\ k # "write" => \A j \in 1 .. Len(Last(Script[k])) :
                                Last(Script[k])[j] \notin {"truncate", "fill"}
           /\ k = "write" => Last(Script[k]) = <<"truncate", "fill">>
           /\ k \in {"delete", "move"} => Len(Last(Script[k])) = 1
           /\ \A j \in 1 .. Len(Last(Script[k])) : Last(Script[k])[j] \in Takes <=> k \in Mutations
<1> USE DEF Last, Takes, Mutations
<1>1. CASE k = "list"
  <2>1. Script[k] = <<<<"realpath">>, <<"readdir">>>>
    BY <1>1 DEF Script, Contain, ListScript
  <2>2. Len(Script[k]) = 2 /\ Script[k][1] = <<"realpath">> /\ Script[k][2] = <<"readdir">>
        /\ Len(Script[k][2]) = 1
    BY <2>1
  <2>3. Last(Script[k]) = Script[k][2]
    BY <2>2
  <2>4. \A i \in 1 .. 2 : i < 2 => i = 1
    OBVIOUS
  <2> QED
    BY <1>1, <2>2, <2>3, <2>4
<1>2. CASE k = "stat"
  <2>1. Script[k] = <<<<"realpath">>, <<"stat">>>>
    BY <1>2 DEF Script, Contain, StatScript
  <2>2. Len(Script[k]) = 2 /\ Script[k][1] = <<"realpath">> /\ Script[k][2] = <<"stat">>
        /\ Len(Script[k][2]) = 1
    BY <2>1
  <2>3. Last(Script[k]) = Script[k][2]
    BY <2>2
  <2>4. \A i \in 1 .. 2 : i < 2 => i = 1
    OBVIOUS
  <2> QED
    BY <1>2, <2>2, <2>3, <2>4
<1>3. CASE k = "read"
  <2>1. Script[k] = <<<<"realpath">>, <<"size">>, <<"read">>>>
    BY <1>3 DEF Script, Contain, ReadScript
  <2>2. Len(Script[k]) = 3 /\ Script[k][1] = <<"realpath">> /\ Script[k][2] = <<"size">> /\ Script[k][3] = <<"read">>
        /\ Len(Script[k][3]) = 1
    BY <2>1
  <2>3. Last(Script[k]) = Script[k][3]
    BY <2>2
  <2>4. \A i \in 1 .. 3 : i < 3 => i = 1 \/ i = 2
    OBVIOUS
  <2> QED
    BY <1>3, <2>2, <2>3, <2>4
<1>4. CASE k = "write"
  <2>1. Script[k] = <<<<"realpath">>, <<"truncate", "fill">>>>
    BY <1>4 DEF Script, Contain, WriteScript
  <2>2. Len(Script[k]) = 2 /\ Script[k][1] = <<"realpath">> /\ Script[k][2] = <<"truncate", "fill">>
        /\ Len(Script[k][2]) = 2
    BY <2>1
  <2>3. Last(Script[k]) = Script[k][2]
    BY <2>2
  <2>4. \A i \in 1 .. 2 : i < 2 => i = 1
    OBVIOUS
  <2> QED
    BY <1>4, <2>2, <2>3, <2>4
<1>5. CASE k = "delete"
  <2>1. Script[k] = <<<<"realpath">>, <<"remove">>>>
    BY <1>5 DEF Script, Contain, DeleteScript
  <2>2. Len(Script[k]) = 2 /\ Script[k][1] = <<"realpath">> /\ Script[k][2] = <<"remove">>
        /\ Len(Script[k][2]) = 1
    BY <2>1
  <2>3. Last(Script[k]) = Script[k][2]
    BY <2>2
  <2>4. \A i \in 1 .. 2 : i < 2 => i = 1
    OBVIOUS
  <2> QED
    BY <1>5, <2>2, <2>3, <2>4
<1>6. CASE k = "move"
  <2>1. Script[k] = <<<<"realpath">>, <<"realpath">>, <<"rename">>>>
    BY <1>6 DEF Script, Contain, MoveScript
  <2>2. Len(Script[k]) = 3 /\ Script[k][1] = <<"realpath">> /\ Script[k][2] = <<"realpath">> /\ Script[k][3] = <<"rename">>
        /\ Len(Script[k][3]) = 1
    BY <2>1
  <2>3. Last(Script[k]) = Script[k][3]
    BY <2>2
  <2>4. \A i \in 1 .. 3 : i < 3 => i = 1 \/ i = 2
    OBVIOUS
  <2> QED
    BY <1>6, <2>2, <2>3, <2>4
<1> QED
  BY <1>1, <1>2, <1>3, <1>4, <1>5, <1>6 DEF Tools

\* The same of the transport call that a record is in.
LEMMA TransportFacts ==
    ASSUME NEW r \in CallRecords, r.step <= Len(Script[r.kind])
    PROVE  /\ Len(Transport(r)) \in 1 .. 2
           /\ LastStep(r) => Transport(r) = Last(Script[r.kind])
           /\ ~LastStep(r) => \/ Transport(r) = <<"realpath">>
                              \/ Transport(r) = <<"size">> /\ r.kind = "read"
           /\ Len(Script[r.kind]) \in 2 .. 3
           /\ r.kind \in Tools
<1>1. r.kind \in Tools /\ r.step \in 1 .. 3
  BY ToolNames DEF CallRecords
<1>2. /\ Len(Script[r.kind]) \in 2 .. 3
      /\ \A i \in 1 .. Len(Script[r.kind]) :
            i < Len(Script[r.kind]) => \/ Script[r.kind][i] = <<"realpath">>
                                       \/ Script[r.kind][i] = <<"size">> /\ r.kind = "read"
      /\ Len(Last(Script[r.kind])) \in 1 .. 2
  BY <1>1, ScriptsContainFirst
<1>3. LastStep(r) => Transport(r) = Last(Script[r.kind])
  BY DEF LastStep, Transport, Last
<1>4. ~LastStep(r) => \/ Transport(r) = <<"realpath">>
                      \/ Transport(r) = <<"size">> /\ r.kind = "read"
  BY <1>1, <1>2 DEF LastStep, Transport
<1>5. Len(<<"realpath">>) = 1 /\ Len(<<"size">>) = 1
  OBVIOUS
<1> QED
  BY <1>1, <1>2, <1>3, <1>4, <1>5

\* What the server may answer, and what it leaves of the file.
LEMMA AnswersAre ==
    ASSUME remote \in {"absent", "torn", "whole"}, NEW q, NEW a \in Answers(q)
    PROVE  /\ a[1] \in {"ok", "access", "not_found", "too_large", "unavailable"}
           /\ a[2] \in {"absent", "torn", "whole"}
           /\ q = "realpath" => a[1] # "not_found" /\ a[2] = remote
           /\ q \in {"truncate", "fill"} => a[1] # "not_found"
           /\ q = "fill" /\ a[1] = "ok" => a[2] = "whole"
           /\ a[2] = "torn" => remote = "torn" \/ q = "fill" \/ (q = "truncate" /\ a[1] = "ok")
<1>1. CASE q = "realpath"
  <2>1. Answers(q) = {<<"ok", remote>>, <<"access", remote>>}
    BY <1>1 DEF Answers
  <2> QED
    BY <1>1, <2>1
<1>2. CASE q = "truncate"
  <2>1. Answers(q) = {<<"ok", "torn">>, <<"access", remote>>}
    BY <1>2 DEF Answers
  <2> QED
    BY <1>2, <2>1
<1>3. CASE q = "fill"
  <2>1. Answers(q) = {<<"ok", "whole">>, <<"unavailable", "torn">>}
    BY <1>3 DEF Answers
  <2> QED
    BY <1>3, <2>1
<1>4. CASE q \notin {"realpath", "truncate", "fill"}
  <2>1. Answers(q) = IF remote = "absent" THEN {<<"not_found", remote>>} ELSE Found(q)
    BY <1>4 DEF Answers
  <2>2. \/ Found(q) = {<<"ok", "absent">>, <<"access", remote>>}
        \/ Found(q) = {<<"ok", remote>>, <<"too_large", remote>>}
        \/ Found(q) = {<<"ok", remote>>}
    BY DEF Found
  <2> QED
    BY <1>4, <2>1, <2>2
<1> QED
  BY <1>1, <1>2, <1>3, <1>4

-----------------------------------------------------------------------------
(* The record of one call.                                                 *)

Answered == {"none", "ok", "access", "not_found", "too_large", "unavailable",
             "lost", "cancelled", "read_only", "refused"}

\* The records, with the bounds of their fields written out.
LEMMA RecordsAre ==
    /\ CallRecords =
        [ kind : Tools, step : 1 .. 3, req : 1 .. 2, try : 1 .. 2,
          at : {"queued", "dialling", "subsystem", "sent", "answered", "idle", "ended"},
          on : 0 .. MaxConnections, died : 0 .. MaxConnections,
          answer : Answered, did : Nat, retried : BOOLEAN ]
    /\ NoConnection = 0 /\ 0 \in 0 .. MaxConnections
<1>1. Connections \cup {NoConnection} = 0 .. MaxConnections
  BY ConnectionsBound DEF Connections, NoConnection
<1>2. InFlight \cup {"idle", "ended"} =
         {"queued", "dialling", "subsystem", "sent", "answered", "idle", "ended"}
  BY DEF InFlight
<1> QED
  BY <1>1, <1>2, ToolNames, ConnectionsBound DEF CallRecords, Answered, NoConnection

LEMMA IdleIs == Idle \in CallRecords
<1>1. Idle = [kind |-> "list", step |-> 1, req |-> 1, try |-> 1, at |-> "idle",
              on |-> 0, died |-> 0, answer |-> "none", did |-> 0, retried |-> FALSE]
  BY DEF Idle, NoConnection
<1> QED
  BY <1>1, RecordsAre DEF Answered, Tools

\* A reply ends a call, whatever it was doing.
LEMMA EndedIs ==
    ASSUME NEW r \in CallRecords, NEW reply \in Answered
    PROVE  /\ Ended(r, reply) \in CallRecords
           /\ Ended(r, reply).at = "ended" /\ Ended(r, reply).answer = reply
           /\ Ended(r, reply).kind = r.kind /\ Ended(r, reply).did = r.did
           /\ Ended(r, reply).retried = r.retried
<1>1. r.kind \in Tools /\ r.did \in Nat /\ r.retried \in BOOLEAN
  BY RecordsAre
<1> QED
  BY <1>1, IdleIs, RecordsAre DEF Ended

LEMMA IdleInOrder ==
    ASSUME NEW k \in DOMAIN Script
    PROVE  /\ Idle \in CallRecords /\ InOrder(Idle)
           /\ [Idle EXCEPT !.kind = k] \in CallRecords
           /\ Ended([Idle EXCEPT !.kind = k], "read_only") \in CallRecords
           /\ InOrder(Ended([Idle EXCEPT !.kind = k], "read_only"))
           /\ Ended([Idle EXCEPT !.kind = k], "refused") \in CallRecords
           /\ InOrder(Ended([Idle EXCEPT !.kind = k], "refused"))
<1>1. k \in Tools /\ "list" \in Tools /\ Len(Last(Script[k])) \in 1 .. 2
  BY ToolNames, ScriptsContainFirst DEF Tools
<1>2. Idle \in CallRecords /\ [Idle EXCEPT !.kind = k] \in CallRecords
  BY <1>1, IdleIs, RecordsAre
<1> DEFINE E(reply) == Ended([Idle EXCEPT !.kind = k], reply)
<1>3. ASSUME NEW reply \in {"read_only", "refused"}
      PROVE  /\ E(reply) \in CallRecords
             /\ E(reply).at = "ended" /\ E(reply).did = 0 /\ E(reply).answer = reply
             /\ E(reply).kind = k
  <2>1. [Idle EXCEPT !.kind = k].did = 0 /\ [Idle EXCEPT !.kind = k].kind = k
    BY DEF Idle
  <2>2. reply \in Answered
    BY <1>3 DEF Answered
  <2> QED
    BY <1>2, <2>1, <2>2, EndedIs
<1>4. ASSUME NEW reply \in {"read_only", "refused"}
      PROVE  InOrder(E(reply))
  BY <1>1, <1>3 DEF InOrder, InScript, ChangesCounted, Accounted, Refused, InFlight
<1>5. InOrder(Idle)
  BY DEF Idle, InOrder, InScript, ChangesCounted, Accounted, Refused, InFlight, Mutations
<1> QED
  BY <1>2, <1>3, <1>4, <1>5

\* The bound on what a call in flight has changed.
LEMMA ChangesBounded ==
    ASSUME NEW r \in CallRecords, InOrder(r), r.at \in InFlight
    PROVE  /\ r.kind \in Tools
           /\ Len(Last(Script[r.kind])) \in 1 .. 2
           /\ r.did <= 2 * Len(Last(Script[r.kind]))
           /\ r.kind \in Mutations /\ r.did > Len(Last(Script[r.kind])) => r.retried
           /\ r.kind \in Mutations /\ r.answer = "not_found" /\ r.at = "answered" /\ r.did > 0
                => r.retried
<1>1. r.kind \in Tools /\ Len(Last(Script[r.kind])) \in 1 .. 2
  BY ToolNames, ScriptsContainFirst DEF CallRecords
<1>2. Len(Transport(r)) \in 1 .. 2 /\ r.req \in 1 .. Len(Transport(r))
  BY TransportFacts DEF InOrder, InScript, CallRecords
<1>3. CASE r.kind \in Mutations /\ LastStep(r)
  <2>1. Transport(r) = Last(Script[r.kind])
    BY <1>3, TransportFacts DEF InOrder, InScript
  <2>2. Done(r) \in 0 .. Len(Transport(r))
    BY <1>2 DEF Done
  <2>3. /\ r.did \in Nat
        /\ r.did <= IF r.try = 2 THEN Len(Transport(r)) + Done(r) ELSE Done(r)
        /\ r.try = 2 => r.retried
    BY <1>3 DEF InOrder, InScript, ChangesCounted, CallRecords
  <2>4. ASSUME r.answer = "not_found", r.at = "answered"
        PROVE  Done(r) = 0
    <3>1. r.kind # "write"
      BY <2>4 DEF InOrder, InScript
    <3>2. Len(Transport(r)) = 1
      BY <1>1, <1>3, <2>1, <3>1, ScriptsContainFirst DEF Mutations
    <3> QED
      BY <1>2, <2>4, <3>2 DEF Done
  <2> QED
    BY <1>1, <1>2, <2>1, <2>2, <2>3, <2>4
<1>4. CASE ~(r.kind \in Mutations /\ LastStep(r))
  BY <1>1, <1>4 DEF InOrder, ChangesCounted
<1> QED
  BY <1>1, <1>3, <1>4

LEMMA EndedInOrder ==
    ASSUME NEW r \in CallRecords, InOrder(r), r.at \in InFlight, NEW reply \in Answered,
           reply = "ok" => /\ r.at = "answered" /\ r.answer = "ok" /\ LastStep(r)
                           /\ r.req = Len(Transport(r)),
           reply = "not_found" => r.at = "answered" /\ r.answer = "not_found"
    PROVE  Ended(r, reply) \in CallRecords /\ InOrder(Ended(r, reply))
<1> DEFINE e == Ended(r, reply)
<1>1. /\ e \in CallRecords /\ e.at = "ended" /\ e.kind = r.kind /\ e.answer = reply
      /\ e.did = r.did /\ e.retried = r.retried
  BY EndedIs
<1>2. ASSUME reply = "ok", r.kind \in Mutations
      PROVE  r.did > 0
  <2>1. Done(r) = r.req /\ r.req \in 1 .. 2 /\ Done(r) <= r.did /\ r.did \in Nat
    BY <1>2 DEF InOrder, ChangesCounted, Done, CallRecords
  <2> QED
    BY <2>1
<1>3. Accounted(e)
  BY <1>1, <1>2, ChangesBounded DEF Accounted
<1>4. Refused(e)
  BY <1>1 DEF InOrder, Refused, InFlight
<1>5. InScript(e) /\ ChangesCounted(e)
  BY <1>1 DEF InScript, ChangesCounted, InFlight
<1> QED
  BY <1>1, <1>3, <1>4, <1>5 DEF InOrder

\* A record about to make its next transport call.
Starts(r) ==
    /\ r \in CallRecords
    /\ r.step <= Len(Script[r.kind]) /\ r.req = 1
    /\ r.try = 2 => r.retried
    /\ IF r.kind \in Mutations /\ LastStep(r)
       THEN r.did <= IF r.try = 2 THEN Len(Transport(r)) ELSE 0
       ELSE r.did = 0
    /\ connector.readOnly => r.kind \notin Mutations

\* It is at _ensure, or has the client that _ensure gave it.
LEMMA EnsuredInOrder ==
    ASSUME NEW r, Starts(r), NEW e \in CallRecords,
           e.kind = r.kind, e.step = r.step, e.req = r.req, e.try = r.try,
           e.did = r.did, e.retried = r.retried,
           e.at \in {"sent", "queued", "dialling", "subsystem"},
           e.at = "subsystem" => e.on # NoConnection
    PROVE  InOrder(e)
<1>1. Transport(e) = Transport(r) /\ (LastStep(e) <=> LastStep(r))
  BY DEF Transport, LastStep
<1>2. Len(Transport(r)) \in 1 .. 2
  BY TransportFacts DEF Starts
<1>3. Done(e) = 0
  BY DEF Done, Starts
<1>4. InScript(e)
  <2>1. e.at # "idle" /\ e.at # "answered"
    OBVIOUS
  <2>2. e.step <= Len(Script[e.kind]) /\ e.req = 1 /\ (e.try = 2 => e.retried)
    BY DEF Starts
  <2>3. 1 <= Len(Transport(e))
    <3>1. Len(Transport(e)) = Len(Transport(r))
      BY <1>1
    <3> QED
      BY ONLY <3>1, <1>2
  <2> QED
    BY <2>1, <2>2, <2>3 DEF InScript
<1>5. r.did \in Nat
  BY DEF Starts, CallRecords
<1>6. ChangesCounted(e)
  BY <1>1, <1>2, <1>3, <1>5 DEF ChangesCounted, Starts
<1>7. Accounted(e) /\ Refused(e)
  BY DEF Accounted, Refused, Starts
<1> QED
  BY <1>4, <1>6, <1>7 DEF InOrder

\* A call in line is about to make a transport call.
LEMMA InLineStarts ==
    ASSUME NEW r \in CallRecords, InOrder(r), r.at \in InLine
    PROVE  Starts(r)
<1>1. /\ r.at \in InFlight /\ r.at # "answered"
      /\ r.step <= Len(Script[r.kind]) /\ r.req = 1 /\ (r.try = 2 => r.retried)
  BY DEF InOrder, InScript, InLine, InFlight
<1>2. Done(r) = 0 /\ r.did \in Nat
  BY <1>1, RecordsAre DEF Done
<1>3. Len(Transport(r)) \in 1 .. 2
  BY <1>1, TransportFacts
<1>4. connector.readOnly => r.kind \notin Mutations
  BY <1>1 DEF InOrder, Refused
<1>5. CASE r.kind \in Mutations /\ LastStep(r)
  <2>1. r.did <= IF r.try = 2 THEN Len(Transport(r)) + Done(r) ELSE Done(r)
    BY <1>1, <1>5 DEF InOrder, ChangesCounted
  <2> QED
    BY <1>1, <1>2, <1>3, <1>4, <1>5, <2>1 DEF Starts
<1>6. CASE ~(r.kind \in Mutations /\ LastStep(r))
  <2>1. r.did = 0
    BY <1>1, <1>6 DEF InOrder, ChangesCounted
  <2> QED
    BY <1>1, <1>4, <1>6, <2>1 DEF Starts
<1> QED
  BY <1>5, <1>6

-----------------------------------------------------------------------------
(* The conjuncts of the invariant, each with what an action must keep.     *)

\* A step that changes the record of one call.
LEMMA OneCallChanges ==
    ASSUME TypeOK, CallsFollowTheirScripts, NEW c \in Calls, NEW r \in CallRecords, InOrder(r),
           call' = [call EXCEPT ![c] = r], connector'.readOnly = connector.readOnly
    PROVE  /\ call' \in [Calls -> CallRecords] /\ CallsFollowTheirScripts'
           /\ call'[c] = r /\ \A d \in Calls : d # c => call'[d] = call[d]
<1>1. call \in [Calls -> CallRecords]
  BY DEF TypeOK
<1>2. /\ call' \in [Calls -> CallRecords] /\ call'[c] = r
      /\ \A d \in Calls : d # c => call'[d] = call[d]
  BY <1>1
<1>3. ASSUME NEW d \in Calls, InOrder(call[d]), call'[d] = call[d]
      PROVE  InOrder(call[d])'
  BY <1>3 DEF InOrder, InScript, ChangesCounted, Accounted, Refused, LastStep, Done,
              Transport
<1>4. InOrder(call[c])'
  BY <1>2 DEF InOrder, InScript, ChangesCounted, Accounted, Refused, LastStep, Done, Transport
<1> QED
  BY <1>2, <1>3, <1>4 DEF CallsFollowTheirScripts

\* The queue stays: nobody comes or goes.
LEMMA LineStays ==
    ASSUME LockIsFair, queue' = queue,
           \A d \in Calls : call'[d].at \in InLine <=> call[d].at \in InLine,
           \A d \in Calls : call'[d].at \in {"dialling", "subsystem"} =>
                                HoldsLock(d) /\ current' = NoConnection
    PROVE  LockIsFair'
BY DEF LockIsFair, HoldsLock

\* A call joins the queue at its end; it dials only when it is alone.
LEMMA LineGrows ==
    ASSUME TypeOK, LockIsFair, NEW c \in Calls, call[c].at \notin InLine,
           queue' = Append(queue, c), current' = NoConnection,
           call'[c].at = IF queue = <<>> THEN "dialling" ELSE "queued",
           \A d \in Calls : d # c => call'[d] = call[d]
    PROVE  LockIsFair' /\ queue' \in Seq(Calls)
<1> DEFINE n == Len(queue)
<1>1. n \in Nat /\ \A i \in 1 .. n : queue[i] \in Calls
  BY LenProperties, ElementOfSeq DEF TypeOK
<1>2. /\ queue' \in Seq(Calls) /\ Len(queue') = n + 1 /\ queue'[n + 1] = c
      /\ \A i \in 1 .. n : queue'[i] = queue[i]
  BY AppendProperties DEF TypeOK
<1>3. /\ \A i, j \in 1 .. n : queue[i] = queue[j] => i = j
      /\ \A d \in Calls : call[d].at \in InLine <=> \E i \in 1 .. n : queue[i] = d
      /\ \A d \in Calls : call[d].at \in {"dialling", "subsystem"} => HoldsLock(d)
  BY DEF LockIsFair
<1>4. \A i \in 1 .. n : queue[i] # c
  BY <1>3
<1>5. \A i \in 1 .. n + 1 : i = n + 1 \/ i \in 1 .. n
  BY <1>1
<1>6. \A i, j \in 1 .. n + 1 : queue'[i] = queue'[j] => i = j
  BY <1>2, <1>3, <1>4, <1>5
<1>7. call'[c].at \in InLine
  BY DEF InLine
<1>8. \A d \in Calls : call'[d].at \in InLine <=> \E i \in 1 .. n + 1 : queue'[i] = d
  <2> TAKE d \in Calls
  <2>1. CASE d = c
    <3>1. n + 1 \in 1 .. n + 1
      BY <1>1
    <3> QED
      BY <1>2, <1>7, <2>1, <3>1
  <2>2. CASE d # c
    <3>1. 1 .. n \subseteq 1 .. n + 1
      BY <1>1
    <3>2. call'[d] = call[d]
      BY <2>2
    <3>3. (\E i \in 1 .. n : queue[i] = d) <=> \E i \in 1 .. n + 1 : queue'[i] = d
      BY <1>2, <1>5, <2>2, <3>1
    <3> QED
      BY <1>3, <3>2, <3>3
  <2> QED
    BY <2>1, <2>2
<1>9. ASSUME NEW d \in Calls, call'[d].at \in {"dialling", "subsystem"}
      PROVE  HoldsLock(d)'
  <2>1. Head(queue') = IF queue = <<>> THEN c ELSE Head(queue)
    BY HeadTailAppend DEF TypeOK
  <2>2. queue' # <<>>
    BY AppendProperties DEF TypeOK
  <2>3. CASE d = c
    BY <1>9, <2>1, <2>2, <2>3 DEF HoldsLock
  <2>4. CASE d # c
    BY <1>3, <1>9, <2>1, <2>2, <2>4 DEF HoldsLock
  <2> QED
    BY <2>3, <2>4
<1> QED
  BY <1>2, <1>6, <1>8, <1>9 DEF LockIsFair

\* What is left of a queue when the entry at one place goes.
LEMMA RemoveAtIs ==
    ASSUME NEW S, NEW q \in Seq(S), NEW i \in 1 .. Len(q)
    PROVE  /\ RemoveAt(q, i) \in Seq(S) /\ Len(RemoveAt(q, i)) = Len(q) - 1
           /\ \A j \in 1 .. Len(q) - 1 : RemoveAt(q, i)[j] = IF j < i THEN q[j] ELSE q[j + 1]
<1> DEFINE a == SubSeq(q, 1, i - 1)
           b == SubSeq(q, i + 1, Len(q))
<1>1. Len(q) \in Nat /\ \A j \in 1 .. Len(q) : q[j] \in S
  BY LenProperties, ElementOfSeq
<1>2. a \in Seq(S) /\ Len(a) = i - 1 /\ \A j \in 1 .. i - 1 : a[j] = q[j]
  <2>1. \A j \in 1 .. i - 1 : q[j] \in S
    BY <1>1
  <2>2. /\ a \in Seq(S) /\ Len(a) = IF 1 <= i - 1 THEN (i - 1) - 1 + 1 ELSE 0
        /\ \A j \in 1 .. (i - 1) - 1 + 1 : a[j] = q[1 + j - 1]
    BY <1>1, <2>1, SubSeqProperties
  <2> QED
    BY <1>1, <2>2
<1>3. b \in Seq(S) /\ Len(b) = Len(q) - i /\ \A j \in 1 .. Len(q) - i : b[j] = q[i + j]
  <2>1. \A j \in i + 1 .. Len(q) : q[j] \in S
    BY <1>1
  <2>2. /\ b \in Seq(S) /\ Len(b) = IF i + 1 <= Len(q) THEN Len(q) - (i + 1) + 1 ELSE 0
        /\ \A j \in 1 .. Len(q) - (i + 1) + 1 : b[j] = q[(i + 1) + j - 1]
    BY <1>1, <2>1, SubSeqProperties
  <2> QED
    BY <1>1, <2>2
<1>4. /\ a \o b \in Seq(S) /\ Len(a \o b) = Len(a) + Len(b)
      /\ \A j \in 1 .. Len(a) + Len(b) : (a \o b)[j] = IF j <= Len(a) THEN a[j] ELSE b[j - Len(a)]
  BY <1>2, <1>3, ConcatProperties
<1>5. RemoveAt(q, i) = a \o b
  BY DEF RemoveAt
<1> HIDE DEF a, b
<1>6. ASSUME NEW j \in 1 .. Len(q) - 1
      PROVE  (a \o b)[j] = IF j < i THEN q[j] ELSE q[j + 1]
  <2>1. j \in 1 .. Len(a) + Len(b)
    BY <1>1, <1>2, <1>3
  <2>2. CASE j < i
    BY <1>1, <1>2, <1>4, <2>1, <2>2
  <2>3. CASE ~(j < i)
    <3>1. (a \o b)[j] = b[j - (i - 1)] /\ j - (i - 1) \in 1 .. Len(q) - i
      BY <1>1, <1>2, <1>4, <2>1, <2>3
    <3>2. b[j - (i - 1)] = q[i + (j - (i - 1))] /\ i + (j - (i - 1)) = j + 1
      BY <1>1, <1>3, <3>1
    <3> QED
      BY <2>3, <3>1, <3>2
  <2> QED
    BY <2>2, <2>3
<1>7. Len(a) + Len(b) = Len(q) - 1
  BY <1>1, <1>2, <1>3
<1> QED
  BY <1>4, <1>5, <1>6, <1>7

\* A call leaves the queue, from its head or from within.
LEMMA LineShrinks ==
    ASSUME TypeOK, LockIsFair, NEW c \in Calls, NEW i \in 1 .. Len(queue), queue[i] = c,
           queue' \in Seq(Calls), Len(queue') = Len(queue) - 1,
           \A j \in 1 .. Len(queue) - 1 : queue'[j] = IF j < i THEN queue[j] ELSE queue[j + 1],
           call'[c].at \notin InLine,
           \A d \in Calls : d # c => call'[d] = call[d],
           i = 1 \/ current' = current
    PROVE  LockIsFair'
<1> DEFINE n == Len(queue)
<1>1. n \in Nat /\ \A j \in 1 .. n : queue[j] \in Calls
  BY LenProperties, ElementOfSeq DEF TypeOK
<1>2. /\ \A j, k \in 1 .. n : queue[j] = queue[k] => j = k
      /\ \A d \in Calls : call[d].at \in InLine <=> \E j \in 1 .. n : queue[j] = d
      /\ \A d \in Calls : call[d].at \in {"dialling", "subsystem"}
                                => HoldsLock(d) /\ current = NoConnection
  BY DEF LockIsFair
<1>3. \A j, k \in 1 .. n - 1 : queue'[j] = queue'[k] => j = k
  <2> SUFFICES ASSUME NEW j \in 1 .. n - 1, NEW k \in 1 .. n - 1, queue'[j] = queue'[k]
               PROVE  j = k
    OBVIOUS
  <2> DEFINE m(x) == IF x < i THEN x ELSE x + 1
  <2>1. m(j) \in 1 .. n /\ m(k) \in 1 .. n
    BY <1>1
  <2>2. queue'[j] = queue[m(j)] /\ queue'[k] = queue[m(k)]
    OBVIOUS
  <2>3. m(j) = m(k) => j = k
    BY <1>1
  <2> HIDE DEF m
  <2>4. \A x, y \in 1 .. n : queue[x] = queue[y] => x = y
    BY <1>2
  <2>5. queue[m(j)] = queue[m(k)]
    BY <2>2
  <2>6. m(j) = m(k)
    BY ONLY <2>1, <2>4, <2>5
  <2> QED
    BY <2>3, <2>6
<1>4. ASSUME NEW d \in Calls
      PROVE  call'[d].at \in InLine <=> \E j \in 1 .. n - 1 : queue'[j] = d
  <2>1. CASE d = c
    <3>1. ASSUME NEW j \in 1 .. n - 1, queue'[j] = c
          PROVE  FALSE
      <4>1. CASE j < i
        <5>1. j \in 1 .. n /\ queue[j] = c
          BY <1>1, <3>1, <4>1
        <5>2. j = i
          BY <1>2, <5>1
        <5> QED
          BY <1>1, <4>1, <5>2
      <4>2. CASE ~(j < i)
        <5>1. j + 1 \in 1 .. n /\ queue[j + 1] = c
          BY <1>1, <3>1, <4>2
        <5>2. j + 1 = i
          BY <1>2, <5>1
        <5> QED
          BY <1>1, <4>2, <5>2
      <4> QED
        BY <4>1, <4>2
    <3> QED
      BY <2>1, <3>1
  <2>2. CASE d # c
    <3>1. ASSUME NEW j \in 1 .. n, queue[j] = d
          PROVE  \E k \in 1 .. n - 1 : queue'[k] = d
      <4>1. j # i
        BY <2>2, <3>1
      <4>2. CASE j < i
        <5>1. j \in 1 .. n - 1 /\ queue'[j] = d
          BY <1>1, <3>1, <4>2
        <5> QED
          BY <5>1
      <4>3. CASE j > i
        <5>1. j - 1 \in 1 .. n - 1 /\ ~(j - 1 < i) /\ (j - 1) + 1 = j
          BY <1>1, <4>3
        <5>2. queue'[j - 1] = queue[(j - 1) + 1]
          BY <5>1
        <5> QED
          BY <3>1, <5>1, <5>2
      <4> QED
        BY <1>1, <4>1, <4>2, <4>3
    <3>2. ASSUME NEW k \in 1 .. n - 1, queue'[k] = d
          PROVE  \E j \in 1 .. n : queue[j] = d
      <4>1. k \in 1 .. n /\ k + 1 \in 1 .. n
        BY <1>1
      <4> QED
        BY <3>2, <4>1
    <3>3. call'[d] = call[d]
      BY <2>2
    <3> QED
      BY <1>2, <3>1, <3>2, <3>3
  <2> QED
    BY <2>1, <2>2
<1>5. ASSUME NEW d \in Calls, call'[d].at \in {"dialling", "subsystem"}
      PROVE  HoldsLock(d)' /\ current' = NoConnection
  <2>1. d # c /\ call'[d] = call[d]
    BY <1>5 DEF InLine
  <2>2. Head(queue) = d /\ queue # <<>> /\ current = NoConnection
    BY <1>2, <1>5, <2>1 DEF HoldsLock
  <2>3. n > 0 /\ queue[1] = d
    BY <1>1, <2>2, EmptySeq DEF TypeOK
  <2>4. i # 1
    BY <2>1, <2>3
  <2>5. 1 \in 1 .. n - 1 /\ 1 < i
    BY <1>1, <2>4
  <2>6. queue'[1] = d
    BY <2>3, <2>5
  <2>7. queue' # <<>>
    BY <1>1, <2>5, EmptySeq
  <2> QED
    BY <2>2, <2>4, <2>6, <2>7 DEF HoldsLock
<1> QED
  BY <1>3, <1>4, <1>5 DEF LockIsFair

\* The holder passes the lock on.
LEMMA HeadLeaves ==
    ASSUME TypeOK, LockIsFair, NEW c \in Calls, HoldsLock(c), queue' = Tail(queue),
           call'[c].at \notin InLine, \A d \in Calls : d # c => call'[d] = call[d]
    PROVE  LockIsFair' /\ queue' \in Seq(Calls)
<1>1. Len(queue) \in Nat /\ queue # <<>> /\ queue[1] = c /\ Len(queue) > 0
  BY LenProperties, EmptySeq DEF TypeOK, HoldsLock
<1>2. /\ queue' \in Seq(Calls) /\ Len(queue') = Len(queue) - 1
      /\ \A j \in 1 .. Len(queue) - 1 : queue'[j] = queue[j + 1]
  BY <1>1, HeadTailProperties DEF TypeOK
<1>3. 1 \in 1 .. Len(queue) /\ \A j \in 1 .. Len(queue) - 1 : ~(j < 1)
  BY <1>1
<1> QED
  BY <1>1, <1>2, <1>3, LineShrinks

\* A call that is over is in the queue no more.
LEMMA LineReleased ==
    ASSUME TypeOK, LockIsFair, NEW c \in Calls, queue' = ReleaseLock(c), current' = current,
           call'[c].at \notin InLine, \A d \in Calls : d # c => call'[d] = call[d]
    PROVE  LockIsFair' /\ queue' \in Seq(Calls)
<1>1. CASE \E i \in 1 .. Len(queue) : queue[i] = c
  <2> DEFINE i == CHOOSE i \in 1 .. Len(queue) : queue[i] = c
  <2>1. i \in 1 .. Len(queue) /\ queue[i] = c
    BY <1>1
  <2>2. queue' = RemoveAt(queue, i)
    BY <1>1 DEF ReleaseLock
  <2> HIDE DEF i
  <2>3. /\ queue' \in Seq(Calls) /\ Len(queue') = Len(queue) - 1
        /\ \A j \in 1 .. Len(queue) - 1 : queue'[j] = IF j < i THEN queue[j] ELSE queue[j + 1]
    <3>1. queue \in Seq(Calls)
      BY DEF TypeOK
    <3> QED
      BY <2>1, <2>2, <3>1, RemoveAtIs
  <2> QED
    BY <2>1, <2>3, LineShrinks
<1>2. CASE ~\E i \in 1 .. Len(queue) : queue[i] = c
  <2>1. queue' = queue
    BY <1>2 DEF ReleaseLock
  <2>2. call[c].at \notin InLine
    BY <1>2 DEF LockIsFair
  <2>3. \A d \in Calls : call'[d].at \in InLine <=> call[d].at \in InLine
    BY <2>2
  <2>4. \A d \in Calls : call'[d].at \in {"dialling", "subsystem"} =>
                             HoldsLock(d) /\ current' = NoConnection
    BY DEF LockIsFair, InLine
  <2> QED
    BY <2>1, <2>3, <2>4, LineStays DEF TypeOK
<1> QED
  BY <1>1, <1>2

\* The open connections stay accounted for.
LEMMA OneConnectionKept ==
    ASSUME OneConnection, LockIsFair',
           current \in live' => current' = current, stranded \subseteq stranded',
           \A d \in Calls : call[d].at = "subsystem" =>
               \/ call'[d].at = "subsystem" /\ call'[d].on = call[d].on
               \/ call[d].on \in stranded' \/ call[d].on = current',
           \A n \in live' : \/ n \in live
                            \/ \E d \in Calls : call'[d].at = "subsystem" /\ call'[d].on = n
    PROVE  OneConnection'
<1>1. \A d \in Calls : call'[d].at = "subsystem" => HoldsLock(d)'
  BY DEF LockIsFair
<1> QED
  BY <1>1 DEF OneConnection

\* Only new connections are opened, and only the shared one is handed out.
LEMMA DeadKept ==
    ASSUME TypeOK, DeadStayDead, opened' \in Nat, opened <= opened', current' <= opened',
           \A n \in live' : n \in live \/ (n > opened /\ n <= opened'),
           \A d \in Calls :
              /\ call'[d].at \in InFlight => call'[d].on <= opened'
              /\ call'[d].at \in InFlight /\ call'[d].try = 2 =>
                    /\ call'[d].died \notin live' /\ call'[d].died <= opened'
                    /\ call'[d].at \in InLine /\ current' # NoConnection
                          => current' # call'[d].died
                    /\ call'[d].at \in OnWire => call'[d].on # call'[d].died
    PROVE  DeadStayDead'
<1>1. live \subseteq Int /\ opened \in Nat
  BY ConnectionsBound DEF TypeOK, Connections
<1>2. \A n \in live' : n <= opened'
  <2> SUFFICES ASSUME NEW n \in live'
               PROVE  n <= opened'
    OBVIOUS
  <2>1. n \in live => n <= opened /\ n \in Int
    BY <1>1 DEF DeadStayDead
  <2> QED
    BY <1>1, <2>1
<1> QED
  BY <1>2 DEF DeadStayDead

\* A half-written file keeps its writer.
LEMMA TornKept ==
    ASSUME TornByAWriter, remote' = remote,
           \A d \in Calls : Tearing(call[d]) => Tearing(call'[d])
    PROVE  TornByAWriter'
BY DEF TornByAWriter, Tearing

\* Steps that close nothing and fail nobody for a lost connection.
LEMMA DropKept ==
    ASSUME TypeOK, OneDropIsSurvived, losses' = losses, live \subseteq live',
           current' = current \/ current' \in live',
           \A d \in Calls :
              /\ call'[d].retried = call[d].retried
              /\ call[d].answer # "lost" => call'[d].answer # "lost"
              /\ call'[d].at \in OnWire =>
                    \/ call'[d].on \in live'
                    \/ call[d].at \in OnWire /\ call'[d].on = call[d].on
                    \/ call'[d].on = current /\ current # NoConnection
    PROVE  OneDropIsSurvived'
<1>1. ASSUME losses = 0
      PROVE  /\ current' \in live' \cup {NoConnection}
             /\ \A d \in Calls : call'[d].at \in OnWire => call'[d].on \in live'
  BY <1>1 DEF OneDropIsSurvived
<1>2. ASSUME \A d \in Calls : ~call[d].retried /\ call[d].answer # "lost"
      PROVE  \A d \in Calls : ~call'[d].retried /\ call'[d].answer # "lost"
  BY <1>2
<1>3. ASSUME current \in live \cup {NoConnection}, NEW d \in Calls, Spared(call[d])
      PROVE  current' \in live' \cup {NoConnection} /\ Spared(call[d])'
  BY <1>3 DEF Spared
<1> QED
  BY <1>1, <1>2, <1>3 DEF OneDropIsSurvived

-----------------------------------------------------------------------------
(* The actions.                                                            *)

\* A call that is to make a transport call, by what _ensure finds.
LEMMA EnsureStep ==
    ASSUME StorageInv, NEW c \in Calls, NEW r, Starts(r), call[c].at \notin InLine,
           Ensure(c, r, current'), current' \in {current, NoConnection}, connector' = connector
    PROVE  /\ call' \in [Calls -> CallRecords] /\ CallsFollowTheirScripts'
           /\ LockIsFair' /\ queue' \in Seq(Calls)
           /\ \A d \in Calls : d # c => call'[d] = call[d]
           /\ call'[c].try = r.try /\ call'[c].died = r.died /\ call'[c].kind = r.kind
           /\ call'[c].did = r.did /\ call'[c].retried = r.retried /\ call'[c].answer = r.answer
           /\ \/ /\ current' # NoConnection /\ call'[c].at = "sent" /\ call'[c].on = current'
              \/ /\ current' = NoConnection /\ call'[c].at \in {"dialling", "queued"}
                 /\ call'[c].on = NoConnection
<1>1. /\ TypeOK /\ LockIsFair /\ CallsFollowTheirScripts
      /\ current' \in Connections \cup {NoConnection} /\ NoConnection \in Connections \cup {NoConnection}
  BY DEF StorageInv, TypeOK
<1>2. CASE current' # NoConnection
  <2> DEFINE e == [r EXCEPT !.at = "sent", !.on = current']
  <2>1. call' = [call EXCEPT ![c] = e] /\ queue' = queue
    BY <1>2 DEF Ensure
  <2>2. /\ e \in CallRecords /\ e.at = "sent" /\ e.on = current' /\ e.step = r.step
        /\ e.req = r.req /\ e.try = r.try /\ e.died = r.died /\ e.kind = r.kind
        /\ e.did = r.did /\ e.retried = r.retried /\ e.answer = r.answer
    BY <1>1 DEF Starts, CallRecords, InFlight
  <2> HIDE DEF e
  <2>5. InOrder(e)
    BY <2>2, EnsuredInOrder
  <2>3. /\ call' \in [Calls -> CallRecords] /\ CallsFollowTheirScripts'
        /\ call'[c] = e /\ \A d \in Calls : d # c => call'[d] = call[d]
    BY <1>1, <2>1, <2>2, <2>5, OneCallChanges
  <2>4. LockIsFair'
    <3>1. \A d \in Calls : call'[d].at \in InLine <=> call[d].at \in InLine
      BY <2>2, <2>3 DEF InLine
    <3>2. \A d \in Calls : call'[d].at \in {"dialling", "subsystem"} =>
                             HoldsLock(d) /\ current' = NoConnection
      BY <1>1, <1>2, <2>2, <2>3 DEF LockIsFair
    <3> QED
      BY <1>1, <2>1, <3>1, <3>2, LineStays
  <2> QED
    BY <1>1, <1>2, <2>1, <2>2, <2>3, <2>4 DEF TypeOK
<1>3. CASE current' = NoConnection
  <2> DEFINE at == IF queue = <<>> THEN "dialling" ELSE "queued"
             e == [r EXCEPT !.at = at, !.on = NoConnection]
  <2>1. call' = [call EXCEPT ![c] = e] /\ queue' = Append(queue, c)
    BY <1>3 DEF Ensure
  <2>2. at \in {"dialling", "queued"}
    OBVIOUS
  <2> HIDE DEF at
  <2>3. /\ e \in CallRecords /\ e.at = at /\ e.on = NoConnection /\ e.step = r.step
        /\ e.req = r.req /\ e.try = r.try /\ e.died = r.died /\ e.kind = r.kind
        /\ e.did = r.did /\ e.retried = r.retried /\ e.answer = r.answer
    BY <1>1, <2>2 DEF Starts, CallRecords, InFlight
  <2> HIDE DEF e
  <2>6. InOrder(e)
    BY <2>2, <2>3, EnsuredInOrder
  <2>4. /\ call' \in [Calls -> CallRecords] /\ CallsFollowTheirScripts'
        /\ call'[c] = e /\ \A d \in Calls : d # c => call'[d] = call[d]
    BY <1>1, <2>1, <2>3, <2>6, OneCallChanges
  <2>5. LockIsFair' /\ queue' \in Seq(Calls)
    BY <1>1, <1>3, <2>1, <2>3, <2>4, LineGrows DEF at
  <2> QED
    BY <1>3, <2>2, <2>3, <2>4, <2>5
<1> QED
  BY <1>2, <1>3

\* A call ends.
LEMMA EndStep ==
    ASSUME StorageInv, NEW c \in Calls, NEW e \in CallRecords, InOrder(e), e.at = "ended",
           call' = [call EXCEPT ![c] = e],
           \/ queue' = queue /\ stranded' = stranded /\ call[c].at \notin InLine
           \/ queue' = ReleaseLock(c) /\ Strand(c),
           UNCHANGED <<current, live, opened, remote, losses, connector>>,
           Tearing(call[c]) => Tearing(e)
    PROVE  /\ TypeOK' /\ LockIsFair' /\ OneConnection' /\ DeadStayDead'
           /\ CallsFollowTheirScripts' /\ TornByAWriter'
           /\ call'[c] = e /\ \A d \in Calls : d # c => call'[d] = call[d]
<1>1. TypeOK /\ LockIsFair /\ OneConnection /\ DeadStayDead /\ CallsFollowTheirScripts /\ TornByAWriter
  BY DEF StorageInv
<1>2. /\ call' \in [Calls -> CallRecords] /\ CallsFollowTheirScripts'
      /\ call'[c] = e /\ \A d \in Calls : d # c => call'[d] = call[d]
  BY <1>1, OneCallChanges
<1>3. call'[c].at \notin InLine /\ call'[c].at \notin InFlight /\ call'[c].at # "subsystem"
  BY <1>2 DEF InLine, InFlight
<1>4. LockIsFair' /\ queue' \in Seq(Calls)
  <2>1. CASE queue' = queue /\ stranded' = stranded /\ call[c].at \notin InLine
    <3>1. \A d \in Calls : call'[d].at \in InLine <=> call[d].at \in InLine
      BY <1>2, <1>3, <2>1
    <3>2. \A d \in Calls : call'[d].at \in {"dialling", "subsystem"} =>
                             HoldsLock(d) /\ current' = NoConnection
      BY <1>1, <1>2 DEF LockIsFair
    <3> QED
      BY <1>1, <2>1, <3>1, <3>2, LineStays DEF TypeOK
  <2>2. CASE queue' = ReleaseLock(c) /\ Strand(c)
    BY <1>1, <1>2, <1>3, <2>2, LineReleased
  <2> QED
    BY <2>1, <2>2
<1>5. /\ stranded \subseteq stranded' /\ stranded' \subseteq Connections
      /\ call[c].at = "subsystem" => call[c].on \in stranded'
  <2>1. CASE queue' = queue /\ stranded' = stranded /\ call[c].at \notin InLine
    BY <1>1, <2>1 DEF TypeOK, InLine
  <2>2. CASE queue' = ReleaseLock(c) /\ Strand(c)
    <3>1. InOrder(call[c]) /\ call[c] \in CallRecords
      BY <1>1 DEF TypeOK, CallsFollowTheirScripts
    <3>2. call[c].at = "subsystem" => call[c].on \in Connections
      BY <3>1 DEF InOrder, InScript, InFlight, CallRecords
    <3> QED
      BY <1>1, <2>2, <3>2 DEF Strand, TypeOK
  <2> QED
    BY <2>1, <2>2
<1>6. OneConnection'
  BY <1>1, <1>2, <1>3, <1>4, <1>5, OneConnectionKept
<1>7. DeadStayDead'
  BY <1>1, <1>2, <1>3 DEF DeadStayDead
<1>8. TornByAWriter'
  BY <1>1, <1>2, TornKept
<1>9. TypeOK'
  BY <1>1, <1>2, <1>4, <1>5 DEF TypeOK
<1> QED
  BY <1>2, <1>4, <1>6, <1>7, <1>8, <1>9

\* Ends that are not for a second loss of the connection.
LEMMA EndSpares ==
    ASSUME TypeOK, OneDropIsSurvived, NEW c \in Calls, NEW e \in CallRecords, e.at = "ended",
           call'[c] = e, \A d \in Calls : d # c => call'[d] = call[d],
           UNCHANGED <<current, live, losses>>,
           e.retried = call[c].retried, call[c].answer # "lost" => e.answer # "lost"
    PROVE  OneDropIsSurvived'
<1>1. e.at \notin OnWire
  BY DEF OnWire
<1>2. ASSUME NEW d \in Calls
      PROVE  /\ call'[d].retried = call[d].retried
             /\ call[d].answer # "lost" => call'[d].answer # "lost"
             /\ call'[d].at \in OnWire =>
                   \/ call'[d].on \in live'
                   \/ call[d].at \in OnWire /\ call'[d].on = call[d].on
                   \/ call'[d].on = current /\ current # NoConnection
  <2>1. CASE d = c
    BY <1>1, <2>1
  <2>2. CASE d # c
    <3>1. call'[d] = call[d]
      BY <2>2
    <3> QED
      BY <3>1
  <2> QED
    BY <2>1, <2>2
<1>3. losses' = losses /\ live \subseteq live' /\ current' = current
  OBVIOUS
<1> QED
  BY <1>2, <1>3, DropKept

\* An idle call has done nothing yet.
LEMMA IdleCall ==
    ASSUME StorageInv, NEW c \in Calls, call[c].at = "idle"
    PROVE  /\ call[c] = Idle /\ call[c].did = 0 /\ call[c].retried = FALSE
           /\ call[c].answer = "none" /\ ~Tearing(call[c]) /\ call[c].at \notin InLine
<1>1. call[c] = Idle
  BY DEF StorageInv, CallsFollowTheirScripts, InOrder, InScript
<1> QED
  BY <1>1 DEF Idle, Tearing, InLine

LEMMA IdleEnds ==
    ASSUME StorageInv, NEW c \in Calls, call[c].at = "idle", NEW kind \in DOMAIN Script,
           NEW reply \in {"read_only", "refused"},
           call' = [call EXCEPT ![c] = Ended([Idle EXCEPT !.kind = kind], reply)],
           UNCHANGED <<current, live, opened, stranded, queue, remote, losses, connector>>
    PROVE  StorageInv'
<1> DEFINE e == Ended([Idle EXCEPT !.kind = kind], reply)
<1>1. e \in CallRecords /\ InOrder(e)
  BY IdleInOrder
<1>2. e.at = "ended" /\ e.answer = reply /\ e.retried = FALSE
  BY DEF Ended, Idle
<1> HIDE DEF e
<1>3. TypeOK /\ OneDropIsSurvived
  BY DEF StorageInv
<1>4. /\ TypeOK' /\ LockIsFair' /\ OneConnection' /\ DeadStayDead'
      /\ CallsFollowTheirScripts' /\ TornByAWriter'
      /\ call'[c] = e /\ \A d \in Calls : d # c => call'[d] = call[d]
  BY <1>1, <1>2, IdleCall, EndStep DEF e
<1>5. OneDropIsSurvived'
  BY <1>1, <1>2, <1>3, <1>4, IdleCall, EndSpares
<1> QED
  BY <1>4, <1>5 DEF StorageInv

LEMMA BeginStep ==
    ASSUME StorageInv, NEW c \in Calls, NEW kind \in Kinds, Begin(c, kind)
    PROVE  StorageInv'
<1>1. kind \in DOMAIN Script /\ kind \in Tools
  BY KindsAreTools, ToolNames
<1>2. CASE MustRefuse(kind)
  BY <1>1, <1>2, IdleEnds DEF Begin
<1>3. CASE ~MustRefuse(kind)
  <2> DEFINE r == [Idle EXCEPT !.kind = kind]
  <2>1. /\ r \in CallRecords /\ r.kind = kind /\ r.step = 1 /\ r.req = 1 /\ r.try = 1
        /\ r.did = 0 /\ r.retried = FALSE /\ r.answer = "none"
    BY <1>1, IdleInOrder DEF Idle
  <2>2. /\ Ensure(c, r, current') /\ current' = current
        /\ UNCHANGED <<live, opened, stranded, remote, losses, connector>>
    BY <1>3 DEF Begin, Ensure
  <2> HIDE DEF r
  <2>3. Starts(r)
    <3>1. Len(Script[kind]) \in 2 .. 3
      BY <1>1, ScriptsContainFirst
    <3>2. ~LastStep(r) /\ r.step <= Len(Script[r.kind])
      <4>1. r.kind = kind /\ r.step = 1
        BY <2>1
      <4> QED
        BY ONLY <3>1, <4>1 DEF LastStep
    <3>3. connector.readOnly => kind \notin Mutations
      BY <1>3 DEF MustRefuse
    <3> QED
      BY <2>1, <3>2, <3>3 DEF Starts
  <2>4. call[c].retried = FALSE /\ call[c].answer = "none" /\ ~Tearing(call[c]) /\ call[c].at = "idle"
        /\ call[c].at \notin InLine
    BY IdleCall DEF Begin
  <2>5. /\ call' \in [Calls -> CallRecords] /\ CallsFollowTheirScripts'
        /\ LockIsFair' /\ queue' \in Seq(Calls)
        /\ \A d \in Calls : d # c => call'[d] = call[d]
        /\ call'[c].try = 1 /\ call'[c].retried = FALSE /\ call'[c].answer = "none"
        /\ \/ current' # NoConnection /\ call'[c].at = "sent" /\ call'[c].on = current'
           \/ call'[c].at \in {"dialling", "queued"} /\ call'[c].on = NoConnection
    BY <2>1, <2>2, <2>3, <2>4, EnsureStep
  <2> USE <2>2, <2>4, <2>5
  <2>6. TypeOK /\ OneConnection /\ DeadStayDead /\ TornByAWriter /\ OneDropIsSurvived
    BY DEF StorageInv
  <2>7. TypeOK'
    BY <2>6 DEF TypeOK
  <2>8. OneConnection'
    <3>1. \A d \in Calls : call[d].at = "subsystem" => call'[d] = call[d]
      BY DEF InLine
    <3> QED
      BY <2>6, <3>1, OneConnectionKept
  <2>9. DeadStayDead'
    BY <2>6 DEF DeadStayDead, NoConnection, TypeOK
  <2>10. TornByAWriter'
    BY <2>6, TornKept
  <2>11. OneDropIsSurvived'
    <3>1. ASSUME NEW d \in Calls
          PROVE  /\ call'[d].retried = call[d].retried
                 /\ call[d].answer # "lost" => call'[d].answer # "lost"
                 /\ call'[d].at \in OnWire =>
                       \/ call'[d].on \in live'
                       \/ call[d].at \in OnWire /\ call'[d].on = call[d].on
                       \/ call'[d].on = current /\ current # NoConnection
      BY DEF OnWire
    <3> QED
      BY <2>6, <3>1, DropKept
  <2> QED
    BY <2>6, <2>7, <2>8, <2>9, <2>10, <2>11 DEF StorageInv
<1> QED
  BY <1>2, <1>3

LEMMA BeginRefusedStep ==
    ASSUME StorageInv, NEW c \in Calls, BeginRefused(c, "move")
    PROVE  StorageInv'
<1>1. "move" \in DOMAIN Script
  BY ToolNames DEF Tools
<1> QED
  BY <1>1, IdleEnds DEF BeginRefused

\* A waiter is handed the lock.
LEMMA WokenStep ==
    ASSUME StorageInv, NEW c \in Calls, Woken(c)
    PROVE  StorageInv'
<1>1. /\ TypeOK /\ LockIsFair /\ OneConnection /\ DeadStayDead /\ CallsFollowTheirScripts
      /\ TornByAWriter /\ OneDropIsSurvived
  BY DEF StorageInv
<1>2. call[c] \in CallRecords /\ InOrder(call[c]) /\ call[c].at = "queued" /\ HoldsLock(c)
  BY <1>1 DEF TypeOK, CallsFollowTheirScripts, Woken
<1>3. Starts(call[c]) /\ call[c].at \in InFlight /\ call[c].at \in InLine /\ call[c].at \notin OnWire
  BY <1>2, InLineStarts DEF InLine, InFlight, OnWire
<1>4. UNCHANGED <<current, live, opened, stranded, remote, losses, connector>>
  BY DEF Woken
<1>5. PICK e \in CallRecords :
         /\ call' = [call EXCEPT ![c] = e]
         /\ e.kind = call[c].kind /\ e.step = call[c].step /\ e.req = call[c].req
         /\ e.try = call[c].try /\ e.did = call[c].did /\ e.retried = call[c].retried
         /\ e.died = call[c].died /\ e.answer = call[c].answer
         /\ \/ current # NoConnection /\ e.at = "sent" /\ e.on = current /\ queue' = Tail(queue)
            \/ current = NoConnection /\ e.at = "dialling" /\ e.on = call[c].on /\ queue' = queue
  <2>1. CASE current # NoConnection
    <3> DEFINE e == [call[c] EXCEPT !.at = "sent", !.on = current]
    <3>1. call' = [call EXCEPT ![c] = e] /\ queue' = Tail(queue)
      BY <1>1, <2>1 DEF Woken, HandedLock, TypeOK
    <3>2. /\ e \in CallRecords /\ e.at = "sent" /\ e.on = current
          /\ e.kind = call[c].kind /\ e.step = call[c].step /\ e.req = call[c].req
          /\ e.try = call[c].try /\ e.did = call[c].did /\ e.retried = call[c].retried
          /\ e.died = call[c].died /\ e.answer = call[c].answer
      BY <1>1, <1>2 DEF CallRecords, InFlight, TypeOK
    <3> HIDE DEF e
    <3> QED
      BY <2>1, <3>1, <3>2
  <2>2. CASE current = NoConnection
    <3> DEFINE e == [call[c] EXCEPT !.at = "dialling"]
    <3>1. call' = [call EXCEPT ![c] = e] /\ queue' = queue
      BY <1>1, <2>2 DEF Woken, HandedLock, TypeOK
    <3>2. /\ e \in CallRecords /\ e.at = "dialling" /\ e.on = call[c].on
          /\ e.kind = call[c].kind /\ e.step = call[c].step /\ e.req = call[c].req
          /\ e.try = call[c].try /\ e.did = call[c].did /\ e.retried = call[c].retried
          /\ e.died = call[c].died /\ e.answer = call[c].answer
      BY <1>1, <1>2 DEF CallRecords, InFlight
    <3> HIDE DEF e
    <3> QED
      BY <2>2, <3>1, <3>2
  <2> QED
    BY <2>1, <2>2
<1>6. InOrder(e)
  BY <1>3, <1>5, EnsuredInOrder
<1>7. /\ call' \in [Calls -> CallRecords] /\ CallsFollowTheirScripts'
      /\ call'[c] = e /\ \A d \in Calls : d # c => call'[d] = call[d]
  BY <1>1, <1>4, <1>5, <1>6, OneCallChanges
<1>8. LockIsFair' /\ queue' \in Seq(Calls)
  <2>1. CASE current # NoConnection
    BY <1>1, <1>2, <1>5, <1>7, <2>1, HeadLeaves DEF InLine
  <2>2. CASE current = NoConnection
    <3>1. \A d \in Calls : call'[d].at \in InLine <=> call[d].at \in InLine
      BY <1>3, <1>5, <1>7, <2>2 DEF InLine
    <3>2. \A d \in Calls : call'[d].at \in {"dialling", "subsystem"} =>
                             HoldsLock(d) /\ current' = NoConnection
      BY <1>1, <1>2, <1>4, <1>7, <2>2 DEF LockIsFair
    <3> QED
      BY <1>1, <1>5, <2>2, <3>1, <3>2, LineStays DEF TypeOK
  <2> QED
    BY <2>1, <2>2
<1>9. OneConnection'
  <2>1. \A d \in Calls : call[d].at = "subsystem" => call'[d] = call[d]
    BY <1>2, <1>7
  <2> QED
    BY <1>1, <1>4, <1>8, <2>1, OneConnectionKept
<1>10. DeadStayDead'
  <2>1. /\ e.at \in InFlight => e.on <= opened
        /\ e.at \in InFlight /\ e.try = 2 =>
              /\ e.died \notin live /\ e.died <= opened
              /\ e.at \in InLine /\ current # NoConnection => current # e.died
              /\ e.at \in OnWire => e.on # e.died
    BY <1>1, <1>3, <1>5 DEF DeadStayDead, OnWire
  <2> QED
    BY <1>1, <1>4, <1>7, <2>1 DEF DeadStayDead
<1>11. TornByAWriter'
  BY <1>1, <1>2, <1>4, <1>5, <1>7, TornKept DEF Tearing
<1>12. OneDropIsSurvived'
  <2>1. ASSUME NEW d \in Calls
        PROVE  /\ call'[d].retried = call[d].retried
               /\ call[d].answer # "lost" => call'[d].answer # "lost"
               /\ call'[d].at \in OnWire =>
                     \/ call'[d].on \in live'
                     \/ call[d].at \in OnWire /\ call'[d].on = call[d].on
                     \/ call'[d].on = current /\ current # NoConnection
    <3>1. CASE d = c
      BY <1>5, <1>7, <3>1 DEF OnWire
    <3>2. CASE d # c
      BY <1>7, <3>2
    <3> QED
      BY <3>1, <3>2
  <2> QED
    BY <1>1, <1>4, <2>1, DropKept
<1>13. TypeOK'
  BY <1>1, <1>4, <1>7, <1>8 DEF TypeOK
<1> QED
  BY <1>7, <1>8, <1>9, <1>10, <1>11, <1>12, <1>13 DEF StorageInv

\* A dial comes back with a new connection.
LEMMA ConnectedStep ==
    ASSUME StorageInv, NEW c \in Calls, Connected(c)
    PROVE  StorageInv'
<1>1. /\ TypeOK /\ LockIsFair /\ OneConnection /\ DeadStayDead /\ CallsFollowTheirScripts
      /\ TornByAWriter /\ OneDropIsSurvived
  BY DEF StorageInv
<1>2. call[c] \in CallRecords /\ InOrder(call[c]) /\ call[c].at = "dialling"
  BY <1>1 DEF TypeOK, CallsFollowTheirScripts, Connected
<1>3. Starts(call[c]) /\ call[c].at \in InFlight /\ call[c].at \in InLine /\ call[c].at \notin OnWire
  BY <1>2, InLineStarts DEF InLine, InFlight, OnWire
<1>4. /\ UNCHANGED <<current, stranded, queue, remote, losses, connector>>
      /\ opened < MaxConnections /\ opened' = opened + 1 /\ live' = live \cup {opened + 1}
  BY DEF Connected
<1>5. /\ opened + 1 \in Connections /\ opened + 1 # NoConnection /\ opened' \in 0 .. MaxConnections
      /\ opened \in Nat /\ MaxConnections \in Nat /\ current \in Int
  BY <1>1, <1>4, ConnectionsBound DEF TypeOK, Connections, NoConnection
<1>6. PICK e \in CallRecords :
         /\ call' = [call EXCEPT ![c] = e]
         /\ e.kind = call[c].kind /\ e.step = call[c].step /\ e.req = call[c].req
         /\ e.try = call[c].try /\ e.did = call[c].did /\ e.retried = call[c].retried
         /\ e.died = call[c].died /\ e.answer = call[c].answer
         /\ e.at = "subsystem" /\ e.on = opened + 1
  <2> DEFINE e == [call[c] EXCEPT !.at = "subsystem", !.on = opened + 1]
  <2>1. call' = [call EXCEPT ![c] = e]
    BY <1>1 DEF Connected, TypeOK
  <2>2. /\ e \in CallRecords /\ e.at = "subsystem" /\ e.on = opened + 1
        /\ e.kind = call[c].kind /\ e.step = call[c].step /\ e.req = call[c].req
        /\ e.try = call[c].try /\ e.did = call[c].did /\ e.retried = call[c].retried
        /\ e.died = call[c].died /\ e.answer = call[c].answer
    BY <1>2, <1>5 DEF CallRecords, InFlight
  <2> HIDE DEF e
  <2> QED
    BY <2>1, <2>2
<1>7. InOrder(e)
  BY <1>3, <1>5, <1>6, EnsuredInOrder
<1>8. /\ call' \in [Calls -> CallRecords] /\ CallsFollowTheirScripts'
      /\ call'[c] = e /\ \A d \in Calls : d # c => call'[d] = call[d]
  BY <1>1, <1>4, <1>6, <1>7, OneCallChanges
<1>9. LockIsFair'
  <2>1. \A d \in Calls : call'[d].at \in InLine <=> call[d].at \in InLine
    BY <1>3, <1>6, <1>8 DEF InLine
  <2>2. \A d \in Calls : call'[d].at \in {"dialling", "subsystem"} =>
                           HoldsLock(d) /\ current' = NoConnection
    BY <1>1, <1>2, <1>4, <1>8 DEF LockIsFair
  <2> QED
    BY <1>1, <1>4, <2>1, <2>2, LineStays
<1>10. OneConnection'
  <2>1. \A d \in Calls : call[d].at = "subsystem" => call'[d] = call[d]
    BY <1>2, <1>8
  <2>2. \A n \in live' : \/ n \in live
                         \/ \E d \in Calls : call'[d].at = "subsystem" /\ call'[d].on = n
    BY <1>4, <1>6, <1>8
  <2> QED
    BY <1>1, <1>4, <1>9, <2>1, <2>2, OneConnectionKept
<1>11. DeadStayDead'
  <2>1. ASSUME NEW d \in Calls
        PROVE  /\ call'[d].at \in InFlight => call'[d].on <= opened'
               /\ call'[d].at \in InFlight /\ call'[d].try = 2 =>
                     /\ call'[d].died \notin live' /\ call'[d].died <= opened'
                     /\ call'[d].at \in InLine /\ current' # NoConnection
                           => current' # call'[d].died
                     /\ call'[d].at \in OnWire => call'[d].on # call'[d].died
    <3>1. call[d] \in CallRecords /\ call[d].on \in Int /\ call[d].died \in Int
      BY <1>1, RecordsAre DEF TypeOK
    <3>2. /\ call[d].at \in InFlight => call[d].on <= opened
          /\ call[d].at \in InFlight /\ call[d].try = 2 =>
                /\ call[d].died \notin live /\ call[d].died <= opened
                /\ call[d].at \in InLine /\ current # NoConnection => current # call[d].died
                /\ call[d].at \in OnWire => call[d].on # call[d].died
      BY <1>1 DEF DeadStayDead
    <3>3. call[d].died <= opened => call[d].died # opened + 1 /\ call[d].died <= opened'
      BY <1>4, <1>5, <3>1
    <3>4. CASE d = c
      <4>1. call'[d].at \notin OnWire /\ call'[d].on <= opened'
        BY <1>4, <1>5, <1>6, <1>8, <3>4 DEF OnWire
      <4> QED
        BY <1>3, <1>4, <1>6, <1>8, <3>2, <3>3, <3>4, <4>1
    <3>5. CASE d # c
      <4>1. call'[d] = call[d] /\ (call[d].on <= opened => call[d].on <= opened')
        BY <1>4, <1>5, <1>8, <3>1, <3>5
      <4> QED
        BY <1>4, <3>2, <3>3, <4>1
    <3> QED
      BY <3>4, <3>5
  <2>2. /\ opened' \in Nat /\ opened <= opened' /\ current' <= opened'
        /\ \A n \in live' : n \in live \/ (n > opened /\ n <= opened')
    BY <1>1, <1>4, <1>5 DEF DeadStayDead
  <2> QED
    BY <1>1, <2>1, <2>2, DeadKept
<1>12. TornByAWriter'
  BY <1>1, <1>2, <1>4, <1>6, <1>8, TornKept DEF Tearing
<1>13. OneDropIsSurvived'
  <2>1. ASSUME NEW d \in Calls
        PROVE  /\ call'[d].retried = call[d].retried
               /\ call[d].answer # "lost" => call'[d].answer # "lost"
               /\ call'[d].at \in OnWire =>
                     \/ call'[d].on \in live'
                     \/ call[d].at \in OnWire /\ call'[d].on = call[d].on
                     \/ call'[d].on = current /\ current # NoConnection
    <3>1. CASE d = c
      BY <1>6, <1>8, <3>1 DEF OnWire
    <3>2. CASE d # c
      BY <1>8, <3>2
    <3> QED
      BY <3>1, <3>2
  <2> QED
    BY <1>1, <1>4, <2>1, DropKept
<1>14. TypeOK'
  BY <1>1, <1>4, <1>5, <1>8 DEF TypeOK
<1> QED
  BY <1>8, <1>9, <1>10, <1>11, <1>12, <1>13, <1>14 DEF StorageInv

\* The subsystem is up: the connection is shared and the lock is passed on.
LEMMA SubsystemUpStep ==
    ASSUME StorageInv, NEW c \in Calls, SubsystemUp(c)
    PROVE  StorageInv'
<1>1. /\ TypeOK /\ LockIsFair /\ OneConnection /\ DeadStayDead /\ CallsFollowTheirScripts
      /\ TornByAWriter /\ OneDropIsSurvived
  BY DEF StorageInv
<1>2. /\ call[c] \in CallRecords /\ InOrder(call[c]) /\ call[c].at = "subsystem"
      /\ call[c].on \in live /\ call[c].on \in Connections
  BY <1>1 DEF TypeOK, CallsFollowTheirScripts, SubsystemUp
<1>3. /\ Starts(call[c]) /\ call[c].at \in InFlight /\ call[c].at \in InLine
      /\ call[c].at \notin OnWire /\ call[c].on # NoConnection
      /\ HoldsLock(c) /\ current = NoConnection
  BY <1>1, <1>2, InLineStarts DEF InLine, InFlight, OnWire, InOrder, InScript, LockIsFair
<1>4. /\ UNCHANGED <<live, opened, stranded, remote, losses, connector>>
      /\ current' = call[c].on /\ queue' = Tail(queue)
  BY DEF SubsystemUp
<1>5. PICK e \in CallRecords :
         /\ call' = [call EXCEPT ![c] = e]
         /\ e.kind = call[c].kind /\ e.step = call[c].step /\ e.req = call[c].req
         /\ e.try = call[c].try /\ e.did = call[c].did /\ e.retried = call[c].retried
         /\ e.died = call[c].died /\ e.answer = call[c].answer
         /\ e.at = "sent" /\ e.on = call[c].on
  <2> DEFINE e == [call[c] EXCEPT !.at = "sent"]
  <2>1. call' = [call EXCEPT ![c] = e]
    BY <1>1 DEF SubsystemUp, TypeOK
  <2>2. /\ e \in CallRecords /\ e.at = "sent" /\ e.on = call[c].on
        /\ e.kind = call[c].kind /\ e.step = call[c].step /\ e.req = call[c].req
        /\ e.try = call[c].try /\ e.did = call[c].did /\ e.retried = call[c].retried
        /\ e.died = call[c].died /\ e.answer = call[c].answer
    BY <1>2 DEF CallRecords, InFlight
  <2> HIDE DEF e
  <2> QED
    BY <2>1, <2>2
<1>6. InOrder(e)
  BY <1>3, <1>5, EnsuredInOrder
<1>7. /\ call' \in [Calls -> CallRecords] /\ CallsFollowTheirScripts'
      /\ call'[c] = e /\ \A d \in Calls : d # c => call'[d] = call[d]
  BY <1>1, <1>4, <1>5, <1>6, OneCallChanges
<1>8. LockIsFair' /\ queue' \in Seq(Calls)
  BY <1>1, <1>3, <1>4, <1>5, <1>7, HeadLeaves DEF InLine
<1>9. OneConnection'
  <2>1. \A d \in Calls : call[d].at = "subsystem" => call'[d] = call[d] \/ call[d].on = current'
    BY <1>4, <1>7
  <2>2. current \notin live'
    BY <1>1, <1>3, <1>4, ConnectionsBound DEF TypeOK, Connections, NoConnection
  <2> QED
    BY <1>1, <1>4, <1>8, <2>1, <2>2, OneConnectionKept
<1>10. DeadStayDead'
  <2>1. ASSUME NEW d \in Calls
        PROVE  /\ call'[d].at \in InFlight => call'[d].on <= opened'
               /\ call'[d].at \in InFlight /\ call'[d].try = 2 =>
                     /\ call'[d].died \notin live' /\ call'[d].died <= opened'
                     /\ call'[d].at \in InLine /\ current' # NoConnection
                           => current' # call'[d].died
                     /\ call'[d].at \in OnWire => call'[d].on # call'[d].died
    <3>1. /\ call[d].at \in InFlight => call[d].on <= opened
          /\ call[d].at \in InFlight /\ call[d].try = 2 =>
                /\ call[d].died \notin live /\ call[d].died <= opened
                /\ call[d].at \in OnWire => call[d].on # call[d].died
      BY <1>1 DEF DeadStayDead
    <3>2. CASE d = c
      BY <1>2, <1>3, <1>4, <1>5, <1>7, <3>1, <3>2
    <3>3. CASE d # c
      BY <1>2, <1>4, <1>7, <3>1, <3>3
    <3> QED
      BY <3>2, <3>3
  <2>2. current' <= opened'
    BY <1>1, <1>2, <1>4 DEF DeadStayDead
  <2> QED
    BY <1>1, <1>4, <2>1, <2>2 DEF DeadStayDead
<1>11. TornByAWriter'
  BY <1>1, <1>2, <1>4, <1>5, <1>7, TornKept DEF Tearing
<1>12. OneDropIsSurvived'
  <2>1. ASSUME NEW d \in Calls
        PROVE  /\ call'[d].retried = call[d].retried
               /\ call[d].answer # "lost" => call'[d].answer # "lost"
               /\ call'[d].at \in OnWire =>
                     \/ call'[d].on \in live'
                     \/ call[d].at \in OnWire /\ call'[d].on = call[d].on
                     \/ call'[d].on = current /\ current # NoConnection
    <3>1. CASE d = c
      BY <1>2, <1>4, <1>5, <1>7, <3>1
    <3>2. CASE d # c
      BY <1>7, <3>2
    <3> QED
      BY <3>1, <3>2
  <2> QED
    BY <1>1, <1>2, <1>4, <2>1, DropKept
<1>13. TypeOK'
  BY <1>1, <1>2, <1>4, <1>7, <1>8 DEF TypeOK
<1> QED
  BY <1>7, <1>8, <1>9, <1>10, <1>11, <1>12, <1>13 DEF StorageInv

\* A call in flight ends with something else than success.
LEMMA FailedEnds ==
    ASSUME StorageInv, NEW c \in Calls, call[c].at \in InFlight,
           NEW reply \in {"unavailable", "cancelled", "lost"},
           call' = [call EXCEPT ![c] = Ended(call[c], reply)],
           \/ queue' = queue /\ stranded' = stranded /\ call[c].at \notin InLine
           \/ queue' = ReleaseLock(c) /\ Strand(c),
           UNCHANGED <<current, live, opened, remote, losses, connector>>
    PROVE  /\ reply # "lost" => StorageInv'
           /\ TypeOK' /\ LockIsFair' /\ OneConnection' /\ DeadStayDead'
           /\ CallsFollowTheirScripts' /\ TornByAWriter'
           /\ \A d \in Calls : d # c => call'[d] = call[d]
<1> DEFINE e == Ended(call[c], reply)
<1>1. TypeOK /\ OneDropIsSurvived /\ call[c] \in CallRecords /\ InOrder(call[c])
  BY DEF StorageInv, TypeOK, CallsFollowTheirScripts
<1>2. reply \in Answered /\ reply # "ok" /\ reply # "not_found"
  BY DEF Answered
<1>3. /\ e \in CallRecords /\ InOrder(e) /\ e.at = "ended" /\ e.answer = reply
      /\ e.kind = call[c].kind /\ e.did = call[c].did /\ e.retried = call[c].retried
  BY <1>1, <1>2, EndedInOrder, EndedIs
<1>4. call' = [call EXCEPT ![c] = e]
  OBVIOUS
<1> HIDE DEF e
<1>5. Tearing(call[c]) => Tearing(e)
  BY <1>2, <1>3 DEF Tearing
<1>6. /\ TypeOK' /\ LockIsFair' /\ OneConnection' /\ DeadStayDead'
      /\ CallsFollowTheirScripts' /\ TornByAWriter'
      /\ call'[c] = e /\ \A d \in Calls : d # c => call'[d] = call[d]
  BY <1>3, <1>4, <1>5, EndStep
<1>7. reply # "lost" => OneDropIsSurvived'
  BY <1>1, <1>3, <1>6, EndSpares
<1> QED
  BY <1>6, <1>7 DEF StorageInv

LEMMA ConnectFailsStep ==
    ASSUME StorageInv, NEW c \in Calls, ConnectFails(c)
    PROVE  StorageInv'
<1>1. call \in [Calls -> CallRecords]
  BY DEF StorageInv, TypeOK
<1>2. call[c].at \in InFlight /\ call' = [call EXCEPT ![c] = Ended(call[c], "unavailable")]
  BY <1>1 DEF ConnectFails, InFlight
<1> QED
  BY <1>2, FailedEnds DEF ConnectFails

LEMMA CancelledStep ==
    ASSUME StorageInv, NEW c \in Calls, Cancelled(c)
    PROVE  StorageInv'
<1>1. call \in [Calls -> CallRecords]
  BY DEF StorageInv, TypeOK
<1>2. call' = [call EXCEPT ![c] = Ended(call[c], "cancelled")]
  BY <1>1 DEF Cancelled
<1> QED
  BY <1>2, FailedEnds DEF Cancelled

LEMMA GivesUpStep ==
    ASSUME StorageInv, NEW c \in Calls, GivesUp(c)
    PROVE  StorageInv'
<1>1. /\ TypeOK /\ OneDropIsSurvived /\ call \in [Calls -> CallRecords] /\ InOrder(call[c])
      /\ call[c] \in CallRecords
  BY DEF StorageInv, TypeOK, CallsFollowTheirScripts
<1>2. /\ call[c].at \in OnWire /\ call[c].on \notin live /\ call[c].at \in InFlight
      /\ call[c].at \notin InLine
  BY DEF GivesUp, Lost, OnWire, InFlight, InLine
<1>3. call[c].retried
  BY <1>1, <1>2 DEF GivesUp, Lost, LostFirst, InOrder, InScript, CallRecords
<1>4. call' = [call EXCEPT ![c] = Ended(call[c], "lost")]
  BY <1>1 DEF GivesUp
<1>5. /\ TypeOK' /\ LockIsFair' /\ OneConnection' /\ DeadStayDead'
      /\ CallsFollowTheirScripts' /\ TornByAWriter'
      /\ \A d \in Calls : d # c => call'[d] = call[d]
  BY <1>2, <1>4, FailedEnds DEF GivesUp
<1>6. OneDropIsSurvived'
  <2>1. UNCHANGED <<current, live, losses>>
    BY DEF GivesUp
  <2>2. losses # 0
    BY <1>1, <1>2 DEF OneDropIsSurvived
  <2>3. ASSUME losses <= 1
        PROVE  /\ losses = 1 /\ current \in live \cup {NoConnection}
               /\ \E d \in Calls : d # c /\ Spared(call[d])
    BY <1>1, <1>2, <1>3, <2>3 DEF OneDropIsSurvived, Spared
  <2>4. \A d \in Calls : d # c /\ Spared(call[d]) => Spared(call[d])'
    BY <1>5, <2>1 DEF Spared
  <2> QED
    BY <2>1, <2>2, <2>3, <2>4 DEF OneDropIsSurvived
<1> QED
  BY <1>5, <1>6 DEF StorageInv

LEMMA RepliesStep ==
    ASSUME StorageInv, NEW c \in Calls, Replies(c)
    PROVE  StorageInv'
<1> DEFINE r == call[c]
           e == Ended(r, r.answer)
<1>1. /\ TypeOK /\ OneDropIsSurvived /\ call \in [Calls -> CallRecords] /\ InOrder(r)
      /\ r \in CallRecords
  BY DEF StorageInv, TypeOK, CallsFollowTheirScripts
<1>2. /\ r.at = "answered" /\ r.at \in InFlight /\ r.at \notin InLine
      /\ r.answer = "ok" => LastStep(r) /\ r.req = Len(Transport(r))
      /\ UNCHANGED <<current, live, opened, stranded, queue, remote, losses, connector>>
  BY DEF Replies, InFlight, InLine, LastStep
<1>3. call' = [call EXCEPT ![c] = e]
  BY <1>1 DEF Replies
<1>4. /\ e \in CallRecords /\ InOrder(e) /\ e.at = "ended" /\ e.answer = r.answer
      /\ e.kind = r.kind /\ e.did = r.did /\ e.retried = r.retried
  <2>1. r.answer \in Answered
    BY <1>1, RecordsAre
  <2> QED
    BY <1>1, <1>2, <2>1, EndedInOrder, EndedIs
<1>5. Tearing(r) => Tearing(e)
  <2>1. CASE r.kind = "write" /\ r.answer = "ok"
    <3>1. Transport(r) = Last(Script["write"]) /\ Last(Script["write"]) = <<"truncate", "fill">>
      BY <1>1, <1>2, <2>1, TransportFacts, ScriptsContainFirst DEF InOrder, InScript, Tools
    <3>2. r.req = 2
      BY <1>2, <2>1, <3>1
    <3> QED
      BY <1>2, <2>1, <3>2 DEF Tearing
  <2>2. CASE ~(r.kind = "write" /\ r.answer = "ok")
    BY <1>4, <2>2 DEF Tearing
  <2> QED
    BY <2>1, <2>2
<1> HIDE DEF e
<1>6. /\ TypeOK' /\ LockIsFair' /\ OneConnection' /\ DeadStayDead'
      /\ CallsFollowTheirScripts' /\ TornByAWriter'
      /\ call'[c] = e /\ \A d \in Calls : d # c => call'[d] = call[d]
  BY <1>2, <1>3, <1>4, <1>5, EndStep
<1>7. OneDropIsSurvived'
  BY <1>1, <1>2, <1>4, <1>6, EndSpares
<1> QED
  BY <1>6, <1>7 DEF StorageInv

\* Which request a call is at.
LEMMA RequestIs ==
    ASSUME NEW r \in CallRecords, InOrder(r), r.at \in OnWire
    PROVE  /\ Request(r) \in Takes <=> r.kind \in Mutations /\ LastStep(r)
           /\ r.kind = "write" => Request(r) \in {"realpath", "truncate", "fill"}
           /\ Request(r) = "truncate" => r.kind = "write" /\ LastStep(r) /\ r.req = 1
           /\ Request(r) = "fill" => r.kind = "write" /\ LastStep(r) /\ r.req = 2
           /\ r.req \in 1 .. Len(Transport(r)) /\ Len(Transport(r)) \in 1 .. 2
<1>1. r.step <= Len(Script[r.kind]) /\ r.req <= Len(Transport(r)) /\ r.req \in 1 .. 2
  BY RecordsAre DEF InOrder, InScript, InFlight, OnWire
<1>2. /\ Len(Transport(r)) \in 1 .. 2 /\ r.kind \in Tools
      /\ LastStep(r) => Transport(r) = Last(Script[r.kind])
      /\ ~LastStep(r) => \/ Transport(r) = <<"realpath">>
                         \/ Transport(r) = <<"size">> /\ r.kind = "read"
  BY <1>1, TransportFacts
<1>3. r.req \in 1 .. Len(Transport(r))
  BY <1>1, <1>2
<1>4. CASE LastStep(r)
  <2>1. Transport(r) = Last(Script[r.kind]) /\ Request(r) = Last(Script[r.kind])[r.req]
    BY <1>2, <1>4 DEF Request
  <2>2. Request(r) \in Takes <=> r.kind \in Mutations
    BY <1>2, <1>3, <2>1, ScriptsContainFirst
  <2>3. r.kind # "write" => Request(r) \notin {"truncate", "fill"}
    BY <1>2, <1>3, <2>1, ScriptsContainFirst
  <2>4. ASSUME r.kind = "write"
        PROVE  /\ Request(r) \in {"truncate", "fill"}
               /\ Request(r) = "truncate" => r.req = 1
               /\ Request(r) = "fill" => r.req = 2
    <3>1. Transport(r) = <<"truncate", "fill">>
      BY <1>2, <2>1, <2>4, ScriptsContainFirst
    <3>2. r.req = 1 \/ r.req = 2
      BY <1>1
    <3> QED
      BY <3>1, <3>2 DEF Request
  <2> QED
    BY <1>2, <1>3, <1>4, <2>2, <2>3, <2>4
<1>5. CASE ~LastStep(r)
  <2>1. Len(Transport(r)) = 1
    BY <1>2, <1>5
  <2>2. r.req = 1
    BY <1>3, <2>1
  <2>3. Request(r) = "realpath" \/ (Request(r) = "size" /\ r.kind = "read")
    BY <1>2, <1>5, <2>2 DEF Request
  <2> QED
    BY <1>2, <1>3, <1>5, <2>3 DEF Takes
<1> QED
  BY <1>4, <1>5

\* A call goes on with the client that it has.
LEMMA OnWireStep ==
    ASSUME StorageInv, NEW c \in Calls, NEW e \in CallRecords, InOrder(e),
           call' = [call EXCEPT ![c] = e], call[c].at \in OnWire, e.at \in OnWire,
           e.on = call[c].on, e.try = call[c].try, e.died = call[c].died,
           e.retried = call[c].retried, call[c].answer # "lost" => e.answer # "lost",
           remote' \in {"absent", "torn", "whole"},
           remote' = "torn" => \/ remote = "torn" /\ (Tearing(call[c]) => Tearing(e))
                              \/ Tearing(e),
           UNCHANGED <<current, live, opened, stranded, queue, losses, connector>>
    PROVE  StorageInv'
<1>1. /\ TypeOK /\ LockIsFair /\ OneConnection /\ DeadStayDead /\ CallsFollowTheirScripts
      /\ TornByAWriter /\ OneDropIsSurvived
  BY DEF StorageInv
<1>2. /\ call' \in [Calls -> CallRecords] /\ CallsFollowTheirScripts'
      /\ call'[c] = e /\ \A d \in Calls : d # c => call'[d] = call[d]
  BY <1>1, OneCallChanges
<1>3. /\ call[c].at \in InFlight /\ call[c].at \notin InLine /\ call[c].at # "subsystem"
      /\ e.at \in InFlight /\ e.at \notin InLine
  BY DEF OnWire, InLine, InFlight
<1>4. LockIsFair'
  <2>1. \A d \in Calls : call'[d].at \in InLine <=> call[d].at \in InLine
    BY <1>2, <1>3
  <2>2. \A d \in Calls : call'[d].at \in {"dialling", "subsystem"} =>
                           HoldsLock(d) /\ current' = NoConnection
    BY <1>1, <1>2, <1>3 DEF LockIsFair, InLine
  <2> QED
    BY <1>1, <2>1, <2>2, LineStays
<1>5. OneConnection'
  <2>1. \A d \in Calls : call[d].at = "subsystem" => call'[d] = call[d]
    BY <1>2, <1>3
  <2> QED
    BY <1>1, <1>4, <2>1, OneConnectionKept
<1>6. DeadStayDead'
  BY <1>1, <1>2, <1>3 DEF DeadStayDead
<1>7. TornByAWriter'
  <2>1. Tearing(e) => Tearing(call[c])'
    BY <1>2 DEF Tearing
  <2>2. \A d \in Calls : d # c /\ Tearing(call[d]) => Tearing(call[d])'
    BY <1>2 DEF Tearing
  <2> QED
    BY <1>1, <2>1, <2>2 DEF TornByAWriter
<1>8. OneDropIsSurvived'
  <2>1. ASSUME NEW d \in Calls
        PROVE  /\ call'[d].retried = call[d].retried
               /\ call[d].answer # "lost" => call'[d].answer # "lost"
               /\ call'[d].at \in OnWire =>
                     \/ call'[d].on \in live'
                     \/ call[d].at \in OnWire /\ call'[d].on = call[d].on
                     \/ call'[d].on = current /\ current # NoConnection
    <3>1. CASE d = c
      BY <1>2, <3>1
    <3>2. CASE d # c
      BY <1>2, <3>2
    <3> QED
      BY <3>1, <3>2
  <2> QED
    BY <1>1, <2>1, DropKept
<1>9. TypeOK'
  BY <1>1, <1>2 DEF TypeOK
<1> QED
  BY <1>2, <1>4, <1>5, <1>6, <1>7, <1>8, <1>9 DEF StorageInv

LEMMA ServeStep ==
    ASSUME StorageInv, NEW c \in Calls, Serve(c)
    PROVE  StorageInv'
<1> DEFINE r == call[c]
<1>1. TypeOK /\ call \in [Calls -> CallRecords] /\ InOrder(r) /\ r \in CallRecords
  BY DEF StorageInv, TypeOK, CallsFollowTheirScripts
<1>2. r.at = "sent" /\ r.at \in OnWire /\ r.at \in InFlight
  BY DEF Serve, OnWire, InFlight
<1>3. PICK a \in Answers(Request(r)) :
         /\ remote' = a[2]
         /\ call' = [call EXCEPT
               ![c].at = "answered", ![c].answer = a[1],
               ![c].did = IF a[1] = "ok" /\ Request(r) \in Takes THEN @ + 1 ELSE @]
  BY DEF Serve
<1>4. /\ a[1] \in {"ok", "access", "not_found", "too_large", "unavailable"}
      /\ a[2] \in {"absent", "torn", "whole"}
      /\ Request(r) = "realpath" => a[1] # "not_found" /\ a[2] = remote
      /\ Request(r) \in {"truncate", "fill"} => a[1] # "not_found"
      /\ Request(r) = "fill" /\ a[1] = "ok" => a[2] = "whole"
      /\ a[2] = "torn" => \/ remote = "torn" \/ Request(r) = "fill"
                          \/ (Request(r) = "truncate" /\ a[1] = "ok")
  <2>1. remote \in {"absent", "torn", "whole"}
    BY <1>1 DEF TypeOK
  <2> QED
    BY <2>1, AnswersAre
<1> DEFINE did == IF a[1] = "ok" /\ Request(r) \in Takes THEN r.did + 1 ELSE r.did
           e == [r EXCEPT !.at = "answered", !.answer = a[1], !.did = did]
<1>5. call' = [call EXCEPT ![c] = e]
  BY <1>1, <1>3
<1>6. r.did \in Nat /\ did \in Nat /\ a[1] \in Answered /\ a[1] # "lost"
  BY <1>1, <1>4, RecordsAre DEF Answered
<1> HIDE DEF did
<1>7. /\ e \in CallRecords /\ e.at = "answered" /\ e.answer = a[1] /\ e.did = did
      /\ e.kind = r.kind /\ e.step = r.step /\ e.req = r.req /\ e.try = r.try
      /\ e.on = r.on /\ e.died = r.died /\ e.retried = r.retried
  BY <1>1, <1>6, RecordsAre
<1> HIDE DEF e
<1>8. /\ Transport(e) = Transport(r) /\ Script[e.kind] = Script[r.kind]
      /\ LastStep(e) <=> LastStep(r)
  BY <1>7 DEF Transport, LastStep
<1>9. e.at \in OnWire /\ e.at \in InFlight /\ e.at \notin InLine /\ e.at # "ended"
  BY <1>7 DEF OnWire, InFlight, InLine
<1>10. /\ Request(r) \in Takes <=> r.kind \in Mutations /\ LastStep(r)
       /\ r.kind = "write" => Request(r) \in {"realpath", "truncate", "fill"}
       /\ Request(r) = "truncate" => r.kind = "write" /\ LastStep(r) /\ r.req = 1
       /\ Request(r) = "fill" => r.kind = "write" /\ LastStep(r) /\ r.req = 2
       /\ r.req \in 1 .. Len(Transport(r)) /\ Len(Transport(r)) \in 1 .. 2
  BY <1>1, <1>2, RequestIs
<1>11. InScript(e)
  <2>1. /\ r.step <= Len(Script[r.kind]) /\ r.req <= Len(Transport(r))
        /\ r.try = 2 => r.retried
    BY <1>1, <1>2 DEF InOrder, InScript
  <2>2. e.kind = "write" => e.answer # "not_found"
    BY <1>4, <1>7, <1>10
  <2> QED
    BY <1>7, <1>8, <1>9, <2>1, <2>2 DEF InScript, InFlight
<1>12. Done(r) = r.req - 1 /\ Done(e) = IF a[1] = "ok" THEN r.req ELSE r.req - 1
  BY <1>2, <1>7 DEF Done
<1>13. ChangesCounted(e)
  <2>1. CASE r.kind \in Mutations /\ LastStep(r)
    <3>1. /\ Done(r) <= r.did
          /\ r.did <= IF r.try = 2 THEN Len(Transport(r)) + Done(r) ELSE Done(r)
      BY <1>1, <1>2, <2>1 DEF InOrder, ChangesCounted
    <3>2. did = IF a[1] = "ok" THEN r.did + 1 ELSE r.did
      BY <1>10, <2>1 DEF did
    <3>3. /\ Done(e) <= did
          /\ did <= IF r.try = 2 THEN Len(Transport(r)) + Done(e) ELSE Done(e)
      BY <1>6, <1>10, <1>12, <3>1, <3>2
    <3> QED
      BY <1>7, <1>8, <2>1, <3>3 DEF ChangesCounted
  <2>2. CASE ~(r.kind \in Mutations /\ LastStep(r))
    <3>1. r.did = 0
      BY <1>1, <1>2, <2>2 DEF InOrder, ChangesCounted
    <3>2. did = 0
      BY <1>10, <2>2, <3>1 DEF did
    <3> QED
      BY <1>7, <1>8, <2>2, <3>2 DEF ChangesCounted
  <2> QED
    BY <2>1, <2>2
<1>14. Accounted(e) /\ Refused(e)
  BY <1>1, <1>2, <1>7, <1>9 DEF InOrder, Accounted, Refused
<1>15. remote' = "torn" => \/ remote = "torn" /\ (Tearing(r) => Tearing(e))
                           \/ Tearing(e)
  <2>1. CASE Request(r) = "fill"
    <3>1. ASSUME a[1] # "ok"
          PROVE  Tearing(e)
      <4>1. Done(r) = 1 /\ Done(r) <= r.did /\ did = r.did
        BY <1>1, <1>2, <1>10, <1>12, <2>1, <3>1 DEF InOrder, ChangesCounted, did, Mutations
      <4> QED
        BY <1>6, <1>7, <1>10, <2>1, <3>1, <4>1 DEF Tearing
    <3> QED
      BY <1>3, <1>4, <2>1, <3>1
  <2>2. CASE Request(r) = "truncate" /\ a[1] = "ok"
    <3>1. did = r.did + 1
      BY <2>2 DEF did, Takes
    <3> QED
      BY <1>6, <1>7, <1>10, <2>2, <3>1 DEF Tearing
  <2>3. CASE ~(Request(r) = "fill" \/ (Request(r) = "truncate" /\ a[1] = "ok"))
    <3>1. remote' = "torn" => remote = "torn"
      BY <1>3, <1>4, <2>3
    <3>2. ASSUME Tearing(r)
          PROVE  Tearing(e)
      <4>1. r.kind = "write" /\ r.did > 0
        BY <3>2 DEF Tearing
      <4>2. CASE Request(r) = "truncate"
        <5>1. e.req = 1 /\ did = r.did
          BY <1>7, <1>10, <2>3, <4>2 DEF did
        <5> QED
          BY <1>7, <4>1, <5>1 DEF Tearing
      <4>3. CASE Request(r) = "realpath"
        <5>1. ~LastStep(r) \/ r.kind \notin Mutations
          BY <1>10, <4>3 DEF Takes
        <5>2. r.did = 0
          BY <1>1, <1>2, <5>1 DEF InOrder, ChangesCounted
        <5> QED
          BY <4>1, <5>2
      <4> QED
        BY <1>10, <2>3, <4>1, <4>2, <4>3
    <3> QED
      BY <3>1, <3>2
  <2> QED
    BY <2>1, <2>2, <2>3
<1>16. remote' \in {"absent", "torn", "whole"}
  BY <1>3, <1>4
<1>17. UNCHANGED <<current, live, opened, stranded, queue, losses, connector>>
  BY DEF Serve
<1>18. InOrder(e)
  BY <1>11, <1>13, <1>14 DEF InOrder
<1> QED
  BY <1>2, <1>5, <1>6, <1>7, <1>9, <1>15, <1>16, <1>17, <1>18, OnWireStep

LEMMA NextRequestStep ==
    ASSUME StorageInv, NEW c \in Calls, NextRequest(c)
    PROVE  StorageInv'
<1> DEFINE r == call[c]
           e == [r EXCEPT !.at = "sent", !.req = r.req + 1]
<1>1. TypeOK /\ call \in [Calls -> CallRecords] /\ InOrder(r) /\ r \in CallRecords
  BY DEF StorageInv, TypeOK, CallsFollowTheirScripts
<1>2. /\ r.at = "answered" /\ r.at \in OnWire /\ r.at \in InFlight
      /\ r.answer = "ok" /\ r.req < Len(Transport(r))
  BY DEF NextRequest, OnWire, InFlight
<1>3. r.req \in 1 .. Len(Transport(r)) /\ Len(Transport(r)) \in 1 .. 2
  BY <1>1, <1>2, RequestIs
<1>4. call' = [call EXCEPT ![c] = e]
  BY <1>1 DEF NextRequest
<1>5. /\ e \in CallRecords /\ e.at = "sent" /\ e.answer = r.answer /\ e.did = r.did
      /\ e.kind = r.kind /\ e.step = r.step /\ e.req = r.req + 1 /\ e.try = r.try
      /\ e.on = r.on /\ e.died = r.died /\ e.retried = r.retried
  <2>1. r.req + 1 \in 1 .. 2
    <3>1. \A n, m \in Int : n \in 1 .. m /\ m \in 1 .. 2 /\ n < m => n + 1 \in 1 .. 2
      OBVIOUS
    <3>2. r.req \in Int /\ Len(Transport(r)) \in Int
      BY <1>3
    <3> QED
      BY ONLY <1>2, <1>3, <3>1, <3>2
  <2> QED
    BY <1>1, <2>1, RecordsAre
<1> HIDE DEF e
<1>6. /\ Transport(e) = Transport(r) /\ Script[e.kind] = Script[r.kind]
      /\ LastStep(e) <=> LastStep(r)
  BY <1>5 DEF Transport, LastStep
<1>7. e.at \in OnWire /\ e.at \in InFlight /\ e.at \notin InLine /\ e.at # "ended"
  BY <1>5 DEF OnWire, InFlight, InLine
<1>8. InScript(e)
  <2>1. r.step <= Len(Script[r.kind]) /\ (r.try = 2 => r.retried)
    BY <1>1, <1>2 DEF InOrder, InScript
  <2>2. e.req <= Len(Transport(e))
    BY <1>2, <1>3, <1>5, <1>6
  <2> QED
    BY <1>5, <1>6, <1>7, <2>1, <2>2 DEF InScript, InFlight
<1>9. Done(r) = r.req /\ Done(e) = r.req
  <2>1. (r.req + 1) - 1 = r.req
    BY <1>3
  <2> QED
    BY <1>2, <1>5, <2>1 DEF Done
<1>10. ChangesCounted(e)
  BY <1>1, <1>2, <1>5, <1>6, <1>9 DEF InOrder, ChangesCounted
<1>11. Accounted(e) /\ Refused(e)
  BY <1>1, <1>2, <1>5, <1>7 DEF InOrder, Accounted, Refused
<1>12. Tearing(r) => Tearing(e)
  BY <1>5 DEF Tearing
<1>13. /\ UNCHANGED <<current, live, opened, stranded, queue, losses, connector>>
       /\ remote' = remote
  BY DEF NextRequest
<1>14. InOrder(e) /\ remote' \in {"absent", "torn", "whole"} /\ e.answer # "lost"
  BY <1>1, <1>2, <1>5, <1>8, <1>10, <1>11, <1>13 DEF InOrder, TypeOK
<1> QED
  BY <1>2, <1>4, <1>5, <1>7, <1>12, <1>13, <1>14, OnWireStep

LEMMA NextTransportCallStep ==
    ASSUME StorageInv, NEW c \in Calls, NextTransportCall(c)
    PROVE  StorageInv'
<1> DEFINE r == call[c]
           s == [r EXCEPT !.step = r.step + 1, !.req = 1, !.try = 1]
<1>1. /\ TypeOK /\ call \in [Calls -> CallRecords] /\ InOrder(r) /\ r \in CallRecords
      /\ OneConnection /\ DeadStayDead /\ TornByAWriter /\ OneDropIsSurvived
  BY DEF StorageInv, TypeOK, CallsFollowTheirScripts
<1>2. /\ r.at = "answered" /\ r.at \in OnWire /\ r.at \in InFlight /\ r.at \notin InLine
      /\ r.answer = "ok" /\ r.step < Len(Script[r.kind]) /\ r.at # "subsystem"
  BY DEF NextTransportCall, OnWire, InFlight, InLine
<1>3. r.step \in 1 .. 3 /\ r.kind \in Tools /\ Len(Script[r.kind]) \in 2 .. 3
  BY <1>1, RecordsAre, ScriptsContainFirst
<1>4. /\ Ensure(c, s, current') /\ current' = current
      /\ UNCHANGED <<live, opened, stranded, remote, losses, connector>>
  BY DEF NextTransportCall, Ensure
<1>5. /\ s \in CallRecords /\ s.kind = r.kind /\ s.step = r.step + 1 /\ s.req = 1 /\ s.try = 1
      /\ s.did = r.did /\ s.retried = r.retried /\ s.answer = r.answer
  <2>1. r.step + 1 \in 1 .. 3
    <3>1. \A n, m \in Int : n \in 1 .. 3 /\ m \in 2 .. 3 /\ n < m => n + 1 \in 1 .. 3
      OBVIOUS
    <3>2. r.step \in Int /\ Len(Script[r.kind]) \in Int
      BY <1>3
    <3> QED
      BY ONLY <1>2, <1>3, <3>1, <3>2
  <2>2. 1 \in 1 .. 2
    OBVIOUS
  <2>3. s \in CallRecords
    BY <1>1, <2>1, <2>2, RecordsAre
  <2> QED
    BY <1>1, <2>3, RecordsAre
<1> HIDE DEF s
<1>6. r.did = 0
  BY <1>1, <1>2, <1>3 DEF InOrder, ChangesCounted, LastStep
<1>7. Starts(s)
  <2>1. s.step <= Len(Script[s.kind])
    BY <1>2, <1>3, <1>5
  <2>2. connector.readOnly => s.kind \notin Mutations
    BY <1>1, <1>2, <1>5 DEF InOrder, Refused
  <2> QED
    BY <1>5, <1>6, <2>1, <2>2 DEF Starts
<1>8. /\ call' \in [Calls -> CallRecords] /\ CallsFollowTheirScripts'
      /\ LockIsFair' /\ queue' \in Seq(Calls)
      /\ \A d \in Calls : d # c => call'[d] = call[d]
      /\ call'[c].try = 1 /\ call'[c].retried = r.retried /\ call'[c].answer = "ok"
      /\ \/ current' # NoConnection /\ call'[c].at = "sent" /\ call'[c].on = current'
         \/ call'[c].at \in {"dialling", "queued"} /\ call'[c].on = NoConnection
  BY <1>2, <1>4, <1>5, <1>7, EnsureStep
<1>9. TypeOK'
  BY <1>1, <1>4, <1>8 DEF TypeOK
<1>10. OneConnection'
  <2>1. \A d \in Calls : call[d].at = "subsystem" => call'[d] = call[d]
    BY <1>2, <1>8
  <2> QED
    BY <1>1, <1>4, <1>8, <2>1, OneConnectionKept
<1>11. DeadStayDead'
  BY <1>1, <1>4, <1>8 DEF DeadStayDead, NoConnection, TypeOK
<1>12. TornByAWriter'
  BY <1>1, <1>4, <1>6, <1>8, TornKept DEF Tearing
<1>13. OneDropIsSurvived'
  <2>1. ASSUME NEW d \in Calls
        PROVE  /\ call'[d].retried = call[d].retried
               /\ call[d].answer # "lost" => call'[d].answer # "lost"
               /\ call'[d].at \in OnWire =>
                     \/ call'[d].on \in live'
                     \/ call[d].at \in OnWire /\ call'[d].on = call[d].on
                     \/ call'[d].on = current /\ current # NoConnection
    <3>1. CASE d = c
      BY <1>4, <1>8, <3>1 DEF OnWire
    <3>2. CASE d # c
      BY <1>8, <3>2
    <3> QED
      BY <3>1, <3>2
  <2> QED
    BY <1>1, <1>4, <2>1, DropKept
<1> QED
  BY <1>8, <1>9, <1>10, <1>11, <1>12, <1>13 DEF StorageInv

\* The first loss: the shared connection, whichever it is, is closed.
LEMMA RetryStep ==
    ASSUME StorageInv, NEW c \in Calls, Retry(c)
    PROVE  StorageInv'
<1> DEFINE r == call[c]
           s == [r EXCEPT !.req = 1, !.try = 2, !.died = r.on, !.retried = TRUE, !.answer = "none"]
<1>1. /\ TypeOK /\ call \in [Calls -> CallRecords] /\ InOrder(r) /\ r \in CallRecords
      /\ OneConnection /\ DeadStayDead /\ TornByAWriter /\ OneDropIsSurvived
  BY DEF StorageInv, TypeOK, CallsFollowTheirScripts
<1>2. /\ r.at \in OnWire /\ r.at \in InFlight /\ r.at \notin InLine /\ r.at # "subsystem"
      /\ r.on \notin live /\ r.try = 1
  BY DEF Retry, LostFirst, Lost, OnWire, InFlight, InLine
<1>3. /\ Ensure(c, s, current') /\ current' = NoConnection /\ live' = live \ {current}
      /\ UNCHANGED <<opened, stranded, remote, losses, connector>>
  BY DEF Retry, Reset
<1>4. /\ s \in CallRecords /\ s.kind = r.kind /\ s.step = r.step /\ s.req = 1 /\ s.try = 2
      /\ s.did = r.did /\ s.retried = TRUE /\ s.answer = "none" /\ s.died = r.on
  <2>1. 1 \in 1 .. 2 /\ 2 \in 1 .. 2 /\ "none" \in Answered
    BY DEF Answered
  <2>2. r.on \in 0 .. MaxConnections
    BY <1>1, RecordsAre
  <2>3. s \in CallRecords
    BY <1>1, <2>1, <2>2, RecordsAre
  <2> QED
    BY <1>1, <2>3, RecordsAre
<1> HIDE DEF s
<1>5. Starts(s)
  <2>1. r.step <= Len(Script[r.kind]) /\ Transport(s) = Transport(r) /\ (LastStep(s) <=> LastStep(r))
    BY <1>1, <1>2, <1>4 DEF InOrder, InScript, Transport, LastStep
  <2>2. r.req \in 1 .. Len(Transport(r)) /\ Len(Transport(r)) \in 1 .. 2
    BY <1>1, <1>2, RequestIs
  <2>3. Done(r) <= Len(Transport(r)) /\ Done(r) \in Nat /\ r.did \in Nat
    BY <1>1, <2>2, RecordsAre DEF Done
  <2>4. connector.readOnly => s.kind \notin Mutations
    BY <1>1, <1>2, <1>4 DEF InOrder, Refused
  <2>5. CASE r.kind \in Mutations /\ LastStep(r)
    <3>1. r.did <= Done(r)
      BY <1>1, <1>2, <2>5 DEF InOrder, ChangesCounted
    <3>2. r.did <= Len(Transport(r))
      BY <2>2, <2>3, <3>1
    <3> QED
      BY <1>4, <2>1, <2>4, <2>5, <3>2 DEF Starts
  <2>6. CASE ~(r.kind \in Mutations /\ LastStep(r))
    <3>1. r.did = 0
      BY <1>1, <1>2, <2>6 DEF InOrder, ChangesCounted
    <3> QED
      BY <1>4, <2>1, <2>4, <2>6, <3>1 DEF Starts
  <2> QED
    BY <2>5, <2>6
<1>6. /\ call' \in [Calls -> CallRecords] /\ CallsFollowTheirScripts'
      /\ LockIsFair' /\ queue' \in Seq(Calls)
      /\ \A d \in Calls : d # c => call'[d] = call[d]
      /\ call'[c].try = 2 /\ call'[c].retried = TRUE /\ call'[c].answer = "none"
      /\ call'[c].died = r.on /\ call'[c].kind = r.kind /\ call'[c].did = r.did
      /\ call'[c].at \in {"dialling", "queued"} /\ call'[c].on = NoConnection
  BY <1>2, <1>3, <1>4, <1>5, EnsureStep
<1>7. call'[c].at \notin OnWire /\ call'[c].at \in InFlight /\ call'[c].at \in InLine
  BY <1>6 DEF OnWire, InFlight, InLine
<1>8. TypeOK'
  BY <1>1, <1>3, <1>6 DEF TypeOK
<1>9. OneConnection'
  <2>1. \A d \in Calls : call[d].at = "subsystem" => call'[d] = call[d]
    BY <1>2, <1>6
  <2> QED
    BY <1>1, <1>3, <1>6, <2>1, OneConnectionKept
<1>10. DeadStayDead'
  <2>1. NoConnection <= opened /\ r.on <= opened
    BY <1>1, <1>2 DEF DeadStayDead, TypeOK, NoConnection
  <2> QED
    BY <1>1, <1>2, <1>3, <1>6, <1>7, <2>1 DEF DeadStayDead
<1>11. TornByAWriter'
  <2>1. Tearing(r) => Tearing(call'[c])
    BY <1>6 DEF Tearing
  <2> QED
    BY <1>1, <1>3, <1>6, <2>1, TornKept
<1>12. OneDropIsSurvived'
  <2>1. losses # 0
    BY <1>1, <1>2 DEF OneDropIsSurvived
  <2>2. losses <= 1 => losses = 1
    BY <1>1, <2>1 DEF TypeOK
  <2>3. Spared(call[c])'
    BY <1>6, <1>7 DEF Spared
  <2> QED
    BY <1>3, <2>1, <2>2, <2>3 DEF OneDropIsSurvived
<1> QED
  BY <1>6, <1>8, <1>9, <1>10, <1>11, <1>12 DEF StorageInv

LEMMA NetworkDropsStep ==
    ASSUME StorageInv, NEW n \in live, NetworkDrops(n)
    PROVE  StorageInv'
<1>1. /\ TypeOK /\ LockIsFair /\ OneConnection /\ DeadStayDead /\ CallsFollowTheirScripts
      /\ TornByAWriter /\ OneDropIsSurvived
  BY DEF StorageInv
<1>2. /\ live' = live \ {n} /\ losses' = losses + 1 /\ losses < MaxLosses
      /\ UNCHANGED <<call, current, opened, stranded, queue, remote, connector>>
  BY DEF NetworkDrops
<1>3. TypeOK'
  BY <1>1, <1>2, LossesBound DEF TypeOK
<1>4. LockIsFair'
  BY <1>1, <1>2 DEF LockIsFair, HoldsLock
<1>5. OneConnection'
  BY <1>1, <1>2 DEF OneConnection, HoldsLock
<1>6. DeadStayDead'
  BY <1>1, <1>2 DEF DeadStayDead
<1>7. CallsFollowTheirScripts'
  BY <1>1, <1>2 DEF CallsFollowTheirScripts, InOrder, InScript, ChangesCounted, Accounted,
                    Refused, Done, LastStep, Transport
<1>8. TornByAWriter'
  BY <1>1, <1>2 DEF TornByAWriter, Tearing
<1>9. OneDropIsSurvived'
  <2>1. losses \in Nat /\ losses' # 0 /\ (losses' <= 1 => losses = 0)
    BY <1>1, <1>2, LossesBound DEF TypeOK
  <2>2. losses = 0 => \A d \in Calls : ~call[d].retried /\ call[d].answer # "lost"
    BY <1>1 DEF OneDropIsSurvived
  <2> QED
    BY <1>2, <2>1, <2>2 DEF OneDropIsSurvived
<1> QED
  BY <1>3, <1>4, <1>5, <1>6, <1>7, <1>8, <1>9 DEF StorageInv

LEMMA StopStep ==
    ASSUME StorageInv, Stop
    PROVE  StorageInv'
<1>1. /\ TypeOK /\ LockIsFair /\ OneConnection /\ DeadStayDead /\ CallsFollowTheirScripts
      /\ TornByAWriter /\ OneDropIsSurvived
  BY DEF StorageInv
<1>2. /\ live' = live \ {current} /\ current' = NoConnection
      /\ connector' = [connector EXCEPT !.closed = TRUE]
      /\ UNCHANGED <<call, opened, stranded, queue, remote, losses>>
      /\ \A c \in Calls : call[c].at \notin InFlight
  BY DEF Stop, Reset
<1>3. \A c \in Calls : call[c].at \notin InLine /\ call[c].at \notin OnWire
  BY <1>2 DEF InLine, OnWire, InFlight
<1>4. TypeOK' /\ connector'.readOnly = connector.readOnly
  BY <1>1, <1>2 DEF TypeOK
<1>5. LockIsFair'
  BY <1>1, <1>2, <1>3 DEF LockIsFair, InLine
<1>6. OneConnection'
  BY <1>1, <1>2 DEF OneConnection, HoldsLock
<1>7. DeadStayDead'
  <2>1. NoConnection <= opened
    BY <1>1 DEF TypeOK, NoConnection
  <2> QED
    BY <1>1, <1>2, <2>1 DEF DeadStayDead
<1>8. CallsFollowTheirScripts'
  BY <1>1, <1>2, <1>4 DEF CallsFollowTheirScripts, InOrder, InScript, ChangesCounted, Accounted,
                          Refused, Done, LastStep, Transport
<1>9. TornByAWriter'
  BY <1>1, <1>2 DEF TornByAWriter, Tearing
<1>10. OneDropIsSurvived'
  BY <1>1, <1>2, <1>3 DEF OneDropIsSurvived, Spared
<1> QED
  BY <1>4, <1>5, <1>6, <1>7, <1>8, <1>9, <1>10 DEF StorageInv

-----------------------------------------------------------------------------
(* The theorems.                                                           *)

LEMMA InitStorage ==
    ASSUME Init
    PROVE  StorageInv
<1>1. /\ call = [c \in Calls |-> Idle] /\ current = 0 /\ live = {} /\ opened = 0
      /\ stranded = {} /\ queue = <<>> /\ remote \in {"absent", "whole"} /\ losses = 0
      /\ connector \in [readOnly : BOOLEAN, closed : {FALSE}]
  BY DEF Init, NoConnection
<1>2. /\ Idle.at = "idle" /\ Idle.retried = FALSE /\ Idle.answer = "none"
      /\ Idle \in CallRecords
  BY IdleIs DEF Idle
<1>3. "list" \in DOMAIN Script
  BY ToolNames DEF Tools
<1>4. InOrder(Idle)
  BY <1>3, IdleInOrder
<1>5. \A c \in Calls : call[c] = Idle
  BY <1>1
<1>6. TypeOK
  <2>1. call \in [Calls -> CallRecords]
    BY <1>1, <1>2
  <2>2. queue \in Seq(Calls)
    BY <1>1, EmptySeq
  <2>3. opened \in 0 .. MaxConnections /\ losses \in 0 .. MaxLosses
    BY <1>1, ConnectionsBound, LossesBound
  <2> QED
    BY <1>1, <2>1, <2>2, <2>3 DEF TypeOK, NoConnection
<1>7. LockIsFair
  <2>1. Len(queue) = 0 /\ 1 .. 0 = {}
    BY <1>1
  <2> QED
    BY <1>2, <1>5, <2>1 DEF LockIsFair, InLine
<1>8. OneConnection /\ DeadStayDead
  BY <1>1, <1>2, <1>5 DEF OneConnection, DeadStayDead, InFlight
<1>9. CallsFollowTheirScripts
  BY <1>4, <1>5 DEF CallsFollowTheirScripts
<1>10. TornByAWriter
  BY <1>1 DEF TornByAWriter
<1>11. OneDropIsSurvived
  BY <1>1, <1>2, <1>5 DEF OneDropIsSurvived, OnWire, NoConnection
<1> QED
  BY <1>6, <1>7, <1>8, <1>9, <1>10, <1>11 DEF StorageInv

LEMMA StutteringStorage ==
    ASSUME StorageInv, UNCHANGED vars
    PROVE  StorageInv'
<1>1. /\ TypeOK /\ LockIsFair /\ OneConnection /\ DeadStayDead /\ CallsFollowTheirScripts
      /\ TornByAWriter /\ OneDropIsSurvived
  BY DEF StorageInv
<1>2. UNCHANGED <<call, current, live, opened, stranded, queue, remote, losses, connector>>
  BY DEF vars
<1>3. TypeOK' /\ LockIsFair' /\ OneConnection' /\ DeadStayDead'
  BY <1>1, <1>2 DEF TypeOK, LockIsFair, OneConnection, DeadStayDead, HoldsLock
<1>4. CallsFollowTheirScripts'
  BY <1>1, <1>2 DEF CallsFollowTheirScripts, InOrder, InScript, ChangesCounted, Accounted,
                    Refused, Done, LastStep, Transport
<1>5. TornByAWriter' /\ OneDropIsSurvived'
  BY <1>1, <1>2 DEF TornByAWriter, Tearing, OneDropIsSurvived, Spared
<1> QED
  BY <1>3, <1>4, <1>5 DEF StorageInv

\* In every state of a connector, for any number of calls: the lock is fair,
\* dead connections are not used again, every call is where its script says
\* and has changed what its place in the script accounts for.
THEOREM StorageInvariance == Spec => []StorageInv
<1>1. StorageInv /\ Next => StorageInv'
  <2> SUFFICES ASSUME StorageInv, Next
               PROVE  StorageInv'
    OBVIOUS
  <2>1. ASSUME NEW c \in Calls, NEW kind \in Kinds, Begin(c, kind)
        PROVE  StorageInv'
    BY <2>1, BeginStep
  <2>2. ASSUME NEW c \in Calls, BeginRefused(c, "move")
        PROVE  StorageInv'
    BY <2>2, BeginRefusedStep
  <2>3. ASSUME NEW c \in Calls, Advance(c)
        PROVE  StorageInv'
    BY <2>3, WokenStep, ConnectedStep, SubsystemUpStep, ConnectFailsStep, ServeStep,
       NextRequestStep, NextTransportCallStep, RepliesStep, RetryStep, GivesUpStep DEF Advance
  <2>4. ASSUME NEW c \in Calls, Cancelled(c)
        PROVE  StorageInv'
    BY <2>4, CancelledStep
  <2>5. ASSUME NEW n \in live, NetworkDrops(n)
        PROVE  StorageInv'
    BY <2>5, NetworkDropsStep
  <2> QED
    BY <2>1, <2>2, <2>3, <2>4, <2>5, StopStep DEF Next
<1> QED
  BY <1>1, InitStorage, StutteringStorage, PTL DEF Spec

\* At most one connection is shared, every other open one is being set up by
\* the holder of the lock or was stranded, and a transport call that is made
\* again is never made on the connection that failed under it (ssh.py _ensure,
\* _call).
THEOREM TheConnectionIsShared == Spec => []ConnectionIsShared
<1>1. StorageInv => ConnectionIsShared
  <2> SUFFICES ASSUME StorageInv
               PROVE  ConnectionIsShared
    OBVIOUS
  <2>1. RetryOnAnotherConnection
    BY DEF StorageInv, DeadStayDead, RetryOnAnotherConnection, OnWire, InFlight
  <2> QED
    BY <2>1 DEF StorageInv, ConnectionIsShared
<1> QED
  BY <1>1, StorageInvariance, PTL

\* What a tool replies can be believed: an ok was earned, a change is made twice
\* or hidden only behind a lost connection, a read-only connector changes
\* nothing, a half-written file has its writer, and one drop of the network
\* never fails every call.
THEOREM TheRepliesCanBeTrusted == Spec => []RepliesCanBeTrusted
<1>1. StorageInv => RepliesCanBeTrusted
  <2> SUFFICES ASSUME StorageInv
               PROVE  RepliesCanBeTrusted
    OBVIOUS
  <2>1. ASSUME NEW c \in Calls, call[c].at = "ended", call[c].kind \in Mutations
        PROVE  /\ call[c].answer = "ok" => call[c].did > 0
               /\ connector.readOnly => call[c].did = 0
               /\ call[c].answer = "not_found" /\ call[c].did > 0 => call[c].retried
               /\ call[c].did > Len(Last(Script[call[c].kind])) => call[c].retried
               /\ call[c].did <= 2 * Len(Last(Script[call[c].kind]))
    BY <2>1 DEF StorageInv, CallsFollowTheirScripts, InOrder, Accounted, Refused
  <2>2. RepliesAreHonest
    BY <2>1 DEF StorageInv, TornByAWriter, Tearing, RepliesAreHonest
  <2>3. OneDropSparesACall
    BY ThereAreCalls DEF StorageInv, OneDropIsSurvived, Spared, OneDropSparesACall
  <2> QED
    BY <2>2, <2>3 DEF RepliesCanBeTrusted
<1> QED
  BY <1>1, StorageInvariance, PTL
=============================================================================
