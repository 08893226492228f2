-------------------------- MODULE PendingApprovals --------------------------
(***************************************************************************)
(* The human-in-the-loop approval registry, modules/safety/approval.py.    *)
(*                                                                         *)
(* Every method of the Python class is synchronous and free of `await`, so *)
(* under the single-threaded event loop each call is one atomic step here. *)
(* A call that raises ApprovalError is the same step with its refusal      *)
(* branch: all it may change is the lazy expiry of the record it looked    *)
(* at.  Which of the error classes is raised is not distinguished.         *)
(*                                                                         *)
(* The monotonic clock is kept as the time left to each deadline: `left`   *)
(* is expires_at - now(), so the registry's test now() >= expires_at is    *)
(* left <= 0, and Tick is the passing of one unit of time.  `left` stops   *)
(* at -1 ("past the boundary"), which keeps the clock finite.              *)
(***************************************************************************)
EXTENDS Integers

CONSTANTS
    Ids,            \* the approval ids uuid4().hex can produce
    Actions,        \* literal (tool, args) pairs
    Principals,     \* authenticated principals
    Approvers,      \* the principals that carry the `approve` scope
    Fingerprint,    \* action -> sha256 of its canonical JSON
    NoFingerprint,  \* the "fingerprint" of an action json.dumps refuses
    Timeout,        \* timeout_seconds of the registry
    NoRecord        \* what the registry holds for an id it does not know

ASSUME ApproversAreKnown == Approvers \subseteq Principals
ASSUME TimeoutPositive == Timeout \in Nat \ {0}

Statuses == {"pending", "approved", "consumed", "denied", "expired"}

\* Mutants of Terminal: purge drops granted approvals; purge forgets the denied.
TerminalWithGranted == {"consumed", "denied", "expired", "approved"}
TerminalWithoutDenied == {"consumed", "expired"}

Terminal == {"consumed", "denied", "expired"}
Verdicts == {"safe", "needs_confirmation", "blocked"}

Nobody == "nobody"      \* decided_by of an undecided record: Python's None

Fingerprints == {Fingerprint[a] : a \in Actions} \ {NoFingerprint}

ApprovalRecord ==
    [ fingerprint  : Fingerprints,
      verdict      : Verdicts,
      requested_by : Principals,
      left         : Int,
      status       : Statuses,
      decided_by   : Principals \cup {Nobody} ]

ASSUME NoRecordIsNoRecord == NoRecord \notin ApprovalRecord

VARIABLES
    records,    \* _records: the registry's dictionary
    issued      \* ids the id factory has already produced (uuid4 never repeats)

registryVars == <<records, issued>>

-----------------------------------------------------------------------------
Enrolled == {id \in Ids : records[id] # NoRecord}

HasStatus(id, S) == id \in Enrolled /\ records[id].status \in S

\* Mutant of Stale: the deadline itself still counts as in time.
StaleAfterBoundary(id) == HasStatus(id, {"pending"}) /\ records[id].left < 0

Stale(id) == HasStatus(id, {"pending"}) /\ records[id].left <= 0

\* Mutant of Live: expiry is left to sweep.
LiveUnexpired(id) == records[id]

\* The record _get_live returns: a pending record past its deadline reads as
\* expired.
Live(id) ==
    IF Stale(id) THEN [records[id] EXCEPT !.status = "expired"] ELSE records[id]

LiveStatus(id, S) == id \in Enrolled /\ Live(id).status \in S

\* What _get_live leaves in the registry when the call goes no further.
Touch(id) ==
    records' = IF id \in Enrolled THEN [records EXCEPT ![id] = Live(id)]
                                  ELSE records

\* _store: replace the frozen record by a copy with a new status and decider.
Store(id, status, by) ==
    records' = [records EXCEPT ![id] = [Live(id) EXCEPT !.status = status,
                                                        !.decided_by = by]]

-----------------------------------------------------------------------------
(* The methods.                                                            *)

\* Mutant of MayRequest: an action that cannot be fingerprinted is enrolled.
MayRequestUnfingerprinted(a, verdict) == verdict = "needs_confirmation"

MayRequest(a, verdict) ==
    /\ verdict = "needs_confirmation"
    /\ Fingerprint[a] # NoFingerprint

\* A refused request raises before it touches the registry: no step at all.
Request(id, a, verdict, by) ==
    /\ MayRequest(a, verdict)
    /\ id \notin issued
    /\ issued' = issued \cup {id}
    /\ records' = [records EXCEPT ![id] =
                     [ fingerprint  |-> Fingerprint[a],
                       verdict      |-> verdict,
                       requested_by |-> by,
                       left         |-> Timeout,
                       status       |-> "pending",
                       decided_by   |-> Nobody ]]

MayApprove(id, a, p) ==
    /\ LiveStatus(id, {"pending"})
    /\ p \in Approvers
    /\ records[id].verdict = "needs_confirmation"
    /\ Fingerprint[a] = records[id].fingerprint

Approve(id, a, p) ==
    /\ IF MayApprove(id, a, p) THEN Store(id, "approved", p) ELSE Touch(id)
    /\ UNCHANGED issued

MayDeny(id) == LiveStatus(id, {"pending", "approved"})

\* No scope is needed: denying is always the safe direction.
Deny(id, p) ==
    /\ IF MayDeny(id) THEN Store(id, "denied", p) ELSE Touch(id)
    /\ UNCHANGED issued

\* Mutants of MayConsume: an undecided approval will do; a revoked one will do;
\* the action is not compared.
MayConsumeUndecided(id, a) ==
    /\ LiveStatus(id, {"pending", "approved"})
    /\ Fingerprint[a] = records[id].fingerprint

MayConsumeRevoked(id, a) ==
    /\ LiveStatus(id, {"approved", "denied"})
    /\ Fingerprint[a] = records[id].fingerprint

MayConsumeUnbound(id, a) == LiveStatus(id, {"approved"})

MayConsume(id, a) ==
    /\ LiveStatus(id, {"approved"})
    /\ Fingerprint[a] = records[id].fingerprint

\* Mutant of Consume: the approval is checked but not spent.
ConsumeUnspent(id, a) ==
    /\ Touch(id)
    /\ UNCHANGED issued

Consume(id, a) ==
    /\ IF MayConsume(id, a) THEN Store(id, "consumed", records[id].decided_by)
                            ELSE Touch(id)
    /\ UNCHANGED issued

Get(id) ==
    /\ Touch(id)
    /\ UNCHANGED issued

\* sweep(), which pending() also runs before it lists.
Sweep ==
    /\ records' = [id \in Ids |-> Live(id)]
    /\ UNCHANGED issued

PurgeTerminal ==
    /\ records' = [id \in Ids |-> IF HasStatus(id, Terminal) THEN NoRecord
                                                             ELSE records[id]]
    /\ UNCHANGED issued

\* One unit of time passes.  Only a pending record's deadline is ever read.
Elapse(left) == IF left >= 0 THEN left - 1 ELSE left

Tick ==
    /\ records' = [id \in Ids |->
                     IF HasStatus(id, {"pending"})
                     THEN [records[id] EXCEPT !.left = Elapse(@)]
                     ELSE records[id]]
    /\ UNCHANGED issued

-----------------------------------------------------------------------------
ApprovalsInit ==
    /\ records = [id \in Ids |-> NoRecord]
    /\ issued = {}

ApprovalsNext ==
    \/ \E id \in Ids, a \in Actions, v \in Verdicts, p \in Principals :
          Request(id, a, v, p)
    \/ \E id \in Ids, a \in Actions, p \in Principals : Approve(id, a, p)
    \/ \E id \in Ids, p \in Principals : Deny(id, p)
    \/ \E id \in Ids, a \in Actions : Consume(id, a)
    \/ \E id \in Ids : Get(id)
    \/ Sweep
    \/ PurgeTerminal
    \/ Tick

ApprovalsSpec == ApprovalsInit /\ [][ApprovalsNext]_registryVars

-----------------------------------------------------------------------------
(* Correctness.                                                            *)

\* Every stored record is well formed - in particular only fingerprintable
\* actions are ever enrolled - and every enrolled id came from the factory.
ApprovalsTypeOK ==
    /\ records \in [Ids -> ApprovalRecord \cup {NoRecord}]
    /\ issued \subseteq Ids
    /\ Enrolled \subseteq issued

\* INV-4, authorised and in time: a record that is approved or consumed was
\* decided by a principal with the approve scope while its deadline was still
\* strictly ahead, and it was never anything but a needs_confirmation action.
\* It relates the decision, taken in one call, to what later calls (deny by
\* somebody else, consume, sweep, purge, the clock) have left of it.
GrantsAreAuthorised ==
    \A id \in Enrolled :
        /\ records[id].verdict = "needs_confirmation"
        /\ records[id].status \in {"approved", "consumed"} =>
              /\ records[id].decided_by \in Approvers
              /\ records[id].left > 0

\* INV-4, single use: an id moves only forward through its life.  In
\* particular a consumed, denied or expired approval can never be approved or
\* consumed again, not even after a purge has forgotten it, and a purge drops
\* no approval that is still live.
Phase(id) == IF id \in Enrolled THEN records[id].status
             ELSE IF id \in issued THEN "forgotten" ELSE "unused"

MayBecome == [ unused    |-> {"pending"},
               pending   |-> {"approved", "denied", "expired"},
               approved  |-> {"consumed", "denied"},
               consumed  |-> {"forgotten"},
               denied    |-> {"forgotten"},
               expired   |-> {"forgotten"},
               forgotten |-> {} ]

LifecycleOnlyAdvances ==
    [][\A id \in Ids : Phase(id)' \in {Phase(id)} \cup MayBecome[Phase(id)]]_registryVars

\* INV-4, fail-closed timeout: once the deadline of an undecided approval has
\* been reached, no later call of any kind can turn it into a grant, even
\* though nothing marks it expired until somebody looks at it.
StaleIsNeverGranted ==
    [][\A id \in Ids : Stale(id) =>
          ~ (Phase(id)' \in {"approved", "consumed"})]_registryVars

\* The registry in every state: well formed, and every grant in it authorised.
ApprovalsAreSound == ApprovalsTypeOK /\ GrantsAreAuthorised

\* The registry in every step: forward only, and never from stale to granted.
ApprovalsOnlyAdvance == LifecycleOnlyAdvances /\ StaleIsNeverGranted
=============================================================================
