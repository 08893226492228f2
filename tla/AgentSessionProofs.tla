------------------------- MODULE AgentSessionProofs -------------------------
(***************************************************************************)
(* Proofs about the approval registry, the gated dispatcher over it and    *)
(* the interactive runs that call it, for any sets of sessions, ids,       *)
(* actions, tools and principals, any gate, any budgets and timeouts:      *)
(* first the registry by itself, then the dispatcher and that it           *)
(* implements GatedExecution, then the sessions.                           *)
(***************************************************************************)
EXTENDS AgentSession, TLAPS


-----------------------------------------------------------------------------
(* The registry.                                                           *)

\* The record a lookup returns is a well-formed record.
LEMMA LiveIsRecord ==
    ASSUME ApprovalsTypeOK, NEW id \in Enrolled
    PROVE  Live(id) \in ApprovalRecord
BY DEF ApprovalsTypeOK, Enrolled, Live, Stale, HasStatus, ApprovalRecord, Statuses

\* Storing a decided copy of a live record, and touching any record, keep the
\* registry well formed and enrol nobody.
LEMMA StoreKeepsType ==
    ASSUME ApprovalsTypeOK, NEW id \in Enrolled, NEW st \in Statuses,
           NEW by \in Principals \cup {Nobody}, Store(id, st, by)
    PROVE  /\ records' \in [Ids -> ApprovalRecord \cup {NoRecord}]
           /\ Enrolled' = Enrolled
<1>1. Live(id) \in ApprovalRecord
  BY LiveIsRecord
<1>2. [Live(id) EXCEPT !.status = st, !.decided_by = by] \in ApprovalRecord
  BY <1>1 DEF ApprovalRecord
<1> QED
  BY <1>2, NoRecordIsNoRecord DEF Store, ApprovalsTypeOK, Enrolled

LEMMA TouchKeepsType ==
    ASSUME ApprovalsTypeOK, NEW id \in Ids, Touch(id)
    PROVE  /\ records' \in [Ids -> ApprovalRecord \cup {NoRecord}]
           /\ Enrolled' = Enrolled
<1>1. CASE id \in Enrolled
  <2>1. Live(id) \in ApprovalRecord
    BY <1>1, LiveIsRecord
  <2> QED
    BY <1>1, <2>1, NoRecordIsNoRecord DEF Touch, ApprovalsTypeOK, Enrolled
<1>2. CASE id \notin Enrolled
  BY <1>2 DEF Touch, ApprovalsTypeOK, Enrolled
<1> QED
  BY <1>1, <1>2

LEMMA TypeInductive ==
    ASSUME ApprovalsTypeOK, [ApprovalsNext]_registryVars
    PROVE  ApprovalsTypeOK'
<1>1. ASSUME NEW id \in Ids, NEW a \in Actions, NEW v \in Verdicts,
             NEW p \in Principals, Request(id, a, v, p)
      PROVE  ApprovalsTypeOK'
  <2> DEFINE new == [ fingerprint  |-> Fingerprint[a],
                      verdict      |-> v,
                      requested_by |-> p,
                      left         |-> Timeout,
                      status       |-> "pending",
                      decided_by   |-> Nobody ]
  <2>1. new \in ApprovalRecord
    BY <1>1, TimeoutPositive
       DEF Request, MayRequest, ApprovalRecord, Fingerprints, Statuses, Verdicts
  <2>2. records' = [records EXCEPT ![id] = new] /\ issued' = issued \cup {id}
    BY <1>1 DEF Request
  <2> HIDE DEF new
  <2> QED
    BY <2>1, <2>2, NoRecordIsNoRecord DEF ApprovalsTypeOK, Enrolled
<1>2. ASSUME NEW id \in Ids, NEW a \in Actions, NEW p \in Principals,
             Approve(id, a, p)
      PROVE  ApprovalsTypeOK'
  <2>1. CASE MayApprove(id, a, p)
    <3>1. id \in Enrolled /\ Store(id, "approved", p)
      BY <1>2, <2>1 DEF Approve, MayApprove, LiveStatus
    <3> QED
      BY <1>2, <3>1, StoreKeepsType DEF Approve, ApprovalsTypeOK, Statuses
  <2>2. CASE ~MayApprove(id, a, p)
    BY <1>2, <2>2, TouchKeepsType DEF Approve, ApprovalsTypeOK
  <2> QED
    BY <2>1, <2>2
<1>3. ASSUME NEW id \in Ids, NEW p \in Principals, Deny(id, p)
      PROVE  ApprovalsTypeOK'
  <2>1. CASE MayDeny(id)
    <3>1. id \in Enrolled /\ Store(id, "denied", p)
      BY <1>3, <2>1 DEF Deny, MayDeny, LiveStatus
    <3> QED
      BY <1>3, <3>1, StoreKeepsType DEF Deny, ApprovalsTypeOK, Statuses
  <2>2. CASE ~MayDeny(id)
    BY <1>3, <2>2, TouchKeepsType DEF Deny, ApprovalsTypeOK
  <2> QED
    BY <2>1, <2>2
<1>4. ASSUME NEW id \in Ids, NEW a \in Actions, Consume(id, a)
      PROVE  ApprovalsTypeOK'
  <2>1. CASE MayConsume(id, a)
    <3>1. id \in Enrolled /\ Store(id, "consumed", records[id].decided_by)
      BY <1>4, <2>1 DEF Consume, MayConsume, LiveStatus
    <3>2. records[id].decided_by \in Principals \cup {Nobody}
      BY <3>1 DEF ApprovalsTypeOK, Enrolled, ApprovalRecord
    <3> QED
      BY <1>4, <3>1, <3>2, StoreKeepsType DEF Consume, ApprovalsTypeOK, Statuses
  <2>2. CASE ~MayConsume(id, a)
    BY <1>4, <2>2, TouchKeepsType DEF Consume, ApprovalsTypeOK
  <2> QED
    BY <2>1, <2>2
<1>5. ASSUME NEW id \in Ids, Get(id)
      PROVE  ApprovalsTypeOK'
  BY <1>5, TouchKeepsType DEF Get, ApprovalsTypeOK
<1>6. CASE Sweep
  <2>1. \A id \in Ids : Live(id) \in ApprovalRecord \cup {NoRecord}
    BY LiveIsRecord DEF ApprovalsTypeOK, Enrolled, Live, Stale, HasStatus
  <2>2. \A id \in Ids : id \notin Enrolled => Live(id) = NoRecord
    BY DEF Live, Stale, HasStatus, Enrolled
  <2> QED
    BY <1>6, <2>1, <2>2 DEF Sweep, ApprovalsTypeOK, Enrolled
<1>7. CASE PurgeTerminal
  BY <1>7 DEF PurgeTerminal, ApprovalsTypeOK, Enrolled
<1>8. CASE Tick
  <2>1. \A id \in Enrolled :
            [records[id] EXCEPT !.left = Elapse(@)] \in ApprovalRecord
    BY DEF ApprovalsTypeOK, Enrolled, ApprovalRecord, Elapse
  <2>2. records' \in [Ids -> ApprovalRecord \cup {NoRecord}]
    BY <1>8, <2>1 DEF Tick, ApprovalsTypeOK, HasStatus
  <2>3. Enrolled' \subseteq Enrolled
    BY <1>8 DEF Tick, HasStatus, Enrolled
  <2> QED
    BY <1>8, <2>2, <2>3 DEF Tick, ApprovalsTypeOK
<1>9. CASE UNCHANGED registryVars
  BY <1>9 DEF registryVars, ApprovalsTypeOK, Enrolled
<1> QED
  BY <1>1, <1>2, <1>3, <1>4, <1>5, <1>6, <1>7, <1>8, <1>9 DEF ApprovalsNext

\* The registry only ever holds well-formed records of fingerprintable
\* actions, under ids its factory produced.
THEOREM ApprovalsTypeCorrect == ApprovalsSpec => []ApprovalsTypeOK
<1>1. ApprovalsInit => ApprovalsTypeOK
  BY DEF ApprovalsInit, ApprovalsTypeOK, Enrolled
<1> QED
  BY <1>1, TypeInductive, PTL DEF ApprovalsSpec

-----------------------------------------------------------------------------
(* What one step can do to one id.                                         *)

Kept(id) == records'[id] = records[id] /\ (id \in issued' <=> id \in issued)

Enrolling(id) ==
    /\ id \notin issued /\ id \in issued'
    /\ records'[id] \in ApprovalRecord
    /\ records'[id].status = "pending"
    /\ records'[id].verdict = "needs_confirmation"
    /\ records'[id].decided_by = Nobody

Deciding(id, st, by) ==
    /\ id \in Enrolled /\ id \in issued'
    /\ records'[id] = [Live(id) EXCEPT !.status = st, !.decided_by = by]

Granting(id) ==
    /\ LiveStatus(id, {"pending"})
    /\ \E by \in Approvers : Deciding(id, "approved", by)

Denying(id) ==
    /\ LiveStatus(id, {"pending", "approved"})
    /\ \E by \in Principals : Deciding(id, "denied", by)

Consuming(id) ==
    /\ LiveStatus(id, {"approved"})
    /\ Deciding(id, "consumed", records[id].decided_by)

Touching(id) == id \in Enrolled /\ id \in issued' /\ records'[id] = Live(id)

Purging(id) ==
    /\ HasStatus(id, Terminal)
    /\ id \in issued' /\ records'[id] = NoRecord

Ageing(id) ==
    /\ HasStatus(id, {"pending"})
    /\ id \in issued' /\ records'[id] = [records[id] EXCEPT !.left = Elapse(@)]

OneRecordStep(id) ==
    \/ Kept(id)
    \/ Enrolling(id)
    \/ Granting(id)
    \/ Denying(id)
    \/ Consuming(id)
    \/ Touching(id)
    \/ Purging(id)
    \/ Ageing(id)

\* Touching one id leaves the others alone.
LEMMA TouchIsLocal ==
    ASSUME ApprovalsTypeOK, NEW id \in Ids, Touch(id), UNCHANGED issued,
           NEW other \in Ids
    PROVE  Touching(other) \/ Kept(other)
<1>1. CASE other = id /\ id \in Enrolled
  BY <1>1 DEF Touch, Touching, ApprovalsTypeOK
<1>2. CASE other # id \/ id \notin Enrolled
  BY <1>2 DEF Touch, Kept, ApprovalsTypeOK
<1> QED
  BY <1>1, <1>2

\* Deciding one id leaves the others alone.
LEMMA StoreIsLocal ==
    ASSUME ApprovalsTypeOK, NEW id \in Enrolled, NEW st, NEW by,
           Store(id, st, by), UNCHANGED issued, NEW other \in Ids
    PROVE  /\ other = id => Deciding(id, st, by)
           /\ other # id => Kept(other)
BY DEF Store, Deciding, Kept, ApprovalsTypeOK, Enrolled

\* Every step is, for every id, one of the eight things above.
LEMMA StepCases ==
    ASSUME ApprovalsTypeOK, ApprovalsTypeOK', [ApprovalsNext]_registryVars,
           NEW other \in Ids
    PROVE  OneRecordStep(other)
<1> USE DEF OneRecordStep
<1>1. ASSUME NEW id \in Ids, NEW a \in Actions, NEW v \in Verdicts,
             NEW p \in Principals, Request(id, a, v, p)
      PROVE  OneRecordStep(other)
  <2>1. CASE other = id
    <3>1. id \notin issued /\ id \in issued'
      BY <1>1 DEF Request
    <3>2. /\ records'[id].status = "pending"
          /\ records'[id].verdict = "needs_confirmation"
          /\ records'[id].decided_by = Nobody
      BY <1>1 DEF Request, MayRequest, ApprovalsTypeOK
    <3>3. records'[id] \in ApprovalRecord
      BY <1>1, TimeoutPositive
         DEF Request, MayRequest, ApprovalsTypeOK, ApprovalRecord, Fingerprints,
             Statuses, Verdicts
    <3> QED
      BY <2>1, <3>1, <3>2, <3>3 DEF Enrolling
  <2>2. CASE other # id
    BY <1>1, <2>2 DEF Request, Kept, ApprovalsTypeOK
  <2> QED
    BY <2>1, <2>2
<1>2. ASSUME NEW id \in Ids, NEW a \in Actions, NEW p \in Principals,
             Approve(id, a, p)
      PROVE  OneRecordStep(other)
  <2>1. CASE MayApprove(id, a, p)
    <3>1. id \in Enrolled /\ LiveStatus(id, {"pending"}) /\ p \in Approvers
      BY <2>1 DEF MayApprove, LiveStatus
    <3>2. Store(id, "approved", p) /\ UNCHANGED issued
      BY <1>2, <2>1 DEF Approve
    <3> QED
      BY <3>1, <3>2, StoreIsLocal DEF Granting
  <2>2. CASE ~MayApprove(id, a, p)
    BY <1>2, <2>2, TouchIsLocal DEF Approve
  <2> QED
    BY <2>1, <2>2
<1>3. ASSUME NEW id \in Ids, NEW p \in Principals, Deny(id, p)
      PROVE  OneRecordStep(other)
  <2>1. CASE MayDeny(id)
    <3>1. id \in Enrolled /\ LiveStatus(id, {"pending", "approved"})
      BY <2>1 DEF MayDeny, LiveStatus
    <3>2. Store(id, "denied", p) /\ UNCHANGED issued
      BY <1>3, <2>1 DEF Deny
    <3> QED
      BY <3>1, <3>2, StoreIsLocal DEF Denying
  <2>2. CASE ~MayDeny(id)
    BY <1>3, <2>2, TouchIsLocal DEF Deny
  <2> QED
    BY <2>1, <2>2
<1>4. ASSUME NEW id \in Ids, NEW a \in Actions, Consume(id, a)
      PROVE  OneRecordStep(other)
  <2>1. CASE MayConsume(id, a)
    <3>1. id \in Enrolled /\ LiveStatus(id, {"approved"})
      BY <2>1 DEF MayConsume, LiveStatus
    <3>2. Store(id, "consumed", records[id].decided_by) /\ UNCHANGED issued
      BY <1>4, <2>1 DEF Consume
    <3> QED
      BY <3>1, <3>2, StoreIsLocal DEF Consuming
  <2>2. CASE ~MayConsume(id, a)
    BY <1>4, <2>2, TouchIsLocal DEF Consume
  <2> QED
    BY <2>1, <2>2
<1>5. ASSUME NEW id \in Ids, Get(id)
      PROVE  OneRecordStep(other)
  BY <1>5, TouchIsLocal DEF Get
<1>6. CASE Sweep
  <2>1. records'[other] = Live(other) /\ issued' = issued
    BY <1>6 DEF Sweep
  <2>2. CASE other \in Enrolled
    BY <2>1, <2>2 DEF Touching, ApprovalsTypeOK
  <2>3. CASE other \notin Enrolled
    BY <2>1, <2>3 DEF Live, Stale, HasStatus, Kept
  <2> QED
    BY <2>2, <2>3
<1>7. CASE PurgeTerminal
  <2>1. CASE HasStatus(other, Terminal)
    BY <1>7, <2>1 DEF PurgeTerminal, Purging, HasStatus, ApprovalsTypeOK
  <2>2. CASE ~HasStatus(other, Terminal)
    BY <1>7, <2>2 DEF PurgeTerminal, Kept
  <2> QED
    BY <2>1, <2>2
<1>8. CASE Tick
  <2>1. CASE HasStatus(other, {"pending"})
    BY <1>8, <2>1 DEF Tick, Ageing, HasStatus, ApprovalsTypeOK
  <2>2. CASE ~HasStatus(other, {"pending"})
    BY <1>8, <2>2 DEF Tick, Kept
  <2> QED
    BY <2>1, <2>2
<1>9. CASE UNCHANGED registryVars
  BY <1>9 DEF registryVars, Kept
<1> QED
  BY <1>1, <1>2, <1>3, <1>4, <1>5, <1>6, <1>7, <1>8, <1>9 DEF ApprovalsNext

-----------------------------------------------------------------------------
(* The registry's properties.                                              *)

\* Phase read off the record, in both states of a step.
LEMMA PhaseIsStatus ==
    ASSUME NEW id \in Ids
    PROVE  /\ id \in Enrolled => Phase(id) = records[id].status
           /\ id \notin Enrolled =>
                 Phase(id) = IF id \in issued THEN "forgotten" ELSE "unused"
           /\ id \in Enrolled' => Phase(id)' = records'[id].status
           /\ id \notin Enrolled' =>
                 Phase(id)' = IF id \in issued' THEN "forgotten" ELSE "unused"
BY DEF Phase

\* What a lookup shows of an enrolled record.
LEMMA LiveShows ==
    ASSUME ApprovalsTypeOK, NEW id \in Enrolled
    PROVE  /\ Stale(id) => records[id].status = "pending" /\ Live(id).status = "expired"
           /\ ~Stale(id) => Live(id) = records[id]
BY DEF ApprovalsTypeOK, Enrolled, ApprovalRecord, Live, Stale, HasStatus

\* Deciding sets the status it is given.
LEMMA DecidingShows ==
    ASSUME ApprovalsTypeOK, NEW id \in Ids, NEW st \in Statuses,
           NEW by \in Principals \cup {Nobody}, Deciding(id, st, by)
    PROVE  /\ id \in Enrolled /\ id \in Enrolled'
           /\ records'[id].status = st
           /\ records'[id].decided_by = by
           /\ records'[id].left = records[id].left
           /\ records'[id].fingerprint = records[id].fingerprint
           /\ records'[id].verdict = records[id].verdict
           /\ records'[id].requested_by = records[id].requested_by
<1>1. Live(id) \in ApprovalRecord /\ records[id] \in ApprovalRecord
  BY LiveIsRecord DEF Deciding, ApprovalsTypeOK, Enrolled
<1>2. /\ Live(id).left = records[id].left
      /\ Live(id).fingerprint = records[id].fingerprint
      /\ Live(id).verdict = records[id].verdict
      /\ Live(id).requested_by = records[id].requested_by
  BY <1>1 DEF Live, ApprovalRecord
<1>3. records'[id] = [Live(id) EXCEPT !.status = st, !.decided_by = by]
  BY DEF Deciding
<1>4. records'[id] \in ApprovalRecord
  BY <1>1, <1>3 DEF ApprovalRecord
<1>5. id \in Enrolled /\ id \in Enrolled'
  BY <1>4, NoRecordIsNoRecord DEF Deciding, Enrolled
<1> QED
  BY <1>1, <1>2, <1>3, <1>5 DEF ApprovalRecord

\* How the status of one record moves in each of the eight cases.
LEMMA StatusMoves ==
    ASSUME ApprovalsTypeOK, ApprovalsTypeOK', NEW id \in Ids, OneRecordStep(id)
    PROVE  /\ Phase(id)' \in {Phase(id)} \cup MayBecome[Phase(id)]
           /\ Stale(id) => ~ (Phase(id)' \in {"approved", "consumed"})
<1>0. /\ id \in Enrolled => /\ id \in issued
                            /\ records[id] \in ApprovalRecord
      /\ id \in Enrolled' => /\ id \in issued'
                             /\ records'[id] \in ApprovalRecord
      /\ id \in Enrolled <=> records[id] # NoRecord
      /\ id \in Enrolled' <=> records'[id] # NoRecord
  BY DEF ApprovalsTypeOK, Enrolled
<1>s. Stale(id) => id \in Enrolled /\ Phase(id) = "pending"
  BY PhaseIsStatus DEF Stale, HasStatus
<1>l. LiveStatus(id, {"pending"}) => id \in Enrolled /\ Phase(id) = "pending" /\ ~Stale(id)
  BY <1>0, PhaseIsStatus, LiveShows DEF LiveStatus
<1>m. LiveStatus(id, {"approved"}) => id \in Enrolled /\ Phase(id) = "approved" /\ ~Stale(id)
  BY <1>0, PhaseIsStatus, LiveShows DEF LiveStatus
<1>1. CASE Kept(id)
  <2>1. Phase(id)' = Phase(id)
    BY <1>0, <1>1, PhaseIsStatus DEF Kept
  <2> QED
    BY <2>1, <1>s
<1>2. CASE Enrolling(id)
  <2>1. Phase(id) = "unused" /\ Phase(id)' = "pending"
    BY <1>0, <1>2, NoRecordIsNoRecord, PhaseIsStatus DEF Enrolling
  <2> QED
    BY <2>1 DEF MayBecome
<1>3. CASE Granting(id)
  <2>1. Phase(id)' = "approved"
    <3>1. PICK by \in Approvers : Deciding(id, "approved", by)
      BY <1>3 DEF Granting
    <3>2. by \in Principals \cup {Nobody} /\ "approved" \in Statuses
      BY ApproversAreKnown DEF Statuses
    <3> QED
      BY <3>1, <3>2, DecidingShows, PhaseIsStatus
  <2> QED
    BY <2>1, <1>3, <1>l DEF Granting, MayBecome
<1>4. CASE Denying(id)
  <2>1. Phase(id)' = "denied"
    <3>1. PICK by \in Principals : Deciding(id, "denied", by)
      BY <1>4 DEF Denying
    <3>2. by \in Principals \cup {Nobody} /\ "denied" \in Statuses
      BY ApproversAreKnown DEF Statuses
    <3> QED
      BY <3>1, <3>2, DecidingShows, PhaseIsStatus
  <2>2. Phase(id) \in {"pending", "approved"}
    BY <1>4, <1>l, <1>m DEF Denying, LiveStatus
  <2> QED
    BY <2>1, <2>2 DEF MayBecome
<1>5. CASE Consuming(id)
  <2>1. Phase(id)' = "consumed"
    <3>1. Deciding(id, "consumed", records[id].decided_by)
      BY <1>5 DEF Consuming
    <3>2. records[id].decided_by \in Principals \cup {Nobody}
      BY <1>0, <3>1 DEF Deciding, ApprovalRecord
    <3> QED
      BY <3>1, <3>2, DecidingShows, PhaseIsStatus DEF Statuses
  <2> QED
    BY <2>1, <1>5, <1>m DEF Consuming, MayBecome
<1>6. CASE Touching(id)
  <2>1. id \in Enrolled /\ id \in Enrolled'
    BY <1>0, <1>6, LiveIsRecord, NoRecordIsNoRecord DEF Touching
  <2>2. CASE Stale(id)
    BY <2>1, <2>2, <1>6, <1>s, LiveShows, PhaseIsStatus DEF Touching, MayBecome
  <2>3. CASE ~Stale(id)
    BY <2>1, <2>3, <1>6, LiveShows, PhaseIsStatus DEF Touching
  <2> QED
    BY <2>2, <2>3
<1>7. CASE Purging(id)
  <2>1. Phase(id)' = "forgotten"
    BY <1>0, <1>7, PhaseIsStatus DEF Purging
  <2>2. Phase(id) \in Terminal
    BY <1>7, PhaseIsStatus DEF Purging, HasStatus
  <2> QED
    BY <2>1, <2>2 DEF MayBecome, Terminal
<1>8. CASE Ageing(id)
  <2>1. id \in Enrolled /\ Phase(id) = "pending"
    BY <1>8, PhaseIsStatus DEF Ageing, HasStatus
  <2>2. records'[id] = [records[id] EXCEPT !.left = Elapse(@)]
    BY <1>8 DEF Ageing
  <2>3. records'[id].status = records[id].status /\ records'[id] \in ApprovalRecord
    BY <1>0, <2>1, <2>2 DEF ApprovalRecord, Elapse
  <2> QED
    BY <1>0, <2>1, <2>3, NoRecordIsNoRecord, PhaseIsStatus
<1> QED
  BY <1>1, <1>2, <1>3, <1>4, <1>5, <1>6, <1>7, <1>8 DEF OneRecordStep

LEMMA NextAdvances ==
    ASSUME ApprovalsTypeOK, [ApprovalsNext]_registryVars
    PROVE  \A id \in Ids :
              /\ Phase(id)' \in {Phase(id)} \cup MayBecome[Phase(id)]
              /\ Stale(id) => ~ (Phase(id)' \in {"approved", "consumed"})
BY TypeInductive, StepCases, StatusMoves

\* Single use: for any registry, no call sequence moves an approval backwards,
\* revives a terminal one, or forgets a live one.
THEOREM LifecycleIsOneWay == ApprovalsSpec => LifecycleOnlyAdvances
<1>1. ASSUME ApprovalsTypeOK, [ApprovalsNext]_registryVars
      PROVE  [\A id \in Ids : Phase(id)' \in {Phase(id)} \cup MayBecome[Phase(id)]]_registryVars
  BY <1>1, NextAdvances
<1> QED
  BY <1>1, ApprovalsTypeCorrect, PTL DEF ApprovalsSpec, LifecycleOnlyAdvances

\* Fail-closed timeout: for any timeout, a stale approval is never granted.
THEOREM StaleStaysUngranted == ApprovalsSpec => StaleIsNeverGranted
<1>1. ASSUME ApprovalsTypeOK, [ApprovalsNext]_registryVars
      PROVE  [\A id \in Ids : Stale(id) =>
                 ~ (Phase(id)' \in {"approved", "consumed"})]_registryVars
  BY <1>1, NextAdvances
<1> QED
  BY <1>1, ApprovalsTypeCorrect, PTL DEF ApprovalsSpec, StaleIsNeverGranted

-----------------------------------------------------------------------------

\* What one step can do to an authorised record.
LEMMA GrantsInductive ==
    ASSUME ApprovalsTypeOK, GrantsAreAuthorised, [ApprovalsNext]_registryVars
    PROVE  GrantsAreAuthorised'
<1>0. ApprovalsTypeOK'
  BY TypeInductive
<1> SUFFICES ASSUME NEW id \in Enrolled'
             PROVE  /\ records'[id].verdict = "needs_confirmation"
                    /\ records'[id].status \in {"approved", "consumed"} =>
                          /\ records'[id].decided_by \in Approvers
                          /\ records'[id].left > 0
  BY DEF GrantsAreAuthorised
<1>1. id \in Ids /\ records'[id] \in ApprovalRecord /\ records'[id] # NoRecord
  BY <1>0 DEF ApprovalsTypeOK, Enrolled
<1>2. id \in Enrolled =>
        /\ records[id] \in ApprovalRecord
        /\ records[id].verdict = "needs_confirmation"
        /\ records[id].status \in {"approved", "consumed"} =>
              records[id].decided_by \in Approvers /\ records[id].left > 0
  BY DEF ApprovalsTypeOK, GrantsAreAuthorised, Enrolled
<1>3. CASE Kept(id)
  BY <1>1, <1>2, <1>3 DEF Kept, Enrolled
<1>4. CASE Enrolling(id)
  BY <1>4 DEF Enrolling
<1>5. CASE Granting(id)
  <2>1. PICK by \in Approvers : Deciding(id, "approved", by)
    BY <1>5 DEF Granting
  <2>2. by \in Principals \cup {Nobody} /\ "approved" \in Statuses
    BY ApproversAreKnown DEF Statuses
  <2>3. id \in Enrolled /\ ~Stale(id) /\ records[id].status = "pending"
    BY <1>5, <2>1, LiveShows DEF Granting, LiveStatus, Deciding
  <2>4. records[id].left > 0
    BY <1>2, <2>3 DEF Stale, HasStatus, ApprovalRecord
  <2> QED
    BY <1>1, <1>2, <2>1, <2>2, <2>3, <2>4, DecidingShows
<1>6. CASE Denying(id)
  <2>1. PICK by \in Principals : Deciding(id, "denied", by)
    BY <1>6 DEF Denying
  <2> QED
    BY <1>1, <1>2, <2>1, DecidingShows DEF Statuses
<1>7. CASE Consuming(id)
  <2>1. Deciding(id, "consumed", records[id].decided_by)
    BY <1>7 DEF Consuming
  <2>2. id \in Enrolled /\ records[id].status = "approved"
    BY <1>7, <2>1, LiveShows DEF Consuming, LiveStatus, Deciding
  <2>3. records[id].decided_by \in Principals \cup {Nobody}
    BY <1>2, <2>2 DEF ApprovalRecord
  <2> QED
    BY <1>1, <1>2, <2>1, <2>2, <2>3, DecidingShows DEF Statuses
<1>8. CASE Touching(id)
  BY <1>1, <1>2, <1>8 DEF Touching, Live, ApprovalRecord
<1>9. CASE Purging(id)
  BY <1>1, <1>9 DEF Purging
<1>10. CASE Ageing(id)
  <2>1. id \in Enrolled /\ records[id].status = "pending"
    BY <1>10 DEF Ageing, HasStatus
  <2>2. records'[id] = [records[id] EXCEPT !.left = Elapse(@)]
    BY <1>10 DEF Ageing
  <2>3. records'[id].status = "pending" /\ records'[id].verdict = records[id].verdict
    BY <1>2, <2>1, <2>2 DEF ApprovalRecord, Elapse
  <2> QED
    BY <1>2, <2>1, <2>3
<1> QED
  BY <1>0, <1>1, <1>3, <1>4, <1>5, <1>6, <1>7, <1>8, <1>9, <1>10, StepCases
     DEF OneRecordStep

\* Authorised and in time: for any set of approvers and any timeout, whatever
\* is approved or consumed was decided by an approver before its deadline.
THEOREM GrantsStayAuthorised == ApprovalsSpec => []GrantsAreAuthorised
<1>1. ApprovalsInit => GrantsAreAuthorised
  BY DEF ApprovalsInit, GrantsAreAuthorised, Enrolled
<1> QED
  BY <1>1, ApprovalsTypeCorrect, GrantsInductive, PTL DEF ApprovalsSpec

\* What one step can do to the binding of a record that stays enrolled.
LEMMA BindingStep ==
    ASSUME ApprovalsTypeOK, [ApprovalsNext]_registryVars,
           NEW id \in Enrolled, records'[id] # NoRecord
    PROVE  /\ records'[id].fingerprint = records[id].fingerprint
           /\ records'[id].verdict = records[id].verdict
           /\ records'[id].requested_by = records[id].requested_by
<1>1. id \in Ids /\ id \in issued /\ records[id] \in ApprovalRecord /\ OneRecordStep(id)
  BY TypeInductive, StepCases DEF ApprovalsTypeOK, Enrolled
<1>2. CASE Granting(id)
  <2>1. PICK by \in Approvers : Deciding(id, "approved", by)
    BY <1>2 DEF Granting
  <2>2. by \in Principals \cup {Nobody} /\ "approved" \in Statuses
    BY ApproversAreKnown DEF Statuses
  <2> QED
    BY <1>1, <2>1, <2>2, DecidingShows
<1>3. CASE Denying(id)
  <2>1. PICK by \in Principals : Deciding(id, "denied", by)
    BY <1>3 DEF Denying
  <2> QED
    BY <1>1, <2>1, DecidingShows DEF Statuses
<1>4. CASE Consuming(id)
  <2>1. Deciding(id, "consumed", records[id].decided_by)
    BY <1>4 DEF Consuming
  <2>2. records[id].decided_by \in Principals \cup {Nobody}
    BY <1>1 DEF ApprovalRecord
  <2> QED
    BY <1>1, <2>1, <2>2, DecidingShows DEF Statuses
<1>5. CASE Touching(id)
  BY <1>1, <1>5 DEF Touching, Live, ApprovalRecord
<1>6. CASE Ageing(id)
  <2>1. records'[id] = [records[id] EXCEPT !.left = Elapse(@)]
    BY <1>6 DEF Ageing
  <2> QED
    BY <1>1, <2>1 DEF ApprovalRecord, Elapse
<1>7. CASE Kept(id) \/ Enrolling(id) \/ Purging(id)
  BY <1>1, <1>7 DEF Kept, Enrolling, Purging
<1> QED
  BY <1>1, <1>2, <1>3, <1>4, <1>5, <1>6, <1>7 DEF OneRecordStep

\* The registry's state: well-formed records, every grant authorised in time.
THEOREM RegistryIsSound == ApprovalsSpec => []ApprovalsAreSound
BY ApprovalsTypeCorrect, GrantsStayAuthorised, PTL DEF ApprovalsAreSound

\* The registry's steps: forward only, and never from stale to granted.
THEOREM RegistryOnlyAdvances == ApprovalsSpec => ApprovalsOnlyAdvance
BY LifecycleIsOneWay, StaleStaysUngranted DEF ApprovalsOnlyAdvance

-----------------------------------------------------------------------------
(* The dispatcher.                                                         *)

\* To the registry, every dispatcher step is one registry call or none.
LEMMA DispatchStepIsRegistryStep ==
    ASSUME [DispatchNext]_dispatchVars
    PROVE  [ApprovalsNext]_registryVars
<1> USE DEF ApprovalsNext
<1>1. ASSUME NEW t \in Tools, Register(t)
      PROVE  UNCHANGED registryVars
  BY <1>1 DEF Register
<1>2. ASSUME NEW a \in Actions, DispatchSafe(a)
      PROVE  UNCHANGED registryVars
  BY <1>2 DEF DispatchSafe
<1>3. ASSUME NEW id \in Ids, NEW a \in Actions, NEW p \in Principals,
             DispatchEnrol(a, p, id)
      PROVE  ApprovalsNext
  <2>1. Verdict[a] \in Verdicts
    BY VerdictIsTotal
  <2> QED
    BY <1>3, <2>1 DEF DispatchEnrol
<1>4. ASSUME NEW id \in Ids, NEW a \in Actions, ExecuteApproved(id, a)
      PROVE  ApprovalsNext
  BY <1>4 DEF ExecuteApproved
<1>5. ASSUME NEW id \in Ids, NEW a \in Actions, NEW p \in Principals,
             DecideApprove(id, a, p)
      PROVE  ApprovalsNext
  BY <1>5 DEF DecideApprove
<1>6. ASSUME NEW id \in Ids, NEW p \in Principals, DecideDeny(id, p)
      PROVE  ApprovalsNext
  BY <1>6 DEF DecideDeny
<1>7. ASSUME NEW id \in Ids, Lookup(id)
      PROVE  ApprovalsNext
  BY <1>7 DEF Lookup
<1>8. CASE Housekeeping
  BY <1>8 DEF Housekeeping
<1>9. CASE TimePasses
  BY <1>9 DEF TimePasses
<1>10. CASE UNCHANGED dispatchVars
  BY <1>10 DEF dispatchVars
<1> QED
  BY <1>1, <1>2, <1>3, <1>4, <1>5, <1>6, <1>7, <1>8, <1>9, <1>10 DEF DispatchNext

\* Hence whatever is proved of the registry on its own holds inside the
\* dispatcher; in particular its type invariant.
LEMMA RegistryInside == DispatchSpec => ApprovalsSpec
<1>1. DispatchInit => ApprovalsInit
  BY DEF DispatchInit
<1> QED
  BY <1>1, DispatchStepIsRegistryStep, PTL DEF DispatchSpec, ApprovalsSpec

\* The inductive invariant.  A tool run under an id puts it where no record
\* can be consumed again, and an approved record has a grant behind it.
RunsOnlyWhenSpent ==
    \A id \in Ids : runs[id] = <<>> \/ Phase(id) \in {"consumed", "forgotten"}

ApprovedHasGrant ==
    \A id \in Enrolled : records[id].status = "approved" =>
        \E g \in grants : /\ g.id = id
                          /\ g.by \in Approvers
                          /\ Fingerprint[g.action] = records[id].fingerprint

RunsTyped == runs \in [Ids -> Seq(Actions)]

DispatchInv ==
    /\ ApprovalsTypeOK
    /\ RunsTyped
    /\ RunsOnlyWhenSpent
    /\ ApprovedHasGrant
    /\ AtMostOneRunPerApproval
    /\ RunsWereApproved

\* A run is added only by an execute_approved whose consume succeeds, and
\* grants are never withdrawn from the history.
LEMMA RunStep ==
    ASSUME [DispatchNext]_dispatchVars
    PROVE  /\ grants \subseteq grants'
           /\ \/ runs' = runs
              \/ \E id \in Ids, a \in Actions :
                    /\ MayConsume(id, a)
                    /\ Store(id, "consumed", records[id].decided_by)
                    /\ UNCHANGED issued
                    /\ runs' = [runs EXCEPT ![id] = Append(@, a)]
BY DEF DispatchNext, dispatchVars, registryVars, Register, DispatchSafe,
       DispatchEnrol, ExecuteApproved, Consume, DecideApprove, DecideDeny, Lookup,
       Housekeeping, TimePasses

\* A touched or untouched record is approved only if it was.
LEMMA ApprovedWasApproved ==
    ASSUME ApprovalsTypeOK, NEW id \in Ids, id \in Enrolled',
           records'[id].status = "approved",
           Kept(id) \/ Touching(id) \/ Ageing(id) \/ Purging(id) \/ Enrolling(id)
    PROVE  id \in Enrolled /\ records'[id] = records[id]
<1>1. id \in Enrolled => records[id] \in ApprovalRecord
  BY DEF ApprovalsTypeOK, Enrolled
<1>2. CASE Kept(id)
  BY <1>2 DEF Kept, Enrolled
<1>3. CASE Touching(id)
  <2>1. id \in Enrolled /\ records'[id] = Live(id)
    BY <1>3 DEF Touching
  <2> QED
    BY <2>1, LiveShows
<1>4. CASE Ageing(id)
  <2>1. /\ id \in Enrolled /\ records[id].status = "pending"
        /\ records'[id] = [records[id] EXCEPT !.left = Elapse(@)]
    BY <1>4 DEF Ageing, HasStatus
  <2>2. records'[id].status = records[id].status
    BY <1>1, <2>1 DEF ApprovalRecord
  <2> QED
    BY <2>1, <2>2
<1>5. CASE Purging(id)
  BY <1>5 DEF Purging, Enrolled
<1>6. CASE Enrolling(id)
  BY <1>6 DEF Enrolling
<1> QED
  BY <1>2, <1>3, <1>4, <1>5, <1>6

\* Whatever is approved after a step either was approved before, unchanged, or
\* has just been granted, and the grant is in the history.
LEMMA GrantStep ==
    ASSUME ApprovalsTypeOK, [DispatchNext]_dispatchVars, NEW id \in Enrolled',
           records'[id].status = "approved"
    PROVE  /\ id \in Enrolled
           /\ \/ records'[id] = records[id]
              \/ \E g \in grants' : /\ g.id = id
                                    /\ g.by \in Approvers
                                    /\ Fingerprint[g.action] = records'[id].fingerprint
<1>0. [ApprovalsNext]_registryVars /\ ApprovalsTypeOK' /\ id \in Ids /\ OneRecordStep(id)
  <2>1. [ApprovalsNext]_registryVars
    BY DispatchStepIsRegistryStep
  <2>2. ApprovalsTypeOK' /\ id \in Ids
    BY <2>1, TypeInductive DEF Enrolled
  <2> QED
    BY <2>1, <2>2, StepCases
<1>1. CASE Kept(id) \/ Touching(id) \/ Ageing(id) \/ Purging(id) \/ Enrolling(id)
  BY <1>0, <1>1, ApprovedWasApproved
<1>2. CASE Denying(id)
  <2>1. PICK by \in Principals : Deciding(id, "denied", by)
    BY <1>2 DEF Denying
  <2> QED
    BY <1>0, <2>1, DecidingShows DEF Statuses
<1>3. CASE Consuming(id)
  <2>1. Deciding(id, "consumed", records[id].decided_by)
    BY <1>3 DEF Consuming
  <2>2. records[id].decided_by \in Principals \cup {Nobody}
    BY <2>1 DEF Deciding, ApprovalsTypeOK, Enrolled, ApprovalRecord
  <2> QED
    BY <1>0, <2>1, <2>2, DecidingShows DEF Statuses
<1>4. CASE Granting(id)
  <2>0. PICK who \in Approvers : Deciding(id, "approved", who)
    BY <1>4 DEF Granting
  <2>1. /\ id \in Enrolled /\ records[id].status = "pending" /\ ~Stale(id)
        /\ records'[id].fingerprint = records[id].fingerprint
    <3>1. who \in Principals \cup {Nobody} /\ "approved" \in Statuses
      BY ApproversAreKnown DEF Statuses
    <3>2. records'[id].fingerprint = records[id].fingerprint /\ id \in Enrolled
      BY <1>0, <2>0, <3>1, DecidingShows
    <3> QED
      BY <1>4, <3>2, LiveShows DEF Granting, LiveStatus
  <2>2. PICK other \in Ids, a \in Actions, p \in Principals :
            DecideApprove(other, a, p) /\ MayApprove(other, a, p)
    <3>1. ASSUME NEW x \in Ids, Touch(x)
          PROVE  FALSE
      BY <2>1, <3>1, <1>0 DEF Touch, Live, ApprovalsTypeOK, Enrolled
    <3>2. ASSUME NEW x \in Ids, NEW st \in {"denied", "consumed"}, NEW by, Store(x, st, by),
                 x \in Enrolled
          PROVE  FALSE
      <4>1. CASE x = id
        <5>1. records'[id] = [Live(id) EXCEPT !.status = st, !.decided_by = by]
          BY <1>0, <3>2, <4>1 DEF Store, ApprovalsTypeOK
        <5>2. Live(id) = records[id] /\ records[id] \in ApprovalRecord
          BY <2>1, LiveShows DEF ApprovalsTypeOK, Enrolled
        <5> QED
          BY <5>1, <5>2, <3>2 DEF ApprovalRecord
      <4>2. CASE x # id
        BY <1>0, <2>1, <3>2, <4>2 DEF Store, ApprovalsTypeOK
      <4> QED
        BY <4>1, <4>2
    <3>3. ~UNCHANGED records
      BY <2>1
    <3>4. ASSUME NEW x \in Ids, NEW a \in Actions, NEW p \in Principals,
                 DispatchEnrol(a, p, x)
          PROVE  FALSE
      <4>1. x # id
        BY <2>1, <3>4 DEF DispatchEnrol, Request, ApprovalsTypeOK
      <4> QED
        BY <1>0, <2>1, <3>4, <4>1 DEF DispatchEnrol, Request, ApprovalsTypeOK
    <3>5. ASSUME NEW x \in Ids, NEW a \in Actions, ExecuteApproved(x, a)
          PROVE  FALSE
      BY <3>1, <3>2, <3>5 DEF ExecuteApproved, Consume, MayConsume, LiveStatus
    <3>6. ASSUME NEW x \in Ids, NEW p \in Principals, DecideDeny(x, p)
          PROVE  FALSE
      BY <3>1, <3>2, <3>6 DEF DecideDeny, Deny, MayDeny, LiveStatus
    <3>7. ASSUME NEW x \in Ids, Lookup(x)
          PROVE  FALSE
      BY <3>1, <3>7 DEF Lookup, Get
    <3>8. ~Housekeeping
      <4>1. ~Sweep
        BY <1>0, <2>1 DEF Sweep, Live
      <4>2. ~PurgeTerminal
        BY <1>0, <2>1 DEF PurgeTerminal, HasStatus, Terminal
      <4> QED
        BY <4>1, <4>2 DEF Housekeeping
    <3>9. ~TimePasses
      <4>1. HasStatus(id, {"pending"}) /\ records[id] \in ApprovalRecord
        BY <2>1 DEF HasStatus, ApprovalsTypeOK, Enrolled
      <4>2. [records[id] EXCEPT !.left = Elapse(@)].status = "pending"
        BY <2>1, <4>1 DEF ApprovalRecord
      <4> QED
        BY <1>0, <4>1, <4>2 DEF TimePasses, Tick
    <3>10. PICK other \in Ids, a \in Actions, p \in Principals : DecideApprove(other, a, p)
      BY <3>3, <3>4, <3>5, <3>6, <3>7, <3>8, <3>9
         DEF DispatchNext, dispatchVars, registryVars, Register, DispatchSafe
    <3>11. MayApprove(other, a, p)
      BY <3>1, <3>10 DEF DecideApprove, Approve
    <3> QED
      BY <3>10, <3>11
  <2>3. other = id
    <3>1. Store(other, "approved", p)
      BY <2>2 DEF DecideApprove, Approve
    <3> QED
      BY <1>0, <2>1, <3>1 DEF Store, ApprovalsTypeOK
  <2>4. [id |-> other, action |-> a, by |-> p] \in grants'
    BY <2>2 DEF DecideApprove
  <2>5. p \in Approvers /\ Fingerprint[a] = records[id].fingerprint
    BY <2>2, <2>3 DEF MayApprove
  <2> QED
    BY <2>1, <2>3, <2>4, <2>5
<1> QED
  BY <1>0, <1>1, <1>2, <1>3, <1>4 DEF OneRecordStep

-----------------------------------------------------------------------------
\* MayConsume shows an approved record bound to the fingerprint of the action.
LEMMA ConsumableIsApproved ==
    ASSUME ApprovalsTypeOK, NEW id \in Ids, NEW a \in Actions, MayConsume(id, a)
    PROVE  /\ id \in Enrolled
           /\ records[id].status = "approved"
           /\ Phase(id) = "approved"
           /\ Fingerprint[a] = records[id].fingerprint
<1>1. id \in Enrolled /\ Live(id).status = "approved" /\ Fingerprint[a] = records[id].fingerprint
  BY DEF MayConsume, LiveStatus
<1> QED
  BY <1>1, LiveShows DEF Phase

LEMMA DispatchInvInductive ==
    ASSUME DispatchInv, [DispatchNext]_dispatchVars
    PROVE  DispatchInv'
<1> USE DEF DispatchInv
<1>1. [ApprovalsNext]_registryVars
  BY DispatchStepIsRegistryStep
<1>2. ApprovalsTypeOK'
  BY <1>1, TypeInductive
<1>3. /\ grants \subseteq grants'
      /\ \/ runs' = runs
         \/ \E id \in Ids, a \in Actions :
               /\ MayConsume(id, a)
               /\ Store(id, "consumed", records[id].decided_by)
               /\ UNCHANGED issued
               /\ runs' = [runs EXCEPT ![id] = Append(@, a)]
  BY RunStep
<1>4. ApprovedHasGrant'
  <2> SUFFICES ASSUME NEW id \in Enrolled', records'[id].status = "approved"
               PROVE  \E g \in grants' : /\ g.id = id
                                         /\ g.by \in Approvers
                                         /\ Fingerprint[g.action] = records'[id].fingerprint
    BY DEF ApprovedHasGrant
  <2>1. CASE records'[id] = records[id]
    <3>1. id \in Enrolled /\ records[id].status = "approved"
      BY <2>1, GrantStep
    <3> QED
      BY <1>3, <2>1, <3>1 DEF ApprovedHasGrant
  <2>2. CASE records'[id] # records[id]
    BY <2>2, GrantStep
  <2> QED
    BY <2>1, <2>2
<1>5. CASE runs' = runs
  <2>1. RunsTyped' /\ AtMostOneRunPerApproval'
    BY <1>5 DEF RunsTyped, AtMostOneRunPerApproval
  <2>2. RunsWereApproved'
    BY <1>3, <1>5 DEF RunsWereApproved
  <2>3. RunsOnlyWhenSpent'
    <3> SUFFICES ASSUME NEW id \in Ids, runs[id] # <<>>
                 PROVE  Phase(id)' \in {"consumed", "forgotten"}
      BY <1>5 DEF RunsOnlyWhenSpent
    <3>1. Phase(id) \in {"consumed", "forgotten"}
      BY DEF RunsOnlyWhenSpent
    <3>2. Phase(id)' \in {Phase(id)} \cup MayBecome[Phase(id)]
      BY <1>1, NextAdvances
    <3> QED
      BY <3>1, <3>2 DEF MayBecome
  <2> QED
    BY <1>2, <1>4, <2>1, <2>2, <2>3
<1>6. CASE runs' # runs
  <2>1. PICK id \in Ids, a \in Actions :
            /\ MayConsume(id, a)
            /\ Store(id, "consumed", records[id].decided_by)
            /\ UNCHANGED issued
            /\ runs' = [runs EXCEPT ![id] = Append(@, a)]
    BY <1>3, <1>6
  <2>2. /\ id \in Enrolled /\ records[id].status = "approved" /\ Phase(id) = "approved"
        /\ Fingerprint[a] = records[id].fingerprint
    BY <2>1, ConsumableIsApproved
  <2>3. runs[id] = <<>>
    BY <2>2 DEF RunsOnlyWhenSpent
  <2>4. /\ runs'[id] = <<a>>
        /\ \A other \in Ids : other # id => runs'[other] = runs[other]
    BY <2>1, <2>3 DEF RunsTyped
  <2>5. RunsTyped'
    BY <2>1, <2>4 DEF RunsTyped
  <2>6. AtMostOneRunPerApproval'
    <3> SUFFICES ASSUME NEW other \in Ids
                 PROVE  Len(runs'[other]) <= 1
      BY DEF AtMostOneRunPerApproval
    <3>1. CASE other # id
      BY <2>4, <3>1 DEF AtMostOneRunPerApproval
    <3>2. CASE other = id
      <4>1. runs'[other] = <<a>>
        BY <2>4, <3>2
      <4>2. Len(<<a>>) = 1
        OBVIOUS
      <4>3. Len(runs'[other]) = 1
        BY <4>1, <4>2, Zenon
      <4> QED
        BY <4>3
    <3> QED
      BY <3>1, <3>2
  <2>7. RunsWereApproved'
    <3>1. PICK g \in grants : /\ g.id = id
                              /\ g.by \in Approvers
                              /\ Fingerprint[g.action] = Fingerprint[a]
      BY <2>2 DEF ApprovedHasGrant
    <3> SUFFICES ASSUME NEW other \in Ids, NEW i \in DOMAIN runs'[other]
                 PROVE  \E h \in grants' : /\ h.id = other
                                           /\ h.by \in Approvers
                                           /\ Fingerprint[h.action] = Fingerprint[runs'[other][i]]
      BY DEF RunsWereApproved
    <3>2. CASE other = id
      <4>1. runs'[other][i] = a
        BY <2>4, <3>2
      <4> QED
        BY <1>3, <3>1, <3>2, <4>1
    <3>3. CASE other # id
      BY <1>3, <2>4, <3>3 DEF RunsWereApproved
    <3> QED
      BY <3>2, <3>3
  <2>8. RunsOnlyWhenSpent'
    <3> SUFFICES ASSUME NEW other \in Ids, runs'[other] # <<>>
                 PROVE  Phase(other)' \in {"consumed", "forgotten"}
      BY DEF RunsOnlyWhenSpent
    <3>1. CASE other = id
      <4>1. Deciding(id, "consumed", records[id].decided_by)
        BY <2>1, <2>2, StoreIsLocal
      <4>2. records[id].decided_by \in Principals \cup {Nobody}
        BY <2>2 DEF ApprovalsTypeOK, Enrolled, ApprovalRecord
      <4>3. id \in Enrolled' /\ records'[id].status = "consumed"
        BY <4>1, <4>2, DecidingShows DEF Statuses
      <4> QED
        BY <3>1, <4>3, PhaseIsStatus
    <3>2. CASE other # id
      <4>1. Phase(other) \in {"consumed", "forgotten"}
        BY <2>4, <3>2 DEF RunsOnlyWhenSpent
      <4>2. Phase(other)' \in {Phase(other)} \cup MayBecome[Phase(other)]
        BY <1>1, NextAdvances
      <4> QED
        BY <4>1, <4>2 DEF MayBecome
    <3> QED
      BY <3>1, <3>2
  <2> QED
    BY <1>2, <1>4, <2>5, <2>6, <2>7, <2>8
<1> QED
  BY <1>5, <1>6

LEMMA DispatchInvHolds == DispatchSpec => []DispatchInv
<1>1. DispatchInit => DispatchInv
  <2> SUFFICES ASSUME DispatchInit
               PROVE  DispatchInv
    OBVIOUS
  <2>1. ApprovalsTypeOK
    BY DEF DispatchInit, ApprovalsInit, ApprovalsTypeOK, Enrolled
  <2>2. \A id \in Ids : runs[id] = <<>>
    BY DEF DispatchInit
  <2>3. RunsTyped /\ RunsOnlyWhenSpent /\ AtMostOneRunPerApproval /\ RunsWereApproved
    BY <2>2 DEF DispatchInit, RunsTyped, RunsOnlyWhenSpent, AtMostOneRunPerApproval,
       RunsWereApproved
  <2>4. ApprovedHasGrant
    BY DEF DispatchInit, ApprovalsInit, ApprovedHasGrant, Enrolled
  <2> QED
    BY <2>1, <2>3, <2>4 DEF DispatchInv
<1> QED
  BY <1>1, DispatchInvInductive, PTL DEF DispatchSpec

\* Single use, end to end: for any number of concurrent callers, an approval
\* id starts a tool at most once.
THEOREM OneRunPerApproval == DispatchSpec => []AtMostOneRunPerApproval
BY DispatchInvHolds, PTL DEF DispatchInv

\* Bound to the exact action: whatever ran under an id was approved under that
\* id, by an approver, with the same fingerprint.
THEOREM RunsHaveGrants == DispatchSpec => []RunsWereApproved
BY DispatchInvHolds, PTL DEF DispatchInv

\* The other histories keep their types, whatever is registered and granted.
HistoriesTyped ==
    /\ registered \subseteq Tools
    /\ ungated \subseteq Actions
    /\ grants \subseteq Grant

LEMMA HistoriesStayTyped == DispatchSpec => []HistoriesTyped
<1>1. DispatchInit => HistoriesTyped
  BY DEF DispatchInit, HistoriesTyped
<1>2. ASSUME HistoriesTyped, [DispatchNext]_dispatchVars
      PROVE  HistoriesTyped'
  <2>1. ASSUME NEW t \in Tools, Register(t)
        PROVE  HistoriesTyped'
    BY <1>2, <2>1 DEF HistoriesTyped, Register
  <2>2. ASSUME NEW a \in Actions, DispatchSafe(a)
        PROVE  HistoriesTyped'
    BY <1>2, <2>2 DEF HistoriesTyped, DispatchSafe
  <2>3. ASSUME NEW id \in Ids, NEW a \in Actions, NEW p \in Principals, DecideApprove(id, a, p)
        PROVE  HistoriesTyped'
    <3>1. [id |-> id, action |-> a, by |-> p] \in Grant
      BY DEF Grant
    <3> QED
      BY <1>2, <2>3, <3>1 DEF HistoriesTyped, DecideApprove
  <2>4. ASSUME UNCHANGED <<registered, ungated, grants>>
        PROVE  HistoriesTyped'
    BY <1>2, <2>4 DEF HistoriesTyped
  <2> QED
    BY <1>2, <2>1, <2>2, <2>3, <2>4
       DEF DispatchNext, dispatchVars, DispatchEnrol, ExecuteApproved, DecideDeny, Lookup,
           Housekeeping, TimePasses
<1> QED
  BY <1>1, <1>2, PTL DEF DispatchSpec

\* The dispatcher's whole promise on approvals, for any number of callers.
THEOREM DispatcherIsGated == DispatchSpec => []RunsAreGated
<1>1. DispatchInv /\ HistoriesTyped => RunsAreGated
  BY DEF DispatchInv, HistoriesTyped, RunsTyped, RunsAreGated, DispatchTypeOK
<1> QED
  BY <1>1, DispatchInvHolds, HistoriesStayTyped, PTL

-----------------------------------------------------------------------------
(* The dispatcher implements GatedExecution.  A slot's phase is read off   *)
(* the registry: enrolling proposes, approving grants, a consuming         *)
(* execution performs, and every other call closes some set of slots,      *)
(* possibly none.                                                          *)

\* The slot phase of an id that has run nothing, from its registry phase.
SlotOf == [ unused    |-> "unused",
            pending   |-> "proposed",
            approved  |-> "granted",
            consumed  |-> "closed",
            denied    |-> "closed",
            expired   |-> "closed",
            forgotten |-> "closed" ]

LEMMA PhaseInSlotOf ==
    ASSUME ApprovalsTypeOK, NEW id \in Ids
    PROVE  /\ Phase(id) \in DOMAIN SlotOf
           /\ Phase(id) = "unused" <=> id \notin issued
           /\ Phase(id) \in {"pending", "approved"} => id \in Enrolled
BY DEF ApprovalsTypeOK, Enrolled, ApprovalRecord, Statuses, Phase, SlotOf

LEMMA SlotIsPhase ==
    ASSUME ApprovalsTypeOK, NEW id \in Ids
    PROVE  SlotPhase(id) = IF runs[id] # <<>> THEN "spent" ELSE SlotOf[Phase(id)]
<1>1. CASE id \in Enrolled
  <2>1. /\ Phase(id) = records[id].status /\ records[id].status \in Statuses
        /\ id \in issued
    BY <1>1, PhaseIsStatus DEF ApprovalsTypeOK, Enrolled, ApprovalRecord
  <2> QED
    BY <1>1, <2>1 DEF SlotPhase, SlotOf, HasStatus, Statuses
<1>2. CASE id \notin Enrolled
  <2>1. Phase(id) = IF id \in issued THEN "forgotten" ELSE "unused"
    BY <1>2, PhaseIsStatus
  <2> QED
    BY <1>2, <2>1 DEF SlotPhase, SlotOf, HasStatus
<1> QED
  BY <1>1, <1>2

\* Every step moves slots only as their registry phases move.
LEMMA SlotIsPhaseNext ==
    ASSUME ApprovalsTypeOK', NEW id \in Ids
    PROVE  /\ SlotPhase(id)' = IF runs'[id] # <<>> THEN "spent" ELSE SlotOf[Phase(id)']
           /\ Phase(id)' \in DOMAIN SlotOf
           /\ Phase(id)' = "unused" <=> id \notin issued'
<1>1. CASE id \in Enrolled'
  <2>1. /\ Phase(id)' = records'[id].status /\ records'[id].status \in Statuses
        /\ id \in issued' /\ records'[id] # NoRecord
    BY <1>1, PhaseIsStatus DEF ApprovalsTypeOK, Enrolled, ApprovalRecord
  <2> QED
    BY <1>1, <2>1 DEF SlotPhase, SlotOf, HasStatus, Statuses
<1>2. CASE id \notin Enrolled'
  <2>1. Phase(id)' = IF id \in issued' THEN "forgotten" ELSE "unused"
    BY <1>2, PhaseIsStatus
  <2> QED
    BY <1>2, <2>1 DEF SlotPhase, SlotOf, HasStatus
<1> QED
  BY <1>1, <1>2

-----------------------------------------------------------------------------
\* The calls that grant nothing, whatever else they do to the registry.
GrantsNothing ==
    \/ UNCHANGED records
    \/ \E x \in Ids : Touch(x)
    \/ \E x \in Enrolled, st \in {"denied", "consumed"}, by \in Principals \cup {Nobody} :
          Store(x, st, by)
    \/ Sweep
    \/ PurgeTerminal
    \/ Tick

LEMMA NoNewGrant ==
    ASSUME ApprovalsTypeOK, GrantsNothing, NEW id \in Ids, Phase(id)' = "approved"
    PROVE  Phase(id) = "approved"
<1>1. id \in Enrolled' /\ records'[id].status = "approved" /\ records'[id] # NoRecord
  BY PhaseIsStatus DEF Enrolled
<1>2. id \in Enrolled => records[id] \in ApprovalRecord /\ Live(id) \in ApprovalRecord
  BY LiveIsRecord DEF ApprovalsTypeOK, Enrolled
<1>3. id \in Enrolled /\ Live(id).status = "approved" => Phase(id) = "approved"
  BY LiveShows, PhaseIsStatus
<1>4. id \notin Enrolled => Live(id) = NoRecord /\ records[id] = NoRecord
  BY DEF Live, Stale, HasStatus, Enrolled
<1>5. CASE UNCHANGED records
  BY <1>1, <1>4, <1>5, PhaseIsStatus
<1>6. ASSUME NEW x \in Ids, Touch(x)
      PROVE  Phase(id) = "approved"
  <2>1. records'[id] = records[id] \/ records'[id] = Live(id)
    BY <1>6 DEF Touch, ApprovalsTypeOK
  <2> QED
    BY <1>1, <1>3, <1>4, <2>1, PhaseIsStatus
<1>7. ASSUME NEW x \in Enrolled, NEW st \in {"denied", "consumed"},
             NEW by \in Principals \cup {Nobody}, Store(x, st, by)
      PROVE  Phase(id) = "approved"
  <2>1. CASE x = id
    <3>1. records'[id] = [Live(id) EXCEPT !.status = st, !.decided_by = by]
      BY <1>7, <2>1 DEF Store, ApprovalsTypeOK
    <3>2. records'[id].status = st
      BY <1>2, <1>7, <2>1, <3>1 DEF ApprovalRecord
    <3> QED
      BY <1>1, <3>2
  <2>2. CASE x # id
    <3>1. records'[id] = records[id]
      BY <1>7, <2>2 DEF Store, ApprovalsTypeOK
    <3> QED
      BY <1>1, <1>4, <3>1, PhaseIsStatus
  <2> QED
    BY <2>1, <2>2
<1>8. CASE Sweep
  BY <1>1, <1>3, <1>4, <1>8 DEF Sweep
<1>9. CASE PurgeTerminal
  BY <1>1, <1>4, <1>9, PhaseIsStatus DEF PurgeTerminal
<1>10. CASE Tick
  <2>1. CASE HasStatus(id, {"pending"})
    <3>1. records'[id] = [records[id] EXCEPT !.left = Elapse(@)]
      BY <1>10, <2>1 DEF Tick
    <3>2. records'[id].status = "pending"
      BY <1>2, <2>1, <3>1 DEF ApprovalRecord, HasStatus
    <3> QED
      BY <1>1, <3>2
  <2>2. CASE ~HasStatus(id, {"pending"})
    BY <1>1, <1>4, <1>10, <2>2, PhaseIsStatus DEF Tick
  <2> QED
    BY <2>1, <2>2
<1> QED
  BY <1>5, <1>6, <1>7, <1>8, <1>9, <1>10 DEF GrantsNothing

-----------------------------------------------------------------------------
(* The steps, mapped.                                                      *)

\* A slot that stays proposed or granted keeps its binding; a slot that is
\* neither has none.
LEMMA BindingMoves ==
    ASSUME DispatchInv, DispatchInv', [DispatchNext]_dispatchVars, NEW id \in Ids
    PROVE  /\ SlotPhase(id) \in {"proposed", "granted"} /\ SlotPhase(id)' \in {"proposed", "granted"}
                 => SlotBinding(id)' = SlotBinding(id)
           /\ SlotPhase(id) \notin {"proposed", "granted"} => SlotBinding(id) = NoFingerprint
           /\ SlotPhase(id)' \notin {"proposed", "granted"} => SlotBinding(id)' = NoFingerprint
<1>1. /\ SlotPhase(id) \in {"proposed", "granted"} => id \in Enrolled
      /\ SlotPhase(id)' \in {"proposed", "granted"} => records'[id] # NoRecord
  BY DEF SlotPhase, HasStatus, Enrolled
<1>2. id \in Enrolled /\ records'[id] # NoRecord => records'[id].fingerprint = records[id].fingerprint
  BY DispatchStepIsRegistryStep, BindingStep DEF DispatchInv
<1> QED
  BY <1>1, <1>2 DEF SlotBinding

\* A call that grants nothing, issues nothing and runs nothing closes slots.
LEMMA ClosingStep ==
    ASSUME DispatchInv, DispatchInv', [DispatchNext]_dispatchVars, GrantsNothing,
           UNCHANGED <<issued, runs, ungated>>
    PROVE  \E S \in SUBSET Ids : Gated!Close(S)
<1> DEFINE S == {id \in Ids : /\ SlotPhase(id) \in {"proposed", "granted"}
                              /\ SlotPhase(id)' = "closed"}
<1>1. ASSUME NEW id \in Ids
      PROVE  \/ SlotPhase(id)' = SlotPhase(id)
             \/ SlotPhase(id) \in {"proposed", "granted"} /\ SlotPhase(id)' = "closed"
  <2>1. Phase(id)' \in {Phase(id)} \cup MayBecome[Phase(id)]
    BY DispatchStepIsRegistryStep, NextAdvances DEF DispatchInv
  <2>2. Phase(id)' = "approved" => Phase(id) = "approved"
    BY NoNewGrant DEF DispatchInv
  <2>3. Phase(id) = "unused" <=> Phase(id)' = "unused"
    BY PhaseInSlotOf, SlotIsPhaseNext DEF DispatchInv
  <2>4. /\ SlotPhase(id) = IF runs[id] # <<>> THEN "spent" ELSE SlotOf[Phase(id)]
        /\ SlotPhase(id)' = IF runs[id] # <<>> THEN "spent" ELSE SlotOf[Phase(id)']
        /\ Phase(id) \in DOMAIN SlotOf
    BY SlotIsPhase, SlotIsPhaseNext, PhaseInSlotOf DEF DispatchInv
  <2>5. CASE runs[id] # <<>>
    BY <2>4, <2>5
  <2>6. CASE runs[id] = <<>>
    BY <2>1, <2>2, <2>3, <2>4, <2>6 DEF SlotOf, MayBecome
  <2> QED
    BY <2>5, <2>6
<1>2. \A id \in S : SlotPhase(id) \in {"proposed", "granted"}
  OBVIOUS
<1>3. \A id \in Ids : SlotPhase(id)' = IF id \in S THEN "closed" ELSE SlotPhase(id)
  BY <1>1
<1>4. \A id \in Ids : SlotBinding(id)' = IF id \in S THEN NoFingerprint ELSE SlotBinding(id)
  BY <1>1, BindingMoves
<1>5. S \in SUBSET Ids
  OBVIOUS
<1> HIDE DEF S
<1>6. Gated!Close(S)
  BY <1>2, <1>3, <1>4, <1>5 DEF Gated!Close
<1> QED
  BY <1>5, <1>6

\* Enrolling proposes a slot that has never been used.
LEMMA EnrolProposes ==
    ASSUME DispatchInv, DispatchInv', NEW id \in Ids, NEW a \in Actions,
           NEW p \in Principals, DispatchEnrol(a, p, id)
    PROVE  Gated!Propose(id, a)
<1>1. /\ Request(id, a, Verdict[a], p) /\ Verdict[a] = "needs_confirmation"
      /\ UNCHANGED <<runs, ungated>>
  BY DEF DispatchEnrol
<1>2. /\ Fingerprint[a] # NoFingerprint /\ id \notin issued
      /\ records'[id].fingerprint = Fingerprint[a] /\ records'[id].status = "pending"
      /\ \A other \in Ids : other # id => /\ records'[other] = records[other]
                                          /\ other \in issued' <=> other \in issued
  BY <1>1 DEF Request, MayRequest, DispatchInv, ApprovalsTypeOK
<1>3. Phase(id) = "unused" /\ runs[id] = <<>>
  BY <1>2, PhaseInSlotOf DEF DispatchInv, RunsOnlyWhenSpent
<1>4. SlotPhase(id) = "unused"
  BY <1>3, SlotIsPhase DEF SlotOf, DispatchInv
<1>5. records'[id] # NoRecord
  BY <1>1, TimeoutPositive, NoRecordIsNoRecord
     DEF Request, MayRequest, DispatchInv, ApprovalsTypeOK, ApprovalRecord,
         Fingerprints, Statuses, Verdicts
<1>6. SlotPhase(id)' = "proposed" /\ SlotBinding(id)' = Fingerprint[a]
  BY <1>1, <1>2, <1>3, <1>5 DEF SlotPhase, SlotBinding, HasStatus, Enrolled
<1>7. \A other \in Ids : other # id => /\ SlotPhase(other)' = SlotPhase(other)
                                       /\ SlotBinding(other)' = SlotBinding(other)
  BY <1>1, <1>2 DEF SlotPhase, SlotBinding, HasStatus, Enrolled
<1> QED
  BY <1>1, <1>2, <1>4, <1>6, <1>7 DEF Gated!Propose, Gated!Move

\* Approving grants the slot it is for.
LEMMA ApproveGrants ==
    ASSUME DispatchInv, DispatchInv', [DispatchNext]_dispatchVars, NEW id \in Ids,
           NEW a \in Actions, NEW p \in Principals, MayApprove(id, a, p),
           DecideApprove(id, a, p)
    PROVE  Gated!GrantSlot(id)
<1>1. /\ Store(id, "approved", p) /\ UNCHANGED <<issued, runs, ungated>>
      /\ id \in Enrolled
  BY DEF DecideApprove, Approve, MayApprove, LiveStatus
<1>2. /\ Deciding(id, "approved", p)
      /\ \A other \in Ids : other # id => Kept(other)
  BY <1>1, StoreIsLocal DEF DispatchInv
<1>3. Phase(id) = "pending" /\ runs[id] = <<>>
  <2>1. Live(id).status = "pending"
    BY DEF MayApprove, LiveStatus
  <2>2. Phase(id) = "pending"
    BY <1>1, <2>1, LiveShows, PhaseIsStatus DEF DispatchInv
  <2> QED
    BY <2>2 DEF DispatchInv, RunsOnlyWhenSpent
<1>4. Phase(id)' = "approved"
  <2>1. p \in Principals \cup {Nobody} /\ "approved" \in Statuses
    BY DEF Statuses
  <2> QED
    BY <1>2, <2>1, DecidingShows, PhaseIsStatus DEF DispatchInv
<1>5. SlotPhase(id) = "proposed" /\ SlotPhase(id)' = "granted"
  BY <1>1, <1>3, <1>4, SlotIsPhase, SlotIsPhaseNext DEF SlotOf, DispatchInv
<1>6. SlotBinding(id)' = SlotBinding(id)
  BY <1>5, BindingMoves
<1>7. \A other \in Ids : other # id => /\ SlotPhase(other)' = SlotPhase(other)
                                       /\ SlotBinding(other)' = SlotBinding(other)
  BY <1>1, <1>2 DEF Kept, SlotPhase, SlotBinding, HasStatus, Enrolled
<1> QED
  BY <1>1, <1>5, <1>6, <1>7 DEF Gated!GrantSlot, Gated!Move

\* An execution whose consume succeeds performs the action its slot binds.
LEMMA ExecutionPerforms ==
    ASSUME DispatchInv, DispatchInv', [DispatchNext]_dispatchVars, NEW id \in Ids,
           NEW a \in Actions, MayConsume(id, a), ExecuteApproved(id, a)
    PROVE  Gated!Perform(id, a)
<1>1. /\ Verdict[a] # "blocked"
      /\ Store(id, "consumed", records[id].decided_by)
      /\ UNCHANGED <<issued, ungated>>
      /\ runs' = [runs EXCEPT ![id] = Append(@, a)]
  BY DEF ExecuteApproved, ReachesConsume, Consume
<1>2. /\ id \in Enrolled /\ Phase(id) = "approved"
      /\ Fingerprint[a] = records[id].fingerprint
  BY ConsumableIsApproved DEF DispatchInv
<1>3. runs[id] = <<>> /\ runs'[id] = <<a>>
  <2>1. runs[id] = <<>>
    BY <1>2 DEF DispatchInv, RunsOnlyWhenSpent
  <2>2. runs'[id] = Append(<<>>, a)
    BY <1>1, <2>1 DEF DispatchInv, RunsTyped
  <2> QED
    BY <2>1, <2>2
<1>4. SlotPhase(id) = "granted" /\ SlotBinding(id) = Fingerprint[a]
  BY <1>2, <1>3, SlotIsPhase DEF SlotOf, SlotBinding, DispatchInv
<1>5. SlotPhase(id)' = "spent" /\ SlotBinding(id)' = NoFingerprint
  BY <1>3 DEF SlotPhase, SlotBinding
<1>6. \A other \in Ids : other # id => /\ SlotPhase(other)' = SlotPhase(other)
                                       /\ SlotBinding(other)' = SlotBinding(other)
  <2> SUFFICES ASSUME NEW other \in Ids, other # id
               PROVE  /\ SlotPhase(other)' = SlotPhase(other)
                      /\ SlotBinding(other)' = SlotBinding(other)
    OBVIOUS
  <2>1. Kept(other)
    BY <1>1, <1>2, StoreIsLocal DEF DispatchInv
  <2>2. runs'[other] = runs[other]
    BY <1>1 DEF DispatchInv, RunsTyped
  <2> QED
    BY <2>1, <2>2 DEF Kept, SlotPhase, SlotBinding, HasStatus, Enrolled
<1> QED
  BY <1>1, <1>4, <1>5, <1>6 DEF Gated!Perform, Gated!Move

\* A step that leaves registry, runs and ungated alone is a stutter but for the
\* run of a safe action.
LEMMA SafeRunPerforms ==
    ASSUME NEW a \in Actions, DispatchSafe(a)
    PROVE  Gated!PerformSafe(a)
<1>1. \A id \in Ids : SlotPhase(id)' = SlotPhase(id) /\ SlotBinding(id)' = SlotBinding(id)
  BY DEF DispatchSafe, registryVars, SlotPhase, SlotBinding, HasStatus, Enrolled
<1> QED
  BY <1>1 DEF DispatchSafe, Gated!PerformSafe

LEMMA StepRefines ==
    ASSUME DispatchInv, DispatchInv', [DispatchNext]_dispatchVars
    PROVE  [Gated!GatedNext]_(Gated!gatedVars)
<1> USE DEF Gated!GatedNext
<1>0. ASSUME GrantsNothing, UNCHANGED <<issued, runs, ungated>>
      PROVE  Gated!GatedNext
  BY <1>0, ClosingStep
<1>1. ASSUME NEW t \in Tools, Register(t)
      PROVE  Gated!GatedNext
  BY <1>0, <1>1 DEF Register, registryVars, GrantsNothing
<1>2. ASSUME NEW a \in Actions, DispatchSafe(a)
      PROVE  Gated!GatedNext
  BY <1>2, SafeRunPerforms
<1>3. ASSUME NEW id \in Ids, NEW a \in Actions, NEW p \in Principals,
             DispatchEnrol(a, p, id)
      PROVE  Gated!GatedNext
  BY <1>3, EnrolProposes
<1>4. ASSUME NEW id \in Ids, NEW a \in Actions, ExecuteApproved(id, a)
      PROVE  Gated!GatedNext
  <2>1. CASE MayConsume(id, a)
    BY <1>4, <2>1, ExecutionPerforms
  <2>2. CASE ~MayConsume(id, a)
    BY <1>0, <1>4, <2>2 DEF ExecuteApproved, Consume, GrantsNothing
  <2> QED
    BY <2>1, <2>2
<1>5. ASSUME NEW id \in Ids, NEW a \in Actions, NEW p \in Principals,
             DecideApprove(id, a, p)
      PROVE  Gated!GatedNext
  <2>1. CASE MayApprove(id, a, p)
    BY <1>5, <2>1, ApproveGrants
  <2>2. CASE ~MayApprove(id, a, p)
    BY <1>0, <1>5, <2>2 DEF DecideApprove, Approve, GrantsNothing
  <2> QED
    BY <2>1, <2>2
<1>6. ASSUME NEW id \in Ids, NEW p \in Principals, DecideDeny(id, p)
      PROVE  Gated!GatedNext
  <2>1. CASE MayDeny(id)
    <3>1. id \in Enrolled /\ Store(id, "denied", p)
      BY <1>6, <2>1 DEF DecideDeny, Deny, MayDeny, LiveStatus
    <3>2. GrantsNothing
      BY <3>1 DEF GrantsNothing
    <3> QED
      BY <1>0, <1>6, <3>2 DEF DecideDeny, Deny
  <2>2. CASE ~MayDeny(id)
    BY <1>0, <1>6, <2>2 DEF DecideDeny, Deny, GrantsNothing
  <2> QED
    BY <2>1, <2>2
<1>7. ASSUME NEW id \in Ids, Lookup(id)
      PROVE  Gated!GatedNext
  BY <1>0, <1>7 DEF Lookup, Get, GrantsNothing
<1>8. CASE Housekeeping
  BY <1>0, <1>8 DEF Housekeeping, Sweep, PurgeTerminal, GrantsNothing
<1>9. CASE TimePasses
  BY <1>0, <1>9 DEF TimePasses, Tick, GrantsNothing
<1>10. CASE UNCHANGED dispatchVars
  BY <1>0, <1>10 DEF dispatchVars, registryVars, GrantsNothing
<1> QED
  BY <1>1, <1>2, <1>3, <1>4, <1>5, <1>6, <1>7, <1>8, <1>9, <1>10 DEF DispatchNext

\* The dispatcher implements the abstract promise, for any number of ids and
\* callers: only safe actions run ungated, and every other run spends a grant
\* bound to exactly the action that runs.
THEOREM DispatcherImplementsGated == DispatchSpec => ImplementsGatedExecution
<1>1. DispatchInit => Gated!GatedInit
  <2> SUFFICES ASSUME DispatchInit
               PROVE  Gated!GatedInit
    OBVIOUS
  <2>1. \A id \in Ids : SlotPhase(id) = "unused" /\ SlotBinding(id) = NoFingerprint
    BY DEF DispatchInit, ApprovalsInit, SlotPhase, SlotBinding, HasStatus, Enrolled
  <2> QED
    BY <2>1 DEF Gated!GatedInit, DispatchInit
<1> QED
  BY <1>1, DispatchInvHolds, StepRefines, PTL
     DEF DispatchSpec, ImplementsGatedExecution, Gated!GatedSpec


-----------------------------------------------------------------------------
(* The bookkeeping of one session.                                         *)

\* Types of the variables, each a function of the sessions.
SessionVarsTyped ==
    /\ conn \in [Sessions -> {"open", "closed"}]
    /\ run \in [Sessions -> {"idle", "running", "orphaned"}]
    /\ pc \in [Sessions -> AwaitPoints]
    /\ todo \in [Sessions -> Seq(Actions)]
    /\ steps \in [Sessions -> Nat]
    /\ calls \in [Sessions -> Nat]
    /\ started \in [Sessions -> Nat]
    /\ logged \in [Sessions -> Nat]
    /\ result \in [Sessions -> RunStatus \cup {"none"}]
    /\ timeLeft \in [Sessions -> Int \cup {NoDeadline}]
    /\ asked \in [Sessions -> Ids \cup {NoId}]
    /\ actions \in [Sessions -> [Ids -> Actions \cup {NoAction}]]
    /\ future \in [Sessions -> [Ids -> {"none", "unset", "set"}]]
    /\ waitLeft \in [Sessions -> Int]
    /\ cancelSent \in [Sessions -> BOOLEAN]

\* Await points inside one tool call, and those at which an approval is being
\* obtained.
InCall == {"announcing", "asking", "waiting", "giving_up", "tool", "reporting"}
Prompting == {"asking", "waiting", "giving_up"}

\* A tool call is handled only while there is one, and a prompt is about an id.
CallsAreThere ==
    \A s \in Sessions : /\ pc[s] \in InCall => todo[s] # <<>>
                        /\ pc[s] \in Prompting => asked[s] \in Ids

SessionInv == SessionVarsTyped /\ CallsAreThere

LEMMA BatchesAreSequences == Batches \subseteq Seq(Actions)
<1> SUFFICES ASSUME NEW batch \in Batches
             PROVE  batch \in Seq(Actions)
  OBVIOUS
<1>1. PICK n \in 0..MaxBatch : batch \in [1..n -> Actions]
  BY DEF Batches
<1>2. n \in Nat
  BY <1>1
<1> QED
  BY <1>1, <1>2

LEMMA SessionInvInit == Init => SessionInv
BY DEF Init, SessionInv, SessionVarsTyped, CallsAreThere, AwaitPoints, RunStatus, InCall,
       Prompting

\* What the top of the two loops can do.
LEMMA NextTurnCases ==
    ASSUME NEW s \in Sessions, NEW turns, NextTurn(s, turns)
    PROVE  \/ turns >= MaxSteps /\ Finish(s, "max_steps")
           \/ ~(turns >= MaxSteps) /\ Overdue(s) /\ Finish(s, "timed_out")
           \/ ~(turns >= MaxSteps) /\ pc' = Set(pc, s, "model") /\ UNCHANGED result
BY DEF NextTurn

LEMMA NextCallCases ==
    ASSUME NEW s \in Sessions, NEW rest, NEW made, NEW turns, NextCall(s, rest, made, turns)
    PROVE  \/ rest = <<>> /\ NextTurn(s, turns)
           \/ rest # <<>> /\ made >= MaxToolCalls /\ Finish(s, "budget_exhausted")
           \/ /\ rest # <<>> /\ ~(made >= MaxToolCalls)
              /\ pc' = Set(pc, s, "announcing") /\ UNCHANGED result
BY DEF NextCall

\* Whatever it is, the session's bookkeeping stays typed.
LEMMA NextCallTyped ==
    ASSUME NEW s \in Sessions, NEW rest, NEW made, NEW turns, NextCall(s, rest, made, turns),
           pc \in [Sessions -> AwaitPoints], result \in [Sessions -> RunStatus \cup {"none"}]
    PROVE  /\ pc' \in [Sessions -> AwaitPoints]
           /\ result' \in [Sessions -> RunStatus \cup {"none"}]
           /\ \A other \in Sessions \ {s} : pc'[other] = pc[other]
           /\ pc'[s] \in {"done", "model", "announcing"}
           /\ pc'[s] = "announcing" => rest # <<>>
<1> USE DEF AwaitPoints, RunStatus, Set
<1>1. ASSUME NEW status \in RunStatus, Finish(s, status)
      PROVE  /\ pc' \in [Sessions -> AwaitPoints]
             /\ result' \in [Sessions -> RunStatus \cup {"none"}]
             /\ \A other \in Sessions \ {s} : pc'[other] = pc[other]
             /\ pc'[s] = "done"
  BY <1>1 DEF Finish
<1>2. ASSUME NEW at \in {"model", "announcing"}, pc' = Set(pc, s, at), UNCHANGED result
      PROVE  /\ pc' \in [Sessions -> AwaitPoints]
             /\ result' \in [Sessions -> RunStatus \cup {"none"}]
             /\ \A other \in Sessions \ {s} : pc'[other] = pc[other]
             /\ pc'[s] = at
  BY <1>2
<1>3. CASE rest = <<>> /\ NextTurn(s, turns)
  BY <1>1, <1>2, <1>3, NextTurnCases
<1> QED
  BY <1>1, <1>2, <1>3, NextCallCases

\* Every await point of the orchestrator task keeps the bookkeeping.
LEMMA ProgressKeepsSessionInv ==
    ASSUME SessionInv, NEW s \in Sessions, Progress(s)
    PROVE  SessionInv'
<1> USE DEF SessionInv, SessionVarsTyped, CallsAreThere, AwaitPoints, RunStatus, InCall,
            Prompting, Set, Increment, loopVars, promptVars
<1> USE BudgetsNonNegative, DeadlineIsPositive, DecisionTimeoutPositive
<1>1. ASSUME ModelFails(s) PROVE SessionInv'
  BY <1>1 DEF ModelFails, Finish
<1>2. ASSUME NEW batch \in Batches, ModelReturns(s, batch) PROVE SessionInv'
  <2>1. batch \in Seq(Actions)
    BY BatchesAreSequences
  <2>0. /\ todo' \in [Sessions -> Seq(Actions)] /\ todo'[s] = batch
        /\ steps' \in [Sessions -> Nat]
        /\ \A other \in Sessions \ {s} : todo'[other] = todo[other]
        /\ UNCHANGED <<conn, run, cancelSent, calls, timeLeft, started, logged, asked, actions,
                       future, waitLeft>>
    BY <1>2, <2>1 DEF ModelReturns
  <2>2. CASE batch = <<>>
    <3>1. /\ pc' = Set(pc, s, "done")
          /\ result' = Set(result, s, "completed")
      BY <1>2, <2>2 DEF ModelReturns, Finish
    <3>2. SessionVarsTyped'
      BY <2>0, <3>1
    <3>3. CallsAreThere'
      BY <2>0, <3>1
    <3> QED
      BY <3>2, <3>3
  <2>3. CASE batch # <<>>
    <3>1. NextCall(s, batch, calls[s], steps[s] + 1)
      BY <1>2, <2>3 DEF ModelReturns
    <3>a. /\ pc' \in [Sessions -> AwaitPoints]
          /\ result' \in [Sessions -> RunStatus \cup {"none"}]
          /\ \A other \in Sessions \ {s} : pc'[other] = pc[other]
          /\ pc'[s] \in {"done", "model", "announcing"}
      BY <3>1, NextCallTyped
    <3>2. SessionVarsTyped'
      BY <2>0, <3>a
    <3>3. CallsAreThere'
      BY <2>0, <2>3, <3>a
    <3> QED
      BY <3>2, <3>3
  <2> QED
    BY <2>2, <2>3
<1>3. ASSUME DispatchNothing(s) PROVE SessionInv'
  BY <1>3 DEF DispatchNothing, Observed
<1>4. ASSUME DispatchRuns(s) PROVE SessionInv'
  BY <1>4 DEF DispatchRuns
<1>5. ASSUME NEW id \in Ids, DispatchAsks(s, id) PROVE SessionInv'
  BY <1>5 DEF DispatchAsks
<1>6. ASSUME PromptSent(s) PROVE SessionInv'
  BY <1>6 DEF PromptSent
<1>7. ASSUME GiveUp(s) PROVE SessionInv'
  BY <1>7 DEF GiveUp
<1>8. ASSUME Conclude(s), pc[s] \in {"waiting", "giving_up"}, cancelSent' \in [Sessions -> BOOLEAN]
      PROVE SessionInv'
  <2>1. /\ asked' \in [Sessions -> Ids \cup {NoId}]
        /\ actions' \in [Sessions -> [Ids -> Actions \cup {NoAction}]]
        /\ future' \in [Sessions -> [Ids -> {"none", "unset", "set"}]]
        /\ waitLeft' \in [Sessions -> Int]
        /\ asked' = Set(asked, s, NoId)
    BY <1>8 DEF Conclude, Unbind
  <2>2. UNCHANGED <<conn, run, todo, steps, result, timeLeft, logged>>
    BY <1>8 DEF Conclude
  <2>3. CASE WillRun(asked[s], Head(todo[s]))
    <3>1. pc' = Set(pc, s, "tool") /\ started' = Increment(started, s) /\ UNCHANGED calls
      BY <1>8, <2>3 DEF Conclude
    <3> QED
      BY <1>8, <2>1, <2>2, <3>1
  <2>4. CASE ~WillRun(asked[s], Head(todo[s]))
    <3>1. pc' = Set(pc, s, "reporting") /\ calls' = Increment(calls, s) /\ UNCHANGED started
      BY <1>8, <2>4 DEF Conclude, Observed
    <3> QED
      BY <1>8, <2>1, <2>2, <3>1
  <2> QED
    BY <2>3, <2>4
<1>9. ASSUME ToolEnds(s), cancelSent' \in [Sessions -> BOOLEAN] PROVE SessionInv'
  BY <1>9 DEF ToolEnds, Observed
<1>10. ASSUME Reported(s) PROVE SessionInv'
  <2>1. Tail(todo[s]) \in Seq(Actions)
    BY <1>10 DEF Reported
  <2>2. NextCall(s, Tail(todo[s]), calls[s], steps[s])
    BY <1>10 DEF Reported
  <2>3. SessionVarsTyped'
    BY <1>10, <2>1, <2>2, NextCallTyped DEF Reported
  <2>4. CallsAreThere'
    BY <1>10, <2>1, <2>2, NextCallTyped DEF Reported
  <2> QED
    BY <2>3, <2>4
<1>11. ASSUME CancelOutsidePrompt(s) PROVE SessionInv'
  BY <1>11 DEF CancelOutsidePrompt
<1>12. ASSUME CancelInsidePrompt(s) PROVE SessionInv'
  BY <1>12 DEF CancelInsidePrompt, Unbind
<1>13. ASSUME EndRun(s) PROVE SessionInv'
  BY <1>13 DEF EndRun
<1>14. ASSUME Woken(s) \/ TimeoutSent(s) \/ CancelSwallowedByWait(s) PROVE SessionInv'
  BY <1>8, <1>14 DEF Woken, TimeoutSent, CancelSwallowedByWait
<1>15. ASSUME ToolReturns(s) \/ CancelSwallowedByTool(s) PROVE SessionInv'
  BY <1>9, <1>15 DEF ToolReturns, CancelSwallowedByTool
<1> QED
  BY <1>1, <1>2, <1>3, <1>4, <1>5, <1>6, <1>7, <1>10, <1>11, <1>12, <1>13, <1>14, <1>15
     DEF Progress

\* So do the frames of the client and the clock.
LEMMA SessionInvInductive ==
    ASSUME SessionInv, [Next]_vars
    PROVE  SessionInv'
<1> USE DEF SessionInv, SessionVarsTyped, CallsAreThere, AwaitPoints, RunStatus, InCall,
            Prompting, Set, loopVars, promptVars, sessionVars
<1> USE BudgetsNonNegative, DeadlineIsPositive, DecisionTimeoutPositive
<1>1. ASSUME NEW s \in Sessions, Progress(s) PROVE SessionInv'
  BY <1>1, ProgressKeepsSessionInv
<1>2. ASSUME NEW s \in Sessions, StartRun(s) PROVE SessionInv'
  <2>0. /\ run' \in [Sessions -> {"idle", "running", "orphaned"}]
        /\ timeLeft' = [timeLeft EXCEPT ![s] = Deadline]
        /\ UNCHANGED <<conn, cancelSent, todo, steps, calls, started, logged, asked, actions,
                       future, waitLeft>>
    BY <1>2 DEF StartRun
  <2>1. /\ pc' \in [Sessions -> AwaitPoints]
        /\ pc'[s] \in {"done", "model"}
        /\ \A other \in Sessions \ {s} : pc'[other] = pc[other]
        /\ result' \in [Sessions -> RunStatus \cup {"none"}]
    <3>1. \/ pc' = Set(pc, s, "done") /\ result' = Set(result, s, "max_steps")
          \/ pc' = Set(pc, s, "model") /\ UNCHANGED result
      BY <1>2 DEF StartRun, Finish
    <3> QED
      BY <3>1
  <2>2. timeLeft' \in [Sessions -> Int \cup {NoDeadline}]
    <3>1. Deadline \in Int \cup {NoDeadline}
      OBVIOUS
    <3> QED
      BY <2>0, <3>1
  <2> QED
    BY <2>0, <2>1, <2>2
<1>3. ASSUME NEW s \in Sessions, NEW id \in Ids, ClientApproves(s, id) \/ ClientDenies(s, id)
      PROVE SessionInv'
  <2>1. PICK ok, verb : Decision(s, id, ok, verb)
    BY <1>3 DEF ClientApproves, ClientDenies
  <2>2. future' = future \/ future' = [future EXCEPT ![s][id] = IF @ = "unset" THEN "set" ELSE @]
    BY <2>1 DEF Decision, Resolve
  <2>3. future' \in [Sessions -> [Ids -> {"none", "unset", "set"}]]
    <3> DEFINE resolved == IF future[s][id] = "unset" THEN "set" ELSE future[s][id]
    <3>1. resolved \in {"none", "unset", "set"}
      OBVIOUS
    <3>2. [future[s] EXCEPT ![id] = resolved] \in [Ids -> {"none", "unset", "set"}]
      BY <3>1
    <3>3. CASE future' = [future EXCEPT ![s] = [future[s] EXCEPT ![id] = resolved]]
      BY <3>2, <3>3
    <3> QED
      BY <2>2, <3>3
  <2> QED
    BY <2>1, <2>3 DEF Decision
<1>4. ASSUME NEW s \in Sessions, ReaderEnds(s) PROVE SessionInv'
  BY <1>4 DEF ReaderEnds
<1>5. ASSUME Clock PROVE SessionInv'
  BY <1>5 DEF Clock, Elapse
<1>6. ASSUME UNCHANGED sessionVars PROVE SessionInv'
  BY <1>6
<1> QED
  BY <1>1, <1>2, <1>3, <1>4, <1>5, <1>6 DEF Next, Client, ToolsArrive, vars

LEMMA SessionInvHolds == Spec => []SessionInv
BY SessionInvInit, SessionInvInductive, PTL DEF Spec

-----------------------------------------------------------------------------
(* The composition does to the shared registry and to the tools only what   *)
(* single calls of the dispatcher do.                                      *)

\* The prompt's end, however it ended: the tool is started by one
\* execute_approved, or the approval is looked at and denied in one call.
LEMMA ConcludeIsDispatcherStep ==
    ASSUME SessionInv, NEW s \in Sessions, pc[s] \in {"waiting", "giving_up"}, Conclude(s)
    PROVE  DispatchNext
<1>1. asked[s] \in Ids /\ Head(todo[s]) \in Actions /\ PrincipalOf[s] \in Principals
  <2>1. todo[s] \in Seq(Actions) /\ todo[s] # <<>> /\ asked[s] \in Ids
    BY DEF SessionInv, SessionVarsTyped, CallsAreThere, InCall, Prompting
  <2>2. PrincipalOf[s] \in Principals
    BY PrincipalOfIsTotal
  <2> QED
    BY <2>1, <2>2
<1>2. CASE WillRun(asked[s], Head(todo[s]))
  <2>1. ExecuteApproved(asked[s], Head(todo[s]))
    BY <1>2 DEF Conclude
  <2> QED
    BY <1>1, <2>1 DEF DispatchNext
<1>3. CASE ~WillRun(asked[s], Head(todo[s]))
  <2>1. DecideDeny(asked[s], PrincipalOf[s]) \/ Lookup(asked[s])
    BY <1>3 DEF Conclude, DenyIfPending
  <2> QED
    BY <1>1, <2>1 DEF DispatchNext
<1> QED
  BY <1>2, <1>3

LEMMA SessionStepIsDispatcherStep ==
    ASSUME SessionInv, [Next]_vars
    PROVE  [DispatchNext]_dispatchVars
<1> USE PrincipalOfIsTotal
<1>1. ASSUME NEW s \in Sessions,
             \/ StartRun(s) \/ ModelFails(s) \/ (\E batch \in Batches : ModelReturns(s, batch))
             \/ DispatchNothing(s) \/ PromptSent(s) \/ GiveUp(s) \/ ToolEnds(s) \/ Reported(s)
             \/ ReaderEnds(s) \/ CancelOutsidePrompt(s)
      PROVE  UNCHANGED dispatchVars
  BY <1>1 DEF StartRun, ModelFails, ModelReturns, DispatchNothing, PromptSent, GiveUp,
              ToolEnds, Reported, ReaderEnds, CancelOutsidePrompt
<1>2. ASSUME NEW s \in Sessions, pc[s] \in InCall
      PROVE  Head(todo[s]) \in Actions /\ PrincipalOf[s] \in Principals
  <2>1. todo[s] \in Seq(Actions) /\ todo[s] # <<>>
    BY <1>2 DEF SessionInv, SessionVarsTyped, CallsAreThere
  <2> QED
    BY <2>1
<1>3. ASSUME NEW s \in Sessions, DispatchRuns(s)
      PROVE  DispatchNext
  BY <1>2, <1>3 DEF DispatchRuns, InCall, DispatchNext
<1>4. ASSUME NEW s \in Sessions, NEW id \in Ids, DispatchAsks(s, id)
      PROVE  DispatchNext
  BY <1>2, <1>4 DEF DispatchAsks, InCall, DispatchNext
<1>5. ASSUME NEW s \in Sessions, Woken(s) \/ TimeoutSent(s) \/ CancelSwallowedByWait(s)
      PROVE  DispatchNext
  BY <1>5, ConcludeIsDispatcherStep DEF Woken, TimeoutSent, CancelSwallowedByWait
<1>6. ASSUME NEW s \in Sessions, CancelInsidePrompt(s)
      PROVE  DispatchNext
  <2>1. asked[s] \in Ids
    BY <1>6 DEF CancelInsidePrompt, SessionInv, CallsAreThere, Prompting
  <2>2. DecideDeny(asked[s], PrincipalOf[s]) \/ Lookup(asked[s])
    BY <1>6 DEF CancelInsidePrompt, DenyIfPending
  <2> QED
    BY <2>1, <2>2 DEF DispatchNext
<1>7. ASSUME NEW s \in Sessions, NEW id \in Ids, ClientApproves(s, id)
      PROVE  DispatchNext
  <2>1. actions[s][id] \in Actions
    BY <1>7 DEF ClientApproves, Bound, SessionInv, SessionVarsTyped
  <2>2. DecideApprove(id, actions[s][id], PrincipalOf[s])
    BY <1>7 DEF ClientApproves
  <2> QED
    BY <2>1, <2>2 DEF DispatchNext
<1>8. ASSUME NEW s \in Sessions, NEW id \in Ids, ClientDenies(s, id)
      PROVE  DispatchNext
  BY <1>8 DEF ClientDenies, DispatchNext
<1>9. ASSUME NEW s \in Sessions, EndRun(s)
      PROVE  DispatchNext
  BY <1>9 DEF EndRun, DispatchNext, Housekeeping
<1>10. ASSUME Clock
       PROVE  DispatchNext
  BY <1>10 DEF Clock, DispatchNext
<1>11. ASSUME ToolsArrive
       PROVE  DispatchNext
  BY <1>11 DEF ToolsArrive, DispatchNext
<1>12. ASSUME UNCHANGED vars
       PROVE  UNCHANGED dispatchVars
  BY <1>12 DEF vars
<1>13. ASSUME NEW s \in Sessions, ToolReturns(s) \/ CancelSwallowedByTool(s)
       PROVE  UNCHANGED dispatchVars
  BY <1>1, <1>13 DEF ToolReturns, CancelSwallowedByTool
<1> QED
  BY <1>1, <1>3, <1>4, <1>5, <1>6, <1>7, <1>8, <1>9, <1>10, <1>11, <1>12, <1>13
     DEF Next, Progress, Client

\* The composition refines the dispatcher: any number of sessions, clients that
\* decide, hang up or say nothing, timers and cancellations make of the shared
\* registry what some sequence of single dispatcher calls makes of it
\* (session.py:85-156, dispatcher.py:149-200).
THEOREM SessionsImplementDispatcher == Spec => ImplementsDispatcher
<1>1. Init => DispatchInit
  BY DEF Init
<1> QED
  BY <1>1, SessionInvHolds, SessionStepIsDispatcherStep, PTL
     DEF Spec, ImplementsDispatcher, DispatchSpec

\* Hence the gate binds end to end: in every interleaving of sessions an approval
\* starts at most one tool, of the action that was approved, by an approver.
THEOREM SessionsAreGated == Spec => []RunsAreGated
BY SessionsImplementDispatcher, DispatcherIsGated, PTL DEF ImplementsDispatcher

-----------------------------------------------------------------------------
(* The bounds of a run.                                                    *)

\* The counters against the await point: there is room for the call in
\* progress, a tool that runs is started and not yet logged, a result belongs
\* to a loop that has returned, and between two runs everything is zero.
Room(s) ==
    /\ steps[s] <= MaxSteps /\ calls[s] <= MaxToolCalls /\ started[s] <= MaxToolCalls
    /\ logged[s] <= started[s] /\ started[s] <= calls[s] + 1
    /\ pc[s] = "model" => steps[s] < MaxSteps
    /\ pc[s] \in InCall \ {"reporting"} => calls[s] < MaxToolCalls
    /\ pc[s] \notin {"tool", "cancelled"} => started[s] <= calls[s]
    /\ pc[s] = "tool" => logged[s] < started[s]

Blank(s) ==
    /\ run[s] = "idle" => pc[s] = "none"
    /\ pc[s] = "none" => /\ todo[s] = <<>>
                         /\ steps[s] = 0 /\ calls[s] = 0 /\ started[s] = 0 /\ logged[s] = 0

Reason(s) ==
    /\ result[s] = "none" \/ pc[s] = "done"
    /\ result[s] = "max_steps" => steps[s] = MaxSteps /\ todo[s] = <<>>
    /\ result[s] = "budget_exhausted" => calls[s] = MaxToolCalls /\ todo[s] # <<>>
    /\ result[s] = "timed_out" => Overdue(s) /\ steps[s] < MaxSteps

BudgetInv == \A s \in Sessions : Room(s) /\ Blank(s) /\ Reason(s)

\* A session is left alone by a step that leaves its bookkeeping alone.
LEMMA OthersKeepTheirBudget ==
    ASSUME BudgetInv, NEW s \in Sessions,
           pc'[s] = pc[s], run'[s] = run[s], todo'[s] = todo[s], steps'[s] = steps[s],
           calls'[s] = calls[s], started'[s] = started[s], logged'[s] = logged[s],
           result'[s] = result[s], timeLeft'[s] = timeLeft[s]
    PROVE  (Room(s) /\ Blank(s) /\ Reason(s))'
BY DEF BudgetInv, Room, Blank, Reason, Overdue

LEMMA BudgetInvInit == Init => BudgetInv
BY BudgetsNonNegative DEF Init, BudgetInv, Room, Blank, Reason, InCall

\* What the top of the loops leaves, when the counters are what they are told
\* to be.
LEMMA NextCallKeepsBudget ==
    ASSUME SessionInv, BudgetInv, SessionInv', NEW s \in Sessions, NEW rest \in Seq(Actions),
           NextCall(s, rest, calls[s], steps'[s]),
           todo'[s] = rest, steps'[s] <= MaxSteps,
           result[s] = "none", pc[s] \notin {"none", "tool", "cancelled"}, run'[s] # "idle",
           UNCHANGED <<calls, started, logged, timeLeft>>
    PROVE  (Room(s) /\ Blank(s) /\ Reason(s))'
<1>1. /\ steps'[s] \in Nat /\ calls[s] \in Nat /\ started[s] \in Nat /\ logged[s] \in Nat
      /\ MaxSteps \in Nat /\ MaxToolCalls \in Nat
  BY BudgetsNonNegative DEF SessionInv, SessionVarsTyped
<1>2. /\ calls[s] <= MaxToolCalls /\ started[s] <= MaxToolCalls /\ logged[s] <= started[s]
      /\ started[s] <= calls[s]
  BY DEF BudgetInv, Room
<1>3. /\ calls'[s] = calls[s] /\ started'[s] = started[s] /\ logged'[s] = logged[s]
      /\ timeLeft'[s] = timeLeft[s]
  OBVIOUS
<1> USE DEF Room, Blank, Reason, InCall
<1>4. ASSUME NEW status, Finish(s, status)
      PROVE  pc'[s] = "done" /\ result'[s] = status
  BY <1>4 DEF Finish, Set, SessionInv, SessionVarsTyped
<1>5. ASSUME NEW at, pc' = Set(pc, s, at), UNCHANGED result
      PROVE  pc'[s] = at /\ result'[s] = "none"
  BY <1>5 DEF Set, SessionInv, SessionVarsTyped
<1>6. CASE rest = <<>> /\ steps'[s] >= MaxSteps /\ Finish(s, "max_steps")
  BY <1>1, <1>2, <1>3, <1>4, <1>6
<1>7. CASE rest = <<>> /\ ~(steps'[s] >= MaxSteps) /\ Overdue(s) /\ Finish(s, "timed_out")
  BY <1>1, <1>2, <1>3, <1>4, <1>7 DEF Overdue
<1>8. CASE ~(steps'[s] >= MaxSteps) /\ pc' = Set(pc, s, "model") /\ UNCHANGED result
  BY <1>1, <1>2, <1>3, <1>5, <1>8
<1>9. CASE rest # <<>> /\ calls[s] >= MaxToolCalls /\ Finish(s, "budget_exhausted")
  BY <1>1, <1>2, <1>3, <1>4, <1>9
<1>10. CASE ~(calls[s] >= MaxToolCalls) /\ pc' = Set(pc, s, "announcing") /\ UNCHANGED result
  BY <1>1, <1>2, <1>3, <1>5, <1>10
<1> QED
  BY <1>6, <1>7, <1>8, <1>9, <1>10, NextCallCases, NextTurnCases

\* A step of one session leaves the counters of the others alone.
OthersAlone(s) ==
    \A other \in Sessions \ {s} :
        /\ pc'[other] = pc[other] /\ run'[other] = run[other] /\ todo'[other] = todo[other]
        /\ steps'[other] = steps[other] /\ calls'[other] = calls[other]
        /\ started'[other] = started[other] /\ logged'[other] = logged[other]
        /\ result'[other] = result[other] /\ timeLeft'[other] = timeLeft[other]

LEMMA SessionsStepAlone ==
    ASSUME SessionInv, NEW s \in Sessions, Progress(s) \/ Client(s)
    PROVE  OthersAlone(s)
<1> USE DEF SessionInv, SessionVarsTyped, OthersAlone, Set, Increment, loopVars, promptVars
<1>1. ASSUME NEW rest, NEW made, NEW turns, NextCall(s, rest, made, turns)
      PROVE  \A other \in Sessions \ {s} : pc'[other] = pc[other] /\ result'[other] = result[other]
  <2>1. ASSUME NEW status, Finish(s, status)
        PROVE  \A other \in Sessions \ {s} : pc'[other] = pc[other] /\ result'[other] = result[other]
    BY <2>1 DEF Finish
  <2> QED
    BY <1>1, <2>1, NextCallCases, NextTurnCases
<1>2. ASSUME ModelFails(s) PROVE OthersAlone(s)
  BY <1>2 DEF ModelFails, Finish
<1>3. ASSUME NEW batch \in Batches, ModelReturns(s, batch) PROVE OthersAlone(s)
  <2>1. \A other \in Sessions \ {s} : pc'[other] = pc[other] /\ result'[other] = result[other]
    BY <1>1, <1>3 DEF ModelReturns, Finish
  <2> QED
    BY <1>3, <2>1 DEF ModelReturns
<1>4. ASSUME DispatchNothing(s) PROVE OthersAlone(s)
  BY <1>4 DEF DispatchNothing, Observed
<1>5. ASSUME DispatchRuns(s) PROVE OthersAlone(s)
  BY <1>5 DEF DispatchRuns
<1>6. ASSUME NEW id \in Ids, DispatchAsks(s, id) PROVE OthersAlone(s)
  BY <1>6 DEF DispatchAsks
<1>7. ASSUME PromptSent(s) \/ GiveUp(s) PROVE OthersAlone(s)
  BY <1>7 DEF PromptSent, GiveUp
<1>8. ASSUME Conclude(s) PROVE OthersAlone(s)
  BY <1>8 DEF Conclude, Observed
<1>9. ASSUME ToolEnds(s) PROVE OthersAlone(s)
  BY <1>9 DEF ToolEnds, Observed
<1>10. ASSUME Reported(s) PROVE OthersAlone(s)
  <2>1. \A other \in Sessions \ {s} : pc'[other] = pc[other] /\ result'[other] = result[other]
    BY <1>1, <1>10 DEF Reported
  <2> QED
    BY <1>10, <2>1 DEF Reported
<1>11. ASSUME CancelOutsidePrompt(s) \/ CancelInsidePrompt(s) PROVE OthersAlone(s)
  BY <1>11 DEF CancelOutsidePrompt, CancelInsidePrompt
<1>12. ASSUME EndRun(s) PROVE OthersAlone(s)
  BY <1>12 DEF EndRun
<1>13. ASSUME StartRun(s) PROVE OthersAlone(s)
  BY <1>13 DEF StartRun, Finish
<1>14. ASSUME NEW id \in Ids, ClientApproves(s, id) \/ ClientDenies(s, id) PROVE OthersAlone(s)
  BY <1>14 DEF ClientApproves, ClientDenies, Decision
<1>15. ASSUME ReaderEnds(s) PROVE OthersAlone(s)
  BY <1>15 DEF ReaderEnds
<1> QED
  BY <1>2, <1>3, <1>4, <1>5, <1>6, <1>7, <1>8, <1>9, <1>10, <1>11, <1>12, <1>13, <1>14, <1>15
     DEF Progress, Client, Woken, TimeoutSent, ToolReturns, CancelSwallowedByWait,
         CancelSwallowedByTool

\* The session that steps keeps its own bounds.
LEMMA StepKeepsItsBudget ==
    ASSUME SessionInv, SessionInv', BudgetInv, NEW s \in Sessions, Progress(s) \/ Client(s)
    PROVE  (Room(s) /\ Blank(s) /\ Reason(s))'
<1> DEFINE Goal == (Room(s) /\ Blank(s) /\ Reason(s))'
<1> USE BudgetsNonNegative
        DEF SessionInv, SessionVarsTyped, Set, Increment, loopVars, promptVars
<1>0. /\ steps[s] \in Nat /\ calls[s] \in Nat /\ started[s] \in Nat /\ logged[s] \in Nat
      /\ MaxSteps \in Nat /\ MaxToolCalls \in Nat
      /\ Room(s) /\ Blank(s) /\ Reason(s)
  BY DEF BudgetInv
<1>a. ASSUME ModelFails(s) PROVE Goal
  <2>1. /\ pc[s] = "model" /\ pc'[s] = "done" /\ result'[s] = "error"
        /\ UNCHANGED <<run, todo, steps, calls, started, logged, timeLeft>>
    BY <1>a DEF ModelFails, Finish
  <2> QED
    BY <1>0, <2>1 DEF Room, Blank, Reason, InCall
<1>b. ASSUME NEW batch \in Batches, ModelReturns(s, batch) PROVE Goal
  <2>1. /\ pc[s] = "model" /\ run'[s] = run[s] /\ run[s] # "idle" /\ result[s] = "none"
        /\ steps'[s] = steps[s] + 1 /\ steps'[s] <= MaxSteps /\ todo'[s] = batch
        /\ UNCHANGED <<calls, started, logged, timeLeft>>
    BY <1>b, <1>0 DEF ModelReturns, Room, Blank, Reason
  <2>2. batch \in Seq(Actions)
    BY BatchesAreSequences
  <2>3. CASE batch = <<>>
    <3>1. pc'[s] = "done" /\ result'[s] = "completed"
      BY <1>b, <2>3 DEF ModelReturns, Finish
    <3> QED
      BY <1>0, <2>1, <3>1 DEF Room, Blank, Reason, InCall
  <2>4. CASE batch # <<>>
    <3>1. NextCall(s, batch, calls[s], steps'[s])
      BY <1>b, <2>1, <2>4 DEF ModelReturns
    <3> QED
      BY <2>1, <2>2, <3>1, NextCallKeepsBudget
  <2> QED
    BY <2>3, <2>4
<1>c. ASSUME DispatchNothing(s) PROVE Goal
  <2>1. /\ pc[s] = "announcing" /\ pc'[s] = "reporting" /\ calls'[s] = calls[s] + 1
        /\ UNCHANGED <<run, todo, steps, started, logged, timeLeft, result>>
    BY <1>c DEF DispatchNothing, Observed
  <2> QED
    BY <1>0, <2>1 DEF Room, Blank, Reason, InCall
<1>d. ASSUME DispatchRuns(s) PROVE Goal
  <2>1. /\ pc[s] = "announcing" /\ pc'[s] = "tool" /\ started'[s] = started[s] + 1
        /\ UNCHANGED <<run, todo, steps, calls, logged, timeLeft, result>>
    BY <1>d DEF DispatchRuns
  <2> QED
    BY <1>0, <2>1 DEF Room, Blank, Reason, InCall
<1>e. ASSUME \/ \E id \in Ids : DispatchAsks(s, id)
             \/ PromptSent(s)
             \/ GiveUp(s)
      PROVE  Goal
  <2>1. /\ pc[s] \in {"announcing", "asking", "waiting"}
        /\ pc'[s] \in {"asking", "waiting", "giving_up"}
        /\ UNCHANGED <<run, todo, steps, calls, started, logged, timeLeft, result>>
    BY <1>e DEF DispatchAsks, PromptSent, GiveUp
  <2> QED
    BY <1>0, <2>1 DEF Room, Blank, Reason, InCall
<1>f. ASSUME Conclude(s), pc[s] \in {"waiting", "giving_up"} PROVE Goal
  <2>1. UNCHANGED <<run, todo, steps, logged, timeLeft, result>>
    BY <1>f DEF Conclude
  <2>2. \/ /\ pc'[s] = "tool" /\ started'[s] = started[s] + 1 /\ calls'[s] = calls[s]
        \/ /\ pc'[s] = "reporting" /\ calls'[s] = calls[s] + 1 /\ started'[s] = started[s]
    BY <1>f DEF Conclude, Observed
  <2> QED
    BY <1>0, <1>f, <2>1, <2>2 DEF Room, Blank, Reason, InCall
<1>g. ASSUME ToolEnds(s) PROVE Goal
  <2>1. /\ pc[s] = "tool" /\ pc'[s] = "reporting" /\ calls'[s] = calls[s] + 1
        /\ logged'[s] = logged[s] + 1
        /\ UNCHANGED <<run, todo, steps, started, timeLeft, result>>
    BY <1>g DEF ToolEnds, Observed
  <2> QED
    BY <1>0, <2>1 DEF Room, Blank, Reason, InCall
<1>h. ASSUME Reported(s) PROVE Goal
  <2>1. /\ pc[s] = "reporting" /\ run'[s] = run[s] /\ run[s] # "idle" /\ result[s] = "none"
        /\ steps'[s] = steps[s] /\ todo'[s] = Tail(todo[s])
        /\ UNCHANGED <<calls, started, logged, timeLeft>>
    BY <1>h, <1>0 DEF Reported, Blank, Reason
  <2>2. Tail(todo[s]) \in Seq(Actions)
    BY <2>1 DEF CallsAreThere, InCall
  <2>3. NextCall(s, Tail(todo[s]), calls[s], steps'[s])
    BY <1>h, <2>1 DEF Reported
  <2>4. steps'[s] <= MaxSteps
    BY <1>0, <2>1 DEF Room
  <2> QED
    BY <2>1, <2>2, <2>3, <2>4, NextCallKeepsBudget
<1>i. ASSUME CancelOutsidePrompt(s) \/ CancelInsidePrompt(s) PROVE Goal
  <2>1. /\ pc[s] \notin {"none", "done"} /\ pc'[s] = "cancelled" /\ run[s] = "orphaned"
        /\ UNCHANGED <<run, todo, steps, calls, started, logged, timeLeft, result>>
    BY <1>i DEF CancelOutsidePrompt, CancelInsidePrompt, Cancellable
  <2> QED
    BY <1>0, <2>1 DEF Room, Blank, Reason, InCall
<1>j. ASSUME EndRun(s) PROVE Goal
  <2>1. /\ pc'[s] = "none" /\ todo'[s] = <<>> /\ result'[s] = "none"
        /\ steps'[s] = 0 /\ calls'[s] = 0 /\ started'[s] = 0 /\ logged'[s] = 0
    BY <1>j DEF EndRun
  <2> QED
    BY <1>0, <2>1 DEF Room, Blank, Reason, InCall
<1>k. ASSUME StartRun(s) PROVE Goal
  <2>1. /\ run[s] = "idle" /\ run'[s] = "running"
        /\ UNCHANGED <<todo, steps, calls, started, logged>>
    BY <1>k DEF StartRun
  <2>2. \/ MaxSteps = 0 /\ pc'[s] = "done" /\ result'[s] = "max_steps"
        \/ MaxSteps # 0 /\ pc'[s] = "model" /\ result'[s] = result[s]
    BY <1>k DEF StartRun, Finish
  <2> QED
    BY <1>0, <2>1, <2>2 DEF Room, Blank, Reason, InCall
<1>l. ASSUME \/ \E id \in Ids : ClientApproves(s, id) \/ ClientDenies(s, id)
             \/ ReaderEnds(s)
      PROVE  Goal
  <2>1. /\ run[s] # "idle" /\ run'[s] # "idle"
        /\ UNCHANGED <<pc, todo, steps, calls, started, logged, timeLeft, result>>
    BY <1>l DEF ClientApproves, ClientDenies, Reading, Decision, ReaderEnds
  <2> QED
    BY <1>0, <2>1 DEF Room, Blank, Reason, Overdue
<1> QED
  BY <1>a, <1>b, <1>c, <1>d, <1>e, <1>f, <1>g, <1>h, <1>i, <1>j, <1>k, <1>l
     DEF Progress, Client, Woken, TimeoutSent, ToolReturns, CancelSwallowedByWait,
         CancelSwallowedByTool

LEMMA BudgetInvInductive ==
    ASSUME SessionInv, BudgetInv, [Next]_vars
    PROVE  BudgetInv'
<1>0. SessionInv'
  BY SessionInvInductive
<1>1. ASSUME NEW s \in Sessions, Progress(s) \/ Client(s)
      PROVE  BudgetInv'
  <2> SUFFICES ASSUME NEW other \in Sessions
               PROVE  (Room(other) /\ Blank(other) /\ Reason(other))'
    BY DEF BudgetInv
  <2>1. CASE other = s
    BY <1>0, <1>1, <2>1, StepKeepsItsBudget
  <2>2. CASE other # s
    BY <1>1, <2>2, SessionsStepAlone, OthersKeepTheirBudget DEF OthersAlone
  <2> QED
    BY <2>1, <2>2
<1>2. CASE Clock
  <2> SUFFICES ASSUME NEW s \in Sessions
               PROVE  (Room(s) /\ Blank(s) /\ Reason(s))'
    BY DEF BudgetInv
  <2>1. UNCHANGED <<run, pc, todo, steps, calls, result, started, logged>>
    BY <1>2 DEF Clock
  <2>2. Overdue(s) => Overdue(s)'
    BY <1>2 DEF Clock, Overdue, Elapse, SessionInv, SessionVarsTyped
  <2> QED
    BY <2>1, <2>2 DEF BudgetInv, Room, Blank, Reason
<1>3. CASE UNCHANGED sessionVars
  BY <1>3 DEF sessionVars, loopVars, BudgetInv, Room, Blank, Reason, Overdue
<1> QED
  BY <1>1, <1>2, <1>3 DEF Next, vars, ToolsArrive

\* INV-5: the bounds of a run bind for any budgets, deadline and number of
\* sessions, whatever batches the model proposes and wherever a cancellation
\* falls (loop.py:236-302).
THEOREM BudgetsAlwaysBind == Spec => []BudgetsBind
<1>1. SessionInv /\ BudgetInv => BudgetsBind
  BY DEF BudgetInv, Room, Reason, BudgetsBind
<1>2. Init => SessionInv /\ BudgetInv
  BY SessionInvInit, BudgetInvInit
<1>3. SessionInv /\ BudgetInv /\ [Next]_vars => (SessionInv /\ BudgetInv)'
  BY SessionInvInductive, BudgetInvInductive
<1> QED
  BY <1>1, <1>2, <1>3, PTL DEF Spec

-----------------------------------------------------------------------------
(* The two dictionaries of a session.                                      *)

\* An action is bound, and a future made, only for the approval that is being
\* obtained; outside a prompt there is none, except in a task that has ended.
Dictionaries(s) ==
    /\ pc[s] \in Prompting => actions[s][asked[s]] = Head(todo[s])
    /\ \A id \in Ids : Bound(s, id) => asked[s] = id
    /\ \A id \in Ids : future[s][id] # "none" <=>
                          asked[s] = id /\ pc[s] \in {"waiting", "giving_up"}
    /\ pc[s] \notin Prompting \cup {"cancelled"} => asked[s] = NoId
    /\ run[s] = "idle" <=> pc[s] = "none"

DictionariesInv == \A s \in Sessions : Dictionaries(s)

\* A step of one session leaves the prompts of the others alone.
PromptsAlone(s) ==
    \A other \in Sessions \ {s} :
        /\ pc'[other] = pc[other] /\ run'[other] = run[other] /\ todo'[other] = todo[other]
        /\ asked'[other] = asked[other] /\ actions'[other] = actions[other]
        /\ future'[other] = future[other]

LEMMA PromptsStepAlone ==
    ASSUME SessionInv, NEW s \in Sessions, Progress(s) \/ Client(s)
    PROVE  PromptsAlone(s)
<1> DEFINE Alone == \A other \in Sessions \ {s} : /\ asked'[other] = asked[other]
                                                  /\ actions'[other] = actions[other]
                                                  /\ future'[other] = future[other]
<1>1. OthersAlone(s)
  BY SessionsStepAlone
<1>2. ASSUME \/ StartRun(s) \/ ModelFails(s) \/ (\E batch \in Batches : ModelReturns(s, batch))
             \/ DispatchNothing(s) \/ DispatchRuns(s) \/ GiveUp(s) \/ ToolEnds(s) \/ Reported(s)
             \/ ReaderEnds(s) \/ CancelOutsidePrompt(s)
      PROVE  Alone
  BY <1>2 DEF StartRun, ModelFails, ModelReturns, DispatchNothing, DispatchRuns, GiveUp,
              ToolEnds, Reported, ReaderEnds, CancelOutsidePrompt, promptVars
<1> USE DEF SessionInv, SessionVarsTyped, Set
<1>3. ASSUME NEW id \in Ids, DispatchAsks(s, id) PROVE Alone
  BY <1>3 DEF DispatchAsks
<1>4. ASSUME PromptSent(s) PROVE Alone
  BY <1>4 DEF PromptSent
<1>5. ASSUME Unbind(s) PROVE Alone
  BY <1>5 DEF Unbind
<1>6. ASSUME EndRun(s) PROVE Alone
  BY <1>6 DEF EndRun
<1>7. ASSUME NEW id \in Ids, ClientApproves(s, id) \/ ClientDenies(s, id) PROVE Alone
  BY <1>7 DEF ClientApproves, ClientDenies, Decision, Resolve
<1>8. Alone
  BY <1>2, <1>3, <1>4, <1>5, <1>6, <1>7
     DEF Progress, Client, Woken, TimeoutSent, ToolReturns, CancelSwallowedByWait,
         CancelSwallowedByTool, Conclude, CancelInsidePrompt
<1> QED
  BY <1>1, <1>8 DEF OthersAlone, PromptsAlone

LEMMA DictionariesInit == Init => DictionariesInv
BY NoIdIsNoId DEF Init, DictionariesInv, Dictionaries, Prompting, Bound

\* The end of a prompt leaves nothing bound.
LEMMA UnbindEmpties ==
    ASSUME SessionInv, NEW s \in Sessions, Dictionaries(s), pc[s] \in {"waiting", "giving_up"},
           Unbind(s)
    PROVE  /\ asked'[s] = NoId
           /\ \A id \in Ids : actions'[s][id] = NoAction /\ future'[s][id] = "none"
<1>1. asked[s] \in Ids
  BY DEF SessionInv, CallsAreThere, Prompting
<1>2. /\ actions[s] \in [Ids -> Actions \cup {NoAction}]
      /\ future[s] \in [Ids -> {"none", "unset", "set"}]
      /\ asked'[s] = NoId
      /\ actions'[s] = [actions[s] EXCEPT ![asked[s]] = NoAction]
      /\ future'[s] = [future[s] EXCEPT ![asked[s]] = "none"]
  BY DEF Unbind, Set, SessionInv, SessionVarsTyped
<1> QED
  BY <1>1, <1>2 DEF Dictionaries, Bound

LEMMA StepKeepsItsDictionaries ==
    ASSUME SessionInv, DictionariesInv, NEW s \in Sessions, Progress(s) \/ Client(s)
    PROVE  Dictionaries(s)'
<1> USE NoIdIsNoId DEF Set
<1>0. Dictionaries(s)
  BY DEF DictionariesInv
<1>t. /\ pc \in [Sessions -> AwaitPoints] /\ run \in [Sessions -> {"idle", "running", "orphaned"}]
      /\ asked \in [Sessions -> Ids \cup {NoId}]
      /\ actions \in [Sessions -> [Ids -> Actions \cup {NoAction}]]
      /\ future \in [Sessions -> [Ids -> {"none", "unset", "set"}]]
      /\ todo \in [Sessions -> Seq(Actions)]
  BY DEF SessionInv, SessionVarsTyped
<1> USE DEF Dictionaries, Prompting, Bound
<1>1. ASSUME UNCHANGED <<asked, actions, future, run>>, asked[s] = NoId, run[s] # "idle",
             pc'[s] \notin Prompting \cup {"none"}
      PROVE  Dictionaries(s)'
  BY <1>0, <1>1
<1>2. ASSUME NEW rest, NEW made, NEW turns, NextCall(s, rest, made, turns)
      PROVE  pc'[s] \in {"done", "model", "announcing"}
  <2>1. ASSUME NEW status, Finish(s, status) PROVE pc'[s] = "done"
    BY <1>t, <2>1 DEF Finish
  <2> QED
    BY <1>t, <1>2, <2>1, NextCallCases, NextTurnCases
<1>a. ASSUME ModelFails(s) PROVE Dictionaries(s)'
  BY <1>0, <1>1, <1>t, <1>a DEF ModelFails, Finish, promptVars
<1>b. ASSUME NEW batch \in Batches, ModelReturns(s, batch) PROVE Dictionaries(s)'
  <2>1. pc'[s] \in {"done", "model", "announcing"}
    BY <1>2, <1>t, <1>b DEF ModelReturns, Finish
  <2> QED
    BY <1>0, <1>1, <1>b, <2>1 DEF ModelReturns, promptVars
<1>c. ASSUME DispatchNothing(s) \/ ToolEnds(s) PROVE Dictionaries(s)'
  BY <1>0, <1>1, <1>t, <1>c DEF DispatchNothing, ToolEnds, Observed, promptVars
<1>d. ASSUME DispatchRuns(s) PROVE Dictionaries(s)'
  BY <1>0, <1>1, <1>t, <1>d DEF DispatchRuns, promptVars
<1>e. ASSUME NEW id \in Ids, DispatchAsks(s, id) PROVE Dictionaries(s)'
  <2>1. /\ asked'[s] = id /\ pc'[s] = "asking" /\ pc[s] = "announcing"
        /\ actions'[s] = [actions[s] EXCEPT ![id] = Head(todo[s])]
        /\ UNCHANGED <<todo, future, run>>
    BY <1>t, <1>e DEF DispatchAsks, loopVars
  <2>2. actions'[s][id] = Head(todo[s])
    BY <1>t, <2>1
  <2>3. \A other \in Ids : other # id => actions'[s][other] = NoAction
    BY <1>0, <1>t, <2>1
  <2> QED
    BY <1>0, <1>t, <2>1, <2>2, <2>3
<1>f. ASSUME PromptSent(s) PROVE Dictionaries(s)'
  <2>1. /\ pc'[s] = "waiting" /\ pc[s] = "asking" /\ asked[s] \in Ids
        /\ future'[s] = [future[s] EXCEPT ![asked[s]] = "unset"]
        /\ UNCHANGED <<todo, asked, actions, run>>
    BY <1>t, <1>f DEF PromptSent, loopVars, SessionInv, CallsAreThere
  <2> QED
    BY <1>0, <1>t, <2>1
<1>g. ASSUME GiveUp(s) PROVE Dictionaries(s)'
  <2>1. /\ pc'[s] = "giving_up" /\ pc[s] = "waiting"
        /\ UNCHANGED <<todo, asked, actions, future, run>>
    BY <1>t, <1>g DEF GiveUp, loopVars
  <2> QED
    BY <1>0, <2>1
<1>h. ASSUME Conclude(s), pc[s] \in {"waiting", "giving_up"} PROVE Dictionaries(s)'
  <2>1. pc'[s] \in {"tool", "reporting"} /\ UNCHANGED run
    BY <1>t, <1>h DEF Conclude, Observed
  <2>2. Unbind(s)
    BY <1>h DEF Conclude
  <2> QED
    BY <1>0, <1>h, <2>1, <2>2, UnbindEmpties
<1>i. ASSUME Reported(s) PROVE Dictionaries(s)'
  <2>1. pc'[s] \in {"done", "model", "announcing"}
    BY <1>2, <1>i DEF Reported
  <2> QED
    BY <1>0, <1>1, <1>i, <2>1 DEF Reported, promptVars
<1>j. ASSUME CancelOutsidePrompt(s) PROVE Dictionaries(s)'
  <2>1. /\ pc'[s] = "cancelled" /\ pc[s] \in {"model", "announcing", "asking", "tool", "reporting"}
        /\ UNCHANGED <<asked, actions, future, run>>
    BY <1>t, <1>j DEF CancelOutsidePrompt
  <2> QED
    BY <1>0, <2>1
<1>k. ASSUME CancelInsidePrompt(s) PROVE Dictionaries(s)'
  <2>1. /\ pc'[s] = "cancelled" /\ pc[s] \in {"waiting", "giving_up"} /\ Unbind(s)
        /\ UNCHANGED run
    BY <1>t, <1>k DEF CancelInsidePrompt
  <2> QED
    BY <1>0, <2>1, UnbindEmpties
<1>l. ASSUME EndRun(s) PROVE Dictionaries(s)'
  BY <1>t, <1>l DEF EndRun
<1>m. ASSUME StartRun(s) PROVE Dictionaries(s)'
  <2>1. /\ pc'[s] \in {"done", "model"} /\ run'[s] = "running" /\ asked[s] = NoId
        /\ UNCHANGED <<asked, actions, future>>
    BY <1>0, <1>t, <1>m DEF StartRun, Finish, promptVars
  <2> QED
    BY <1>0, <2>1
<1>n. ASSUME NEW id \in Ids, ClientApproves(s, id) \/ ClientDenies(s, id) PROVE Dictionaries(s)'
  <2>1. UNCHANGED <<pc, run, todo, asked, actions>>
    BY <1>n DEF ClientApproves, ClientDenies, Decision, loopVars
  <2>2. future' = future \/ Resolve(s, id)
    BY <1>n DEF ClientApproves, ClientDenies, Decision
  <2>3. \A other \in Ids : future'[s][other] # "none" <=> future[s][other] # "none"
    BY <1>t, <2>2 DEF Resolve
  <2> QED
    BY <1>0, <2>1, <2>3
<1>o. ASSUME ReaderEnds(s) PROVE Dictionaries(s)'
  <2>1. /\ run[s] # "idle" /\ run'[s] # "idle"
        /\ UNCHANGED <<pc, todo, asked, actions, future>>
    BY <1>t, <1>o DEF ReaderEnds, Reading, promptVars, loopVars
  <2> QED
    BY <1>0, <2>1
<1> QED
  BY <1>a, <1>b, <1>c, <1>d, <1>e, <1>f, <1>g, <1>h, <1>i, <1>j, <1>k, <1>l, <1>m, <1>n, <1>o
     DEF Progress, Client, Woken, TimeoutSent, ToolReturns, CancelSwallowedByWait,
         CancelSwallowedByTool

LEMMA DictionariesInductive ==
    ASSUME SessionInv, DictionariesInv, [Next]_vars
    PROVE  DictionariesInv'
<1>1. ASSUME NEW s \in Sessions, Progress(s) \/ Client(s)
      PROVE  DictionariesInv'
  <2> SUFFICES ASSUME NEW other \in Sessions
               PROVE  Dictionaries(other)'
    BY DEF DictionariesInv
  <2>1. CASE other = s
    BY <1>1, <2>1, StepKeepsItsDictionaries
  <2>2. CASE other # s
    <3>1. PromptsAlone(s)
      BY <1>1, PromptsStepAlone
    <3> QED
      BY <2>2, <3>1 DEF PromptsAlone, DictionariesInv, Dictionaries, Bound
  <2> QED
    BY <2>1, <2>2
<1>2. ASSUME UNCHANGED <<run, pc, todo, asked, actions, future>>
      PROVE  DictionariesInv'
  BY <1>2 DEF DictionariesInv, Dictionaries, Bound
<1> QED
  BY <1>1, <1>2 DEF Next, Clock, ToolsArrive, vars, sessionVars, loopVars, promptVars

\* The histories name ids, what was done with them, and await points.
HistoriesNamed ==
    /\ decisions \subseteq Ids \X {"approve", "deny", "timeout"}
    /\ cutOff \subseteq Ids \X AwaitPoints

\* How a step adds to the two histories.
LEMMA HistoriesGrow ==
    ASSUME SessionInv, [Next]_vars
    PROVE  /\ \/ decisions' = decisions
              \/ \E id \in Ids, verb \in {"approve", "deny", "timeout"} :
                    decisions' = decisions \cup {<<id, verb>>}
           /\ \/ cutOff' = cutOff
              \/ \E s \in Sessions : asked[s] \in Ids /\ cutOff' = cutOff \cup {<<asked[s], pc[s]>>}
<1> DEFINE Told == \/ decisions' = decisions
                   \/ \E id \in Ids, verb \in {"approve", "deny", "timeout"} :
                         decisions' = decisions \cup {<<id, verb>>}
           Cut == \/ cutOff' = cutOff
                  \/ \E s \in Sessions : asked[s] \in Ids /\ cutOff' = cutOff \cup {<<asked[s], pc[s]>>}
<1>1. ASSUME NEW s \in Sessions, CutOff(s) PROVE Cut
  BY <1>1 DEF CutOff, SessionInv, SessionVarsTyped
<1>2. ASSUME NEW s \in Sessions,
             \/ StartRun(s) \/ ModelFails(s) \/ (\E batch \in Batches : ModelReturns(s, batch))
             \/ DispatchNothing(s) \/ DispatchRuns(s) \/ (\E id \in Ids : DispatchAsks(s, id))
             \/ PromptSent(s) \/ Woken(s) \/ TimeoutSent(s) \/ ToolReturns(s) \/ Reported(s)
             \/ ReaderEnds(s) \/ EndRun(s)
      PROVE  Told /\ Cut
  BY <1>2 DEF StartRun, ModelFails, ModelReturns, DispatchNothing, DispatchRuns, DispatchAsks,
              PromptSent, Woken, TimeoutSent, Conclude, ToolReturns, ToolEnds, Reported,
              ReaderEnds, EndRun, promptVars
<1>3. ASSUME NEW s \in Sessions,
             \/ CancelOutsidePrompt(s) \/ CancelInsidePrompt(s) \/ CancelSwallowedByWait(s)
             \/ CancelSwallowedByTool(s)
      PROVE  Told /\ Cut
  BY <1>1, <1>3 DEF CancelOutsidePrompt, CancelInsidePrompt, CancelSwallowedByWait, Conclude,
                    CancelSwallowedByTool, ToolEnds, promptVars
<1>4. ASSUME NEW s \in Sessions, GiveUp(s) PROVE Told /\ Cut
  <2>1. asked[s] \in Ids
    BY <1>4 DEF GiveUp, SessionInv, CallsAreThere, Prompting
  <2> QED
    BY <1>4, <2>1 DEF GiveUp
<1>5. ASSUME NEW s \in Sessions, NEW id \in Ids, ClientApproves(s, id) \/ ClientDenies(s, id)
      PROVE  Told /\ Cut
  BY <1>5 DEF ClientApproves, ClientDenies, Decision
<1>6. ASSUME Clock \/ ToolsArrive \/ UNCHANGED vars PROVE Told /\ Cut
  BY <1>6 DEF Clock, ToolsArrive, vars, sessionVars, promptVars
<1> QED
  BY <1>2, <1>3, <1>4, <1>5, <1>6 DEF Next, Progress, Client

LEMMA HistoriesStayNamed ==
    ASSUME SessionInv, HistoriesNamed, [Next]_vars
    PROVE  HistoriesNamed'
<1>1. \A s \in Sessions : pc[s] \in AwaitPoints
  BY DEF SessionInv, SessionVarsTyped
<1> QED
  BY <1>1, HistoriesGrow DEF HistoriesNamed

\* The bookkeeping of every session, for any number of them: dictionaries that
\* follow the await point, and histories that name approvals (session.py:85-248).
THEOREM SessionsStayTyped == Spec => []SessionTypeOK
<1>1. Init => SessionInv /\ DictionariesInv /\ HistoriesNamed
  BY SessionInvInit, DictionariesInit DEF Init, HistoriesNamed
<1>2. SessionInv /\ DictionariesInv /\ HistoriesNamed /\ [Next]_vars
        => (SessionInv /\ DictionariesInv /\ HistoriesNamed)'
  BY SessionInvInductive, DictionariesInductive, HistoriesStayNamed
<1>3. SessionInv /\ DictionariesInv /\ HistoriesNamed /\ RunsAreGated => SessionTypeOK
  <2> SUFFICES ASSUME SessionInv, DictionariesInv, HistoriesNamed, RunsAreGated
               PROVE  SessionTypeOK
    OBVIOUS
  <2>1. ASSUME NEW s \in Sessions
        PROVE  /\ run[s] = "idle" <=> pc[s] = "none"
               /\ PromptOpen(s) => asked[s] \in Ids /\ actions[s][asked[s]] = Head(todo[s])
               /\ \A id \in Ids :
                     /\ Bound(s, id) => asked[s] = id
                     /\ (future[s][id] # "none") <=>
                            (asked[s] = id /\ pc[s] \in {"waiting", "giving_up"})
    BY <2>1 DEF SessionInv, CallsAreThere, DictionariesInv, Dictionaries, PromptOpen, Prompting
  <2> QED
    BY <2>1 DEF SessionInv, SessionVarsTyped, HistoriesNamed, RunsAreGated, SessionTypeOK
<1> QED
  BY <1>1, <1>2, <1>3, SessionsAreGated, PTL DEF Spec

-----------------------------------------------------------------------------
(* The prompts against the registry.                                       *)

\* While a record is there, who asked and for what do not change; an id that was
\* issued is not enrolled again.
LEMMA RequestsAreKept ==
    ASSUME ApprovalsTypeOK, [DispatchNext]_dispatchVars, NEW id \in issued, id \in Enrolled'
    PROVE  /\ id \in Enrolled
           /\ records'[id].requested_by = records[id].requested_by
           /\ records'[id].fingerprint = records[id].fingerprint
<1>1. [ApprovalsNext]_registryVars
  BY DispatchStepIsRegistryStep
<1>2. ApprovalsTypeOK' /\ id \in Ids
  BY <1>1, TypeInductive DEF ApprovalsTypeOK
<1>3. OneRecordStep(id)
  BY <1>1, <1>2, StepCases
<1>4. id \in Enrolled => records[id] \in ApprovalRecord
  BY DEF ApprovalsTypeOK, Enrolled
<1>5. CASE Kept(id)
  BY <1>5 DEF Kept, Enrolled
<1>6. CASE Enrolling(id)
  BY <1>6 DEF Enrolling
<1>7. ASSUME NEW st \in Statuses, NEW by \in Principals \cup {Nobody}, Deciding(id, st, by)
      PROVE  /\ id \in Enrolled
             /\ records'[id].requested_by = records[id].requested_by
             /\ records'[id].fingerprint = records[id].fingerprint
  BY <1>2, <1>7, DecidingShows
<1>8. CASE Granting(id) \/ Denying(id)
  <2>1. PICK st \in {"approved", "denied"}, by \in Principals : Deciding(id, st, by)
    BY <1>8, ApproversAreKnown DEF Granting, Denying
  <2> QED
    BY <1>7, <2>1 DEF Statuses
<1>9. CASE Consuming(id)
  <2>1. Deciding(id, "consumed", records[id].decided_by)
    BY <1>9 DEF Consuming
  <2>2. records[id].decided_by \in Principals \cup {Nobody}
    BY <1>4, <2>1 DEF Deciding, ApprovalRecord
  <2> QED
    BY <1>7, <2>1, <2>2 DEF Statuses
<1>10. CASE Touching(id)
  BY <1>4, <1>10 DEF Touching, Live, ApprovalRecord
<1>11. CASE Purging(id)
  BY <1>11 DEF Purging, Enrolled
<1>12. CASE Ageing(id)
  <2>1. id \in Enrolled /\ records'[id] = [records[id] EXCEPT !.left = Elapse(@)]
    BY <1>12 DEF Ageing, HasStatus
  <2> QED
    BY <1>4, <2>1 DEF ApprovalRecord
<1> QED
  BY <1>3, <1>5, <1>6, <1>8, <1>9, <1>10, <1>11, <1>12 DEF OneRecordStep

\* Ids are never taken back, nor tools unregistered.
LEMMA SuppliesOnlyGrow ==
    ASSUME [DispatchNext]_dispatchVars
    PROVE  issued \subseteq issued' /\ registered \subseteq registered'
BY DEF DispatchNext, dispatchVars, registryVars, Register, DispatchSafe, DispatchEnrol, Request,
       ExecuteApproved, Consume, DecideApprove, Approve, DecideDeny, Deny, Lookup, Get,
       Housekeeping, Sweep, PurgeTerminal, TimePasses, Tick

\* A prompt that is open after a step was open before it, for the same call,
\* or was opened by it.
LEMMA PromptEvolves ==
    ASSUME SessionInv, DictionariesInv, [Next]_vars, NEW s \in Sessions, asked'[s] \in Ids
    PROVE  \/ \E id \in Ids : DispatchAsks(s, id) /\ asked'[s] = id
           \/ /\ asked'[s] = asked[s]
              /\ pc'[s] \in Prompting => pc[s] \in Prompting /\ todo'[s] = todo[s]
<1> DEFINE Same == /\ asked'[s] = asked[s]
                   /\ pc'[s] \in Prompting => pc[s] \in Prompting /\ todo'[s] = todo[s]
<1> USE NoIdIsNoId DEF Prompting, SessionInv, SessionVarsTyped, Set
<1>1. ASSUME NEW other \in Sessions, other # s, Progress(other) \/ Client(other) PROVE Same
  BY <1>1, PromptsStepAlone DEF PromptsAlone
<1>2. ASSUME NEW id \in Ids, DispatchAsks(s, id) PROVE asked'[s] = id
  BY <1>2 DEF DispatchAsks
<1>3. ASSUME Conclude(s) PROVE FALSE
  BY <1>3 DEF Conclude, Unbind
<1>4. ASSUME CancelInsidePrompt(s) \/ EndRun(s) PROVE FALSE
  BY <1>4 DEF CancelInsidePrompt, Unbind, EndRun
<1>5. ASSUME NEW rest, NEW made, NEW turns, NextCall(s, rest, made, turns)
      PROVE  pc'[s] \in {"done", "model", "announcing"}
  BY <1>5, NextCallTyped
<1>6. ASSUME ModelFails(s) \/ (\E batch \in Batches : ModelReturns(s, batch)) \/ Reported(s)
      PROVE  Same
  <2>1. asked' = asked
    BY <1>6 DEF ModelFails, ModelReturns, Reported, promptVars
  <2>2. pc'[s] \in {"done", "model", "announcing"}
    BY <1>5, <1>6 DEF ModelFails, ModelReturns, Reported, Finish
  <2> QED
    BY <2>1, <2>2
<1>7. ASSUME DispatchNothing(s) \/ DispatchRuns(s) \/ ToolEnds(s) \/ CancelOutsidePrompt(s)
      PROVE  Same
  BY <1>7 DEF DispatchNothing, DispatchRuns, ToolEnds, CancelOutsidePrompt, Observed, promptVars
<1>8. ASSUME PromptSent(s) \/ GiveUp(s) PROVE Same
  BY <1>8 DEF PromptSent, GiveUp, loopVars
<1>9. ASSUME StartRun(s) PROVE Same
  BY <1>9 DEF StartRun, Finish, promptVars
<1>10. ASSUME \/ ReaderEnds(s) \/ (\E id \in Ids : ClientApproves(s, id) \/ ClientDenies(s, id))
       PROVE  Same
  BY <1>10 DEF ReaderEnds, ClientApproves, ClientDenies, Decision, loopVars, promptVars
<1>11. ASSUME Clock \/ ToolsArrive \/ UNCHANGED vars PROVE Same
  BY <1>11 DEF Clock, ToolsArrive, vars, sessionVars, promptVars, loopVars
<1> QED
  BY <1>1, <1>2, <1>3, <1>4, <1>6, <1>7, <1>8, <1>9, <1>10, <1>11
     DEF Next, Progress, Client, Woken, TimeoutSent, ToolReturns, CancelSwallowedByWait,
         CancelSwallowedByTool

\* The approval a session is obtaining is its own: enrolled for its principal
\* and for the call it is handling, which the gate wants confirmed and a tool
\* can carry out; no two sessions obtain the same one.
Requested(s) ==
    asked[s] \in Ids =>
        /\ asked[s] \in issued
        /\ asked[s] \in Enrolled => records[asked[s]].requested_by = PrincipalOf[s]
        /\ pc[s] \in Prompting =>
              /\ Verdict[Head(todo[s])] = "needs_confirmation" /\ HasTool(Head(todo[s]))
              /\ asked[s] \in Enrolled =>
                     records[asked[s]].fingerprint = Fingerprint[Head(todo[s])]

RequestsInv ==
    /\ \A s \in Sessions : Requested(s)
    /\ \A s, t \in Sessions : asked[s] \in Ids /\ asked[s] = asked[t] => s = t

LEMMA AskingRequests ==
    ASSUME SessionInv, ApprovalsTypeOK, NEW s \in Sessions, NEW id \in Ids, DispatchAsks(s, id)
    PROVE  /\ id \notin issued /\ id \in issued' /\ asked' = [asked EXCEPT ![s] = id]
           /\ Requested(s)'
<1>1. /\ id \notin issued /\ issued' = issued \cup {id}
      /\ asked' = [asked EXCEPT ![s] = id] /\ asked'[s] = id
      /\ todo' = todo /\ registered' = registered
      /\ Verdict[Head(todo[s])] = "needs_confirmation" /\ HasTool(Head(todo[s]))
  BY DEF DispatchAsks, DispatchEnrol, Request, Set, SessionInv, SessionVarsTyped, loopVars
<1>2. /\ records'[id].requested_by = PrincipalOf[s]
      /\ records'[id].fingerprint = Fingerprint[Head(todo[s])]
  BY DEF DispatchAsks, DispatchEnrol, Request, ApprovalsTypeOK
<1> QED
  BY <1>1, <1>2 DEF Requested, HasTool

LEMMA RequestsInductive ==
    ASSUME SessionInv, DictionariesInv, ApprovalsTypeOK, RequestsInv, [Next]_vars
    PROVE  RequestsInv'
<1>0. [DispatchNext]_dispatchVars
  BY SessionStepIsDispatcherStep
<1>1. ASSUME NEW s \in Sessions, asked'[s] \in Ids
      PROVE  Requested(s)'
  <2>1. CASE \E id \in Ids : DispatchAsks(s, id)
    BY <2>1, AskingRequests
  <2>2. CASE /\ asked'[s] = asked[s]
             /\ pc'[s] \in Prompting => pc[s] \in Prompting /\ todo'[s] = todo[s]
    <3>1. asked[s] \in issued /\ Requested(s) /\ asked[s] \in Ids
      BY <1>1, <2>2 DEF RequestsInv, Requested
    <3>2. asked[s] \in issued' /\ registered \subseteq registered'
      BY <1>0, <3>1, SuppliesOnlyGrow
    <3>3. asked[s] \in Enrolled' =>
            /\ asked[s] \in Enrolled
            /\ records'[asked[s]].requested_by = records[asked[s]].requested_by
            /\ records'[asked[s]].fingerprint = records[asked[s]].fingerprint
      BY <1>0, <3>1, RequestsAreKept
    <3> QED
      BY <2>2, <3>1, <3>2, <3>3 DEF Requested, HasTool
  <2> QED
    BY <1>1, <2>1, <2>2, PromptEvolves
<1>2. ASSUME NEW s \in Sessions, NEW t \in Sessions, asked'[s] \in Ids, asked'[s] = asked'[t]
      PROVE  s = t
  <2>1. ASSUME NEW x \in Sessions, NEW y \in Sessions, NEW id \in Ids, DispatchAsks(x, id),
               asked'[y] = id
        PROVE  y = x
    <3>1. id \notin issued /\ asked' = [asked EXCEPT ![x] = id]
      BY <2>1, AskingRequests
    <3>2. y # x => asked[y] = id
      BY <2>1, <3>1 DEF SessionInv, SessionVarsTyped
    <3> QED
      BY <3>1, <3>2 DEF RequestsInv, Requested
  <2>2. \/ \E id \in Ids : DispatchAsks(s, id) /\ asked'[s] = id
        \/ asked'[s] = asked[s]
    BY <1>2, PromptEvolves
  <2>3. \/ \E id \in Ids : DispatchAsks(t, id) /\ asked'[t] = id
        \/ asked'[t] = asked[t]
    BY <1>2, PromptEvolves
  <2> QED
    BY <1>2, <2>1, <2>2, <2>3 DEF RequestsInv
<1> QED
  BY <1>1, <1>2 DEF RequestsInv, Requested

-----------------------------------------------------------------------------
(* Whose decisions an approval takes.                                      *)

\* A decision is entered by the principal who takes it, and by nobody else.
LEMMA DecidersSign ==
    ASSUME ApprovalsTypeOK, NEW x \in Ids, NEW p \in Principals, NEW a,
           Approve(x, a, p) \/ Deny(x, p),
           NEW id \in Enrolled, id \in Enrolled'
    PROVE  \/ records'[id].decided_by = records[id].decided_by
           \/ id = x /\ records'[id].decided_by = p
<1>1. records[id] \in ApprovalRecord /\ id \in Ids
  BY DEF ApprovalsTypeOK, Enrolled
<1>2. CASE Touch(x)
  BY <1>1, <1>2 DEF Touch, Live, ApprovalRecord, ApprovalsTypeOK
<1>3. ASSUME NEW st \in {"approved", "denied"}, Store(x, st, p), x \in Enrolled
      PROVE  \/ records'[id].decided_by = records[id].decided_by
             \/ id = x /\ records'[id].decided_by = p
  <2>1. Live(x) \in ApprovalRecord
    BY <1>3, LiveIsRecord
  <2> QED
    BY <1>1, <1>3, <2>1 DEF Store, ApprovalRecord, ApprovalsTypeOK
<1> QED
  BY <1>2, <1>3 DEF Approve, Deny, MayApprove, MayDeny, LiveStatus

LEMMA OthersSignNothing ==
    ASSUME ApprovalsTypeOK,
           \/ \E x \in Ids, a \in Actions : ExecuteApproved(x, a)
           \/ \E x \in Ids, a \in Actions, p \in Principals : DispatchEnrol(a, p, x)
           \/ \E x \in Ids : Lookup(x)
           \/ Housekeeping \/ TimePasses \/ UNCHANGED records,
           NEW id \in Enrolled, id \in Enrolled'
    PROVE  records'[id].decided_by = records[id].decided_by
<1>1. records[id] \in ApprovalRecord /\ id \in Ids /\ id \in issued
  BY DEF ApprovalsTypeOK, Enrolled
<1>2. ASSUME NEW x \in Ids, Touch(x) PROVE records'[id].decided_by = records[id].decided_by
  BY <1>1, <1>2 DEF Touch, Live, ApprovalRecord, ApprovalsTypeOK
<1>3. ASSUME NEW x \in Ids, Store(x, "consumed", records[x].decided_by), x \in Enrolled
      PROVE  records'[id].decided_by = records[id].decided_by
  <2>1. Live(x) \in ApprovalRecord
    BY <1>3, LiveIsRecord
  <2> QED
    BY <1>1, <1>3, <2>1 DEF Store, ApprovalRecord, ApprovalsTypeOK
<1>4. ASSUME NEW x \in Ids, NEW a \in Actions, ExecuteApproved(x, a)
      PROVE  records'[id].decided_by = records[id].decided_by
  BY <1>2, <1>3, <1>4 DEF ExecuteApproved, Consume, MayConsume, LiveStatus
<1>5. ASSUME NEW x \in Ids, NEW a \in Actions, NEW p \in Principals, DispatchEnrol(a, p, x)
      PROVE  records'[id].decided_by = records[id].decided_by
  BY <1>1, <1>5 DEF DispatchEnrol, Request, ApprovalsTypeOK
<1>6. ASSUME Housekeeping PROVE records'[id].decided_by = records[id].decided_by
  BY <1>1, <1>6 DEF Housekeeping, Sweep, PurgeTerminal, Live, ApprovalRecord, Enrolled
<1>7. ASSUME TimePasses PROVE records'[id].decided_by = records[id].decided_by
  BY <1>1, <1>7 DEF TimePasses, Tick, ApprovalRecord
<1> QED
  BY <1>2, <1>4, <1>5, <1>6, <1>7 DEF Lookup, Get

\* In the composition it is always the session that is obtaining the approval.
LEMMA SessionsSign ==
    ASSUME SessionInv, DictionariesInv, ApprovalsTypeOK, [Next]_vars,
           NEW id \in Enrolled, id \in Enrolled'
    PROVE  \/ records'[id].decided_by = records[id].decided_by
           \/ \E s \in Sessions : asked[s] = id /\ records'[id].decided_by = PrincipalOf[s]
<1> DEFINE Goal == \/ records'[id].decided_by = records[id].decided_by
                   \/ \E s \in Sessions : asked[s] = id /\ records'[id].decided_by = PrincipalOf[s]
<1> USE PrincipalOfIsTotal
<1>1. ASSUME NEW s \in Sessions, NEW x \in Ids, NEW a, asked[s] = x,
             Approve(x, a, PrincipalOf[s]) \/ Deny(x, PrincipalOf[s])
      PROVE  Goal
  <2>1. PrincipalOf[s] \in Principals
    OBVIOUS
  <2> QED
    BY <1>1, <2>1, DecidersSign
<1>2. ASSUME NEW s \in Sessions, asked[s] \in Ids, DenyIfPending(s) PROVE Goal
  <2>1. CASE Deny(asked[s], PrincipalOf[s])
    BY <1>1, <1>2, <2>1
  <2>2. CASE Lookup(asked[s])
    BY <1>2, <2>2, OthersSignNothing
  <2> QED
    BY <1>2, <2>1, <2>2 DEF DenyIfPending, DecideDeny
<1>3. ASSUME NEW s \in Sessions, pc[s] \in {"waiting", "giving_up"}, Conclude(s) PROVE Goal
  <2>1. asked[s] \in Ids /\ Head(todo[s]) \in Actions
    <3>1. asked[s] \in Ids /\ todo[s] \in Seq(Actions) /\ todo[s] # <<>>
      BY <1>3 DEF SessionInv, SessionVarsTyped, CallsAreThere, InCall, Prompting
    <3> QED
      BY <3>1
  <2>2. ExecuteApproved(asked[s], Head(todo[s])) \/ DenyIfPending(s)
    BY <1>3 DEF Conclude
  <2> QED
    BY <1>2, <2>1, <2>2, OthersSignNothing
<1>4. ASSUME NEW s \in Sessions, CancelInsidePrompt(s) PROVE Goal
  BY <1>2, <1>4 DEF CancelInsidePrompt, SessionInv, CallsAreThere, Prompting
<1>5. ASSUME NEW s \in Sessions, NEW x \in Ids, ClientApproves(s, x) \/ ClientDenies(s, x)
      PROVE  Goal
  BY <1>1, <1>5 DEF ClientApproves, ClientDenies, DecideApprove, DecideDeny, DictionariesInv,
                    Dictionaries
<1>6. ASSUME NEW s \in Sessions, NEW x \in Ids, DispatchAsks(s, x) PROVE Goal
  <2>1. Head(todo[s]) \in Actions
    <3>1. todo[s] \in Seq(Actions) /\ todo[s] # <<>>
      BY <1>6 DEF DispatchAsks, SessionInv, SessionVarsTyped, CallsAreThere, InCall
    <3> QED
      BY <3>1
  <2>2. PrincipalOf[s] \in Principals /\ DispatchEnrol(Head(todo[s]), PrincipalOf[s], x)
    BY <1>6 DEF DispatchAsks
  <2> QED
    BY <2>1, <2>2, OthersSignNothing
<1>7. ASSUME (\E s \in Sessions : EndRun(s)) \/ Clock PROVE Goal
  <2>1. Housekeeping \/ TimePasses
    BY <1>7 DEF EndRun, Clock, Housekeeping
  <2> QED
    BY <2>1, OthersSignNothing
<1>8. ASSUME NEW s \in Sessions,
             \/ StartRun(s) \/ ModelFails(s) \/ (\E batch \in Batches : ModelReturns(s, batch))
             \/ DispatchNothing(s) \/ DispatchRuns(s) \/ PromptSent(s) \/ GiveUp(s)
             \/ ToolEnds(s) \/ Reported(s) \/ ReaderEnds(s) \/ CancelOutsidePrompt(s)
      PROVE  Goal
  BY <1>8 DEF StartRun, ModelFails, ModelReturns, DispatchNothing, DispatchRuns, DispatchSafe,
              PromptSent, GiveUp, ToolEnds, Reported, ReaderEnds, CancelOutsidePrompt,
              dispatchVars, registryVars
<1>9. ASSUME ToolsArrive \/ UNCHANGED vars PROVE Goal
  BY <1>9 DEF ToolsArrive, Register, vars, dispatchVars, registryVars
<1> QED
  BY <1>3, <1>4, <1>5, <1>6, <1>7, <1>8, <1>9
     DEF Next, Progress, Client, Woken, TimeoutSent, ToolReturns, CancelSwallowedByWait,
         CancelSwallowedByTool

\* Grants are given by the frames of a client only.
LEMMA GrantsMove ==
    ASSUME [Next]_vars
    PROVE  (\E s \in Sessions, x \in Ids : ClientApproves(s, x)) \/ UNCHANGED grants
<1>1. ASSUME NEW s \in Sessions, Conclude(s) \/ CancelInsidePrompt(s)
      PROVE  UNCHANGED grants
  BY <1>1 DEF Conclude, CancelInsidePrompt, ExecuteApproved, DenyIfPending, DecideDeny, Lookup
<1>2. ASSUME NEW s \in Sessions,
             \/ StartRun(s) \/ ModelFails(s) \/ (\E batch \in Batches : ModelReturns(s, batch))
             \/ DispatchNothing(s) \/ DispatchRuns(s) \/ PromptSent(s) \/ GiveUp(s)
             \/ ToolEnds(s) \/ Reported(s) \/ ReaderEnds(s) \/ CancelOutsidePrompt(s)
      PROVE  UNCHANGED grants
  BY <1>2 DEF StartRun, ModelFails, ModelReturns, DispatchNothing, DispatchRuns, DispatchSafe,
              PromptSent, GiveUp, ToolEnds, Reported, ReaderEnds, CancelOutsidePrompt,
              dispatchVars
<1>3. ASSUME NEW s \in Sessions,
             \/ (\E x \in Ids : DispatchAsks(s, x)) \/ EndRun(s)
             \/ (\E x \in Ids : ClientDenies(s, x))
      PROVE  UNCHANGED grants
  BY <1>3 DEF DispatchAsks, DispatchEnrol, EndRun, ClientDenies, DecideDeny
<1>4. ASSUME Clock \/ ToolsArrive \/ UNCHANGED vars PROVE UNCHANGED grants
  BY <1>4 DEF Clock, TimePasses, ToolsArrive, Register, vars, dispatchVars
<1> QED
  BY <1>1, <1>2, <1>3, <1>4
     DEF Next, Progress, Client, Woken, TimeoutSent, ToolReturns, CancelSwallowedByWait,
         CancelSwallowedByTool

\* A grant joins the history only through the session that asked.
LEMMA GrantsComeFromSessions ==
    ASSUME DictionariesInv, ApprovalsTypeOK, [Next]_vars, NEW g \in grants', g \notin grants
    PROVE  g.id \in issued /\ \E s \in Sessions : /\ asked[s] = g.id /\ g.by = PrincipalOf[s]
                                                  /\ UNCHANGED asked
<1>1. PICK s \in Sessions, x \in Ids : ClientApproves(s, x)
  BY GrantsMove
<1>2. /\ MayApprove(x, actions[s][x], PrincipalOf[s])
      /\ grants' = grants \cup {[id |-> x, action |-> actions[s][x], by |-> PrincipalOf[s]]}
  BY <1>1 DEF ClientApproves, DecideApprove
<1>3. g.id = x /\ g.by = PrincipalOf[s]
  BY <1>2
<1>4. x \in issued
  BY <1>2 DEF MayApprove, LiveStatus, ApprovalsTypeOK
<1>5. asked[s] = x /\ UNCHANGED asked
  BY <1>1 DEF ClientApproves, Decision, DictionariesInv, Dictionaries
<1> QED
  BY <1>3, <1>4, <1>5

DecisionsInv ==
    /\ DecisionsStayInTheirSession
    /\ \A g \in grants : g.id \in issued

LEMMA DecisionsInductive ==
    ASSUME SessionInv, DictionariesInv, ApprovalsTypeOK, grants \subseteq Grant, RequestsInv,
           DecisionsInv, [Next]_vars
    PROVE  DecisionsInv'
<1>0. [DispatchNext]_dispatchVars
  BY SessionStepIsDispatcherStep
<1>1. [ApprovalsNext]_registryVars /\ ApprovalsTypeOK' /\ issued \subseteq issued'
  BY <1>0, DispatchStepIsRegistryStep, TypeInductive, SuppliesOnlyGrow
<1>2. ASSUME NEW id \in Enrolled'
      PROVE  records'[id].decided_by \in {Nobody, records'[id].requested_by}
  <2>1. CASE id \in Enrolled
    <3>1. /\ id \in issued /\ id \in Ids
          /\ records[id].decided_by \in {Nobody, records[id].requested_by}
      BY <2>1 DEF ApprovalsTypeOK, Enrolled, DecisionsInv, DecisionsStayInTheirSession
    <3>2. records'[id].requested_by = records[id].requested_by
      BY <1>0, <1>2, <3>1, RequestsAreKept
    <3>3. \A s \in Sessions : asked[s] = id => records[id].requested_by = PrincipalOf[s]
      BY <2>1, <3>1 DEF RequestsInv, Requested
    <3> QED
      BY <1>2, <2>1, <3>1, <3>2, <3>3, SessionsSign
  <2>2. CASE id \notin Enrolled
    <3>1. id \in Ids /\ OneRecordStep(id)
      BY <1>1, <1>2, StepCases DEF Enrolled
    <3>2. Enrolling(id)
      BY <1>2, <2>2, <3>1 DEF OneRecordStep, Kept, Granting, Denying, Consuming, Deciding,
         Touching, Purging, HasStatus, Ageing, Enrolled
    <3> QED
      BY <3>2 DEF Enrolling
  <2> QED
    BY <2>1, <2>2
<1>3. ASSUME NEW g \in grants'
      PROVE  g.id \in issued' /\ \A s \in Sessions : asked'[s] = g.id => g.by = PrincipalOf[s]
  <2>1. CASE g \in grants
    <3>1. g.id \in issued /\ g.id \in Ids
      BY <2>1 DEF DecisionsInv, Grant
    <3>2. ASSUME NEW s \in Sessions, asked'[s] = g.id
          PROVE  g.by = PrincipalOf[s]
      <4>1. ASSUME NEW id \in Ids, DispatchAsks(s, id), asked'[s] = id PROVE FALSE
        BY <3>1, <3>2, <4>1, AskingRequests
      <4>2. asked[s] = g.id
        BY <3>1, <3>2, <4>1, PromptEvolves
      <4> QED
        BY <2>1, <4>2 DEF DecisionsInv, DecisionsStayInTheirSession
    <3> QED
      BY <1>1, <3>1, <3>2
  <2>2. CASE g \notin grants
    <3>1. PICK t \in Sessions : asked[t] = g.id /\ g.by = PrincipalOf[t] /\ UNCHANGED asked
      BY <1>3, <2>2, GrantsComeFromSessions
    <3>2. g.id \in issued /\ g.id \in Ids
      BY <1>3, <2>2, GrantsComeFromSessions DEF ApprovalsTypeOK
    <3> QED
      BY <1>1, <3>1, <3>2 DEF RequestsInv
  <2> QED
    BY <2>1, <2>2
<1> QED
  BY <1>2, <1>3 DEF DecisionsInv, DecisionsStayInTheirSession

-----------------------------------------------------------------------------
(* What a run leaves behind in the registry.                               *)

\* Ids are issued to prompts only.
LEMMA IssuedByAsking ==
    ASSUME [Next]_vars, NEW id \in Ids, id \notin issued, id \in issued'
    PROVE  \E s \in Sessions : DispatchAsks(s, id)
<1>1. ASSUME UNCHANGED issued PROVE FALSE
  BY <1>1
<1>2. ASSUME NEW s \in Sessions,
             \/ StartRun(s) \/ ModelFails(s) \/ (\E batch \in Batches : ModelReturns(s, batch))
             \/ DispatchNothing(s) \/ DispatchRuns(s) \/ PromptSent(s) \/ GiveUp(s)
             \/ ToolEnds(s) \/ Reported(s) \/ ReaderEnds(s) \/ CancelOutsidePrompt(s)
      PROVE  UNCHANGED issued
  BY <1>2 DEF StartRun, ModelFails, ModelReturns, DispatchNothing, DispatchRuns, DispatchSafe,
              PromptSent, GiveUp, ToolEnds, Reported, ReaderEnds, CancelOutsidePrompt,
              dispatchVars, registryVars
<1>3. ASSUME NEW s \in Sessions, Conclude(s) \/ CancelInsidePrompt(s) \/ EndRun(s)
      PROVE  UNCHANGED issued
  BY <1>3 DEF Conclude, CancelInsidePrompt, EndRun, ExecuteApproved, Consume, DenyIfPending,
              DecideDeny, Deny, Lookup, Get, PurgeTerminal
<1>4. ASSUME NEW s \in Sessions, NEW x \in Ids, ClientApproves(s, x) \/ ClientDenies(s, x)
      PROVE  UNCHANGED issued
  BY <1>4 DEF ClientApproves, ClientDenies, DecideApprove, Approve, DecideDeny, Deny
<1>5. ASSUME Clock \/ ToolsArrive \/ UNCHANGED vars PROVE UNCHANGED issued
  BY <1>5 DEF Clock, TimePasses, Tick, ToolsArrive, Register, vars, dispatchVars, registryVars
<1>6. ASSUME NEW s \in Sessions, NEW x \in Ids, DispatchAsks(s, x) PROVE x = id
  BY <1>6 DEF DispatchAsks, DispatchEnrol, Request
<1> QED
  BY <1>1, <1>2, <1>3, <1>4, <1>5, <1>6
     DEF Next, Progress, Client, Woken, TimeoutSent, ToolReturns, CancelSwallowedByWait,
         CancelSwallowedByTool

\* An open prompt stays open, or is concluded, or is cancelled.
LEMMA PromptCloses ==
    ASSUME SessionInv, BudgetInv, [Next]_vars, NEW s \in Sessions, pc[s] \in Prompting
    PROVE  \/ asked'[s] = asked[s] /\ pc'[s] \in Prompting
           \/ Conclude(s) /\ pc[s] \in {"waiting", "giving_up"}
           \/ CancelInsidePrompt(s)
           \/ CancelOutsidePrompt(s) /\ pc[s] = "asking"
<1> USE DEF Prompting, Set
<1>0. asked \in [Sessions -> Ids \cup {NoId}] /\ pc \in [Sessions -> AwaitPoints]
  BY DEF SessionInv, SessionVarsTyped
<1>1. ASSUME NEW other \in Sessions, other # s, Progress(other) \/ Client(other)
      PROVE  asked'[s] = asked[s] /\ pc'[s] = pc[s]
  BY <1>1, PromptsStepAlone DEF PromptsAlone
<1>2. ASSUME \/ ModelFails(s) \/ (\E batch \in Batches : ModelReturns(s, batch))
             \/ DispatchNothing(s) \/ DispatchRuns(s) \/ (\E id \in Ids : DispatchAsks(s, id))
             \/ ToolEnds(s) \/ Reported(s) \/ EndRun(s)
      PROVE  FALSE
  BY <1>2 DEF ModelFails, ModelReturns, DispatchNothing, DispatchRuns, DispatchAsks, ToolEnds,
              Reported, EndRun, LoopEnded
<1>3. ASSUME PromptSent(s) \/ GiveUp(s) PROVE asked'[s] = asked[s] /\ pc'[s] \in Prompting
  BY <1>0, <1>3 DEF PromptSent, GiveUp
<1>4. ASSUME \/ ReaderEnds(s) \/ (\E id \in Ids : ClientApproves(s, id) \/ ClientDenies(s, id))
             \/ Clock \/ ToolsArrive \/ UNCHANGED vars
      PROVE  asked'[s] = asked[s] /\ pc'[s] = pc[s]
  BY <1>4 DEF ReaderEnds, ClientApproves, ClientDenies, Decision, Clock, ToolsArrive, vars,
              sessionVars, promptVars
<1>5. ASSUME StartRun(s) PROVE FALSE
  BY <1>5 DEF StartRun, BudgetInv, Blank
<1>6. ASSUME CancelOutsidePrompt(s) PROVE pc[s] = "asking"
  BY <1>6 DEF CancelOutsidePrompt
<1>7. ASSUME Woken(s) \/ TimeoutSent(s) \/ CancelSwallowedByWait(s)
      PROVE  Conclude(s) /\ pc[s] \in {"waiting", "giving_up"}
  BY <1>7 DEF Woken, TimeoutSent, CancelSwallowedByWait
<1> QED
  BY <1>1, <1>2, <1>3, <1>4, <1>5, <1>6, <1>7
     DEF Next, Progress, Client, ToolReturns, CancelSwallowedByTool

\* The last line of obtain_approval's finally block leaves nothing pending.
LEMMA DenyCloses ==
    ASSUME ApprovalsTypeOK, ApprovalsTypeOK', NEW s \in Sessions, NEW id \in Ids,
           asked[s] = id, DenyIfPending(s)
    PROVE  /\ Phase(id)' # "pending"
           /\ Phase(id)' = "approved" =>
                 /\ id \in Enrolled /\ records[id].status = "approved"
                 /\ Live(id).status = "approved"
<1>1. CASE LiveStatus(id, {"pending"})
  <2>1. DecideDeny(id, PrincipalOf[s]) /\ MayDeny(id)
    BY <1>1 DEF DenyIfPending, MayDeny, LiveStatus
  <2>2. Store(id, "denied", PrincipalOf[s]) /\ UNCHANGED issued /\ id \in Enrolled
    BY <2>1 DEF DecideDeny, Deny, MayDeny, LiveStatus
  <2>3. Deciding(id, "denied", PrincipalOf[s])
    BY <2>2, StoreIsLocal
  <2>4. Phase(id)' = "denied"
    <3>1. PrincipalOf[s] \in Principals \cup {Nobody} /\ "denied" \in Statuses
      BY PrincipalOfIsTotal DEF Statuses
    <3> QED
      BY <2>3, <3>1, DecidingShows, PhaseIsStatus
  <2> QED
    BY <2>4
<1>2. CASE ~LiveStatus(id, {"pending"})
  <2>1. Touch(id) /\ UNCHANGED issued
    BY <1>2 DEF DenyIfPending, Lookup, Get
  <2>2. CASE id \in Enrolled
    <3>1. records'[id] = Live(id) /\ Live(id) \in ApprovalRecord /\ Live(id).status # "pending"
      BY <1>2, <2>1, <2>2, LiveIsRecord DEF Touch, ApprovalsTypeOK, LiveStatus
    <3>2. id \in Enrolled' /\ Phase(id)' = Live(id).status
      BY <3>1, NoRecordIsNoRecord, PhaseIsStatus DEF Enrolled
    <3> QED
      BY <2>2, <3>1, <3>2, LiveShows
  <2>3. CASE id \notin Enrolled
    <3>1. records' = records
      BY <2>1, <2>3 DEF Touch
    <3> QED
      BY <2>1, <2>3, <3>1 DEF Phase, Enrolled
  <2> QED
    BY <2>2, <2>3
<1> QED
  BY <1>1, <1>2

\* An approval whose prompt is concluded is neither pending nor approved: an
\* approved one is always spent, because it is bound to the very call.
LEMMA ConcludeSpends ==
    ASSUME SessionInv, ApprovalsTypeOK, ApprovalsTypeOK', RequestsInv, NEW s \in Sessions,
           NEW id \in Ids, asked[s] = id, NEW a, a = Head(todo[s]),
           Conclude(s), pc[s] \in {"waiting", "giving_up"}
    PROVE  Phase(id)' \notin {"pending", "approved"}
<1>1. /\ Verdict[a] = "needs_confirmation" /\ HasTool(a)
      /\ id \in Enrolled => records[id].fingerprint = Fingerprint[a]
  BY DEF SessionInv, CallsAreThere, Prompting, RequestsInv, Requested
<1>2. CASE WillRun(id, a)
  <2>1. /\ id \in Enrolled
        /\ Store(id, "consumed", records[id].decided_by) /\ UNCHANGED issued
    BY <1>2 DEF Conclude, ExecuteApproved, Consume, WillRun, MayConsume, LiveStatus
  <2>2. Deciding(id, "consumed", records[id].decided_by)
    BY <2>1, StoreIsLocal
  <2>3. records[id].decided_by \in Principals \cup {Nobody} /\ "consumed" \in Statuses
    BY <2>1 DEF ApprovalsTypeOK, Enrolled, ApprovalRecord, Statuses
  <2>4. Phase(id)' = "consumed"
    BY <1>1, <2>2, <2>3, DecidingShows, PhaseIsStatus
  <2> QED
    BY <2>4
<1>3. CASE ~WillRun(id, a)
  <2>1. DenyIfPending(s)
    BY <1>3 DEF Conclude
  <2>2. ASSUME id \in Enrolled, Live(id).status = "approved" PROVE FALSE
    BY <1>1, <1>3, <2>2 DEF WillRun, ReachesConsume, MayConsume, LiveStatus
  <2> QED
    BY <1>1, <2>1, <2>2, DenyCloses
<1> QED
  BY <1>2, <1>3

LEMMA LiveIsPhase ==
    ASSUME ApprovalsTypeOK, NEW id \in Ids
    PROVE  HasStatus(id, {"pending", "approved"}) <=> Phase(id) \in {"pending", "approved"}
BY DEF HasStatus, Phase

LEMMA LeftoversInductive ==
    ASSUME SessionInv, BudgetInv, DictionariesInv, ApprovalsTypeOK, RequestsInv,
           LeftoversComeFromCancellation, [Next]_vars
    PROVE  LeftoversComeFromCancellation'
<1>0. [ApprovalsNext]_registryVars /\ ApprovalsTypeOK'
  BY SessionStepIsDispatcherStep, DispatchStepIsRegistryStep, TypeInductive
<1>1. cutOff \subseteq cutOff'
  BY HistoriesGrow
<1>p. \A t \in Sessions : PromptOpen(t) <=> pc[t] \in Prompting
  BY DEF PromptOpen, Prompting
<1>q. \A t \in Sessions : PromptOpen(t)' <=> pc'[t] \in Prompting
  BY DEF PromptOpen, Prompting
<1> SUFFICES ASSUME NEW id \in Ids, HasStatus(id, {"pending", "approved"})'
             PROVE  \/ \E s \in Sessions : asked'[s] = id /\ PromptOpen(s)'
                    \/ <<id, "asking">> \in cutOff'
                    \/ /\ records'[id].status = "approved"
                       /\ \E at \in AwaitPoints : <<id, at>> \in cutOff'
  BY DEF LeftoversComeFromCancellation
<1>2. /\ Phase(id)' \in {"pending", "approved"} /\ id \in Enrolled'
      /\ Phase(id)' = records'[id].status
  BY PhaseIsStatus DEF HasStatus
<1>3. Phase(id) \in {"unused", "pending", "approved"}
  <2>1. Phase(id)' \in {Phase(id)} \cup MayBecome[Phase(id)]
    BY <1>0, NextAdvances
  <2>2. Phase(id) \in Statuses \cup {"forgotten", "unused"}
    BY DEF Phase, ApprovalsTypeOK, Enrolled, ApprovalRecord
  <2> QED
    BY <1>2, <2>1, <2>2 DEF MayBecome, Statuses
<1>4. CASE Phase(id) = "unused"
  <2>1. id \notin issued /\ id \in issued'
    BY <1>0, <1>2, <1>4 DEF Phase, ApprovalsTypeOK, Enrolled, ApprovalRecord, Statuses
  <2>2. PICK s \in Sessions : DispatchAsks(s, id)
    BY <2>1, IssuedByAsking
  <2>3. asked'[s] = id /\ pc'[s] = "asking"
    BY <2>2 DEF DispatchAsks, Set, SessionInv, SessionVarsTyped
  <2> QED
    BY <1>q, <2>3 DEF Prompting
<1>5. CASE Phase(id) \in {"pending", "approved"}
  <2>1. \/ \E s \in Sessions : asked[s] = id /\ pc[s] \in Prompting
        \/ <<id, "asking">> \in cutOff
        \/ /\ records[id].status = "approved"
           /\ \E at \in AwaitPoints : <<id, at>> \in cutOff
    BY <1>5, <1>p, LiveIsPhase DEF LeftoversComeFromCancellation
  <2>2. CASE <<id, "asking">> \in cutOff
    BY <1>1, <2>2
  <2>3. CASE /\ records[id].status = "approved"
             /\ \E at \in AwaitPoints : <<id, at>> \in cutOff
    <3>1. Phase(id) = "approved"
      BY <1>5, <2>3 DEF Phase
    <3>2. Phase(id)' = "approved"
      <4>1. Phase(id)' \in {"approved"} \cup MayBecome["approved"]
        BY <1>0, <3>1, NextAdvances
      <4> QED
        BY <1>2, <4>1 DEF MayBecome
    <3> QED
      BY <1>1, <1>2, <2>3, <3>2
  <2>4. ASSUME NEW s \in Sessions, asked[s] = id, pc[s] \in Prompting
        PROVE  \/ \E t \in Sessions : asked'[t] = id /\ PromptOpen(t)'
               \/ <<id, "asking">> \in cutOff'
               \/ /\ records'[id].status = "approved"
                  /\ \E at \in AwaitPoints : <<id, at>> \in cutOff'
    <3>1. CASE asked'[s] = asked[s] /\ pc'[s] \in Prompting
      BY <1>q, <2>4, <3>1
    <3>2. CASE Conclude(s) /\ pc[s] \in {"waiting", "giving_up"}
      BY <1>0, <1>2, <2>4, <3>2, ConcludeSpends
    <3>3. CASE CancelInsidePrompt(s)
      <4>1. <<id, pc[s]>> \in cutOff' /\ pc[s] \in AwaitPoints
        BY <2>4, <3>3, NoIdIsNoId DEF CancelInsidePrompt, CutOff, SessionInv, SessionVarsTyped
      <4>2. DenyIfPending(s)
        BY <3>3 DEF CancelInsidePrompt
      <4>3. Phase(id)' = "approved"
        BY <1>0, <1>2, <2>4, <4>2, DenyCloses
      <4> QED
        BY <1>2, <4>1, <4>3
    <3>4. CASE CancelOutsidePrompt(s) /\ pc[s] = "asking"
      BY <2>4, <3>4, NoIdIsNoId DEF CancelOutsidePrompt, CutOff
    <3> QED
      BY <2>4, <3>1, <3>2, <3>3, <3>4, PromptCloses
  <2> QED
    BY <2>1, <2>2, <2>3, <2>4
<1> QED
  BY <1>3, <1>4, <1>5

-----------------------------------------------------------------------------
(* The sessions in every state.                                            *)

\* The inductive invariant of the composition.
SoundnessInv ==
    /\ SessionInv /\ BudgetInv /\ DictionariesInv /\ HistoriesNamed
    /\ RequestsInv /\ DecisionsInv /\ LeftoversComeFromCancellation

LEMMA SoundnessInit == Init => SoundnessInv
<1> SUFFICES ASSUME Init
             PROVE  SoundnessInv
  OBVIOUS
<1>1. SessionInv /\ BudgetInv /\ DictionariesInv /\ HistoriesNamed
  BY SessionInvInit, BudgetInvInit, DictionariesInit DEF Init, HistoriesNamed
<1>2. /\ \A s \in Sessions : asked[s] \notin Ids
      /\ \A id \in Ids : id \notin Enrolled
      /\ grants = {}
  BY NoIdIsNoId DEF Init, DispatchInit, ApprovalsInit, Enrolled
<1>3. RequestsInv
  BY <1>2 DEF RequestsInv, Requested
<1>4. DecisionsInv
  BY <1>2 DEF DecisionsInv, DecisionsStayInTheirSession, Enrolled
<1>5. LeftoversComeFromCancellation
  BY <1>2 DEF LeftoversComeFromCancellation, HasStatus
<1> QED
  BY <1>1, <1>3, <1>4, <1>5 DEF SoundnessInv

LEMMA SoundnessHolds == Spec => []SoundnessInv
<1>1. ASSUME SoundnessInv, RunsAreGated, [Next]_vars
      PROVE  SoundnessInv'
  <2>1. ApprovalsTypeOK /\ grants \subseteq Grant
    BY <1>1 DEF RunsAreGated, DispatchTypeOK
  <2> QED
    BY <1>1, <2>1, SessionInvInductive, BudgetInvInductive, DictionariesInductive,
       HistoriesStayNamed, RequestsInductive, DecisionsInductive, LeftoversInductive
       DEF SoundnessInv
<1> QED
  BY <1>1, SoundnessInit, SessionsAreGated, PTL DEF Spec

\* Decisions stay in the session that asked, the dictionaries follow the await,
\* and whatever is left alive in the registry was left by a cancellation, for any
\* number of sessions, ids, principals and timeouts (session.py:85-248).
THEOREM SessionsStaySound == Spec => []SessionsAreSound
<1>1. SoundnessInv => DecisionsStayInTheirSession /\ LeftoversComeFromCancellation
  BY DEF SoundnessInv, DecisionsInv
<1> QED
  BY <1>1, SoundnessHolds, SessionsStayTyped, PTL DEF SessionsAreSound

-----------------------------------------------------------------------------
(* The audit.                                                              *)

\* Every grant is on record as an approve.
GrantsAreTold == \A g \in grants : <<g.id, "approve">> \in decisions

\* A deny on record is of an approval that was closed before anything ran.
DeniedNeverRan ==
    \A id \in Ids : <<id, "deny">> \in decisions =>
        runs[id] = <<>> /\ Phase(id) \in {"denied", "forgotten"}

\* Every execution is logged, except one that is going on or was cut off.
ExecutionsAreLogged ==
    \A s \in Sessions : /\ pc[s] = "tool" => started[s] = logged[s] + 1
                        /\ pc[s] \notin {"tool", "cancelled"} => started[s] = logged[s]

LEMMA GrantsTold ==
    ASSUME SessionInv, GrantsAreTold, [Next]_vars
    PROVE  GrantsAreTold'
<1>1. decisions \subseteq decisions'
  BY HistoriesGrow
<1>2. ASSUME NEW s \in Sessions, NEW x \in Ids, ClientApproves(s, x)
      PROVE  GrantsAreTold'
  <2>1. CASE MayApprove(x, actions[s][x], PrincipalOf[s])
    <3>1. /\ grants' = grants \cup {[id |-> x, action |-> actions[s][x], by |-> PrincipalOf[s]]}
          /\ <<x, "approve">> \in decisions'
      BY <1>2, <2>1 DEF ClientApproves, DecideApprove, Decision
    <3> SUFFICES ASSUME NEW g \in grants'
                 PROVE  <<g.id, "approve">> \in decisions'
      BY DEF GrantsAreTold
    <3>2. CASE g \in grants
      BY <1>1, <3>2 DEF GrantsAreTold
    <3>3. CASE g = [id |-> x, action |-> actions[s][x], by |-> PrincipalOf[s]]
      <4>1. g.id = x
        BY <3>3
      <4> QED
        BY <3>1, <4>1
    <3> QED
      BY <3>1, <3>2, <3>3
  <2>2. CASE ~MayApprove(x, actions[s][x], PrincipalOf[s])
    BY <1>1, <1>2, <2>2 DEF ClientApproves, DecideApprove, GrantsAreTold
  <2> QED
    BY <2>1, <2>2
<1>3. ASSUME UNCHANGED grants PROVE GrantsAreTold'
  BY <1>1, <1>3 DEF GrantsAreTold
<1>4. (\E s \in Sessions, x \in Ids : ClientApproves(s, x)) \/ UNCHANGED grants
  BY GrantsMove
<1> QED
  BY <1>2, <1>3, <1>4

\* A deny goes on record only as it closes a live approval; for other ids the
\* record of denials does not change.
LEMMA DenialsClose ==
    ASSUME ApprovalsTypeOK, ApprovalsTypeOK', SessionInv, [Next]_vars, NEW id \in Ids,
           <<id, "deny">> \in decisions', <<id, "deny">> \notin decisions
    PROVE  Phase(id) \in {"pending", "approved"} /\ Phase(id)' = "denied" /\ runs' = runs
<1>1. PICK s \in Sessions, x \in Ids : ClientDenies(s, x) /\ MayDeny(x) /\ x = id
  <2>1. ASSUME UNCHANGED decisions PROVE FALSE
    BY <2>1
  <2>2. ASSUME NEW s \in Sessions, NEW x \in Ids, ClientDenies(s, x)
        PROVE  MayDeny(x) /\ x = id
    BY <2>2 DEF ClientDenies, Decision
  <2>3. ASSUME NEW s \in Sessions, NEW x \in Ids, ClientApproves(s, x) PROVE FALSE
    BY <2>3 DEF ClientApproves, Decision
  <2>4. ASSUME NEW s \in Sessions, GiveUp(s) PROVE FALSE
    BY <2>4 DEF GiveUp
  <2>5. ASSUME NEW s \in Sessions,
               \/ StartRun(s) \/ ModelFails(s) \/ (\E batch \in Batches : ModelReturns(s, batch))
               \/ DispatchNothing(s) \/ DispatchRuns(s) \/ (\E y \in Ids : DispatchAsks(s, y))
               \/ PromptSent(s) \/ Conclude(s) \/ ToolEnds(s) \/ Reported(s) \/ ReaderEnds(s)
               \/ EndRun(s) \/ CancelOutsidePrompt(s) \/ CancelInsidePrompt(s)
        PROVE  UNCHANGED decisions
    BY <2>5 DEF StartRun, ModelFails, ModelReturns, DispatchNothing, DispatchRuns, DispatchAsks,
                PromptSent, Conclude, ToolEnds, Reported, ReaderEnds, EndRun,
                CancelOutsidePrompt, CancelInsidePrompt, promptVars
  <2>6. ASSUME Clock \/ ToolsArrive \/ UNCHANGED vars PROVE UNCHANGED decisions
    BY <2>6 DEF Clock, ToolsArrive, vars, sessionVars, promptVars
  <2> QED
    BY <2>1, <2>2, <2>3, <2>4, <2>5, <2>6
       DEF Next, Progress, Client, Woken, TimeoutSent, ToolReturns, CancelSwallowedByWait,
           CancelSwallowedByTool
<1>2. /\ id \in Enrolled /\ Live(id).status \in {"pending", "approved"}
      /\ Store(id, "denied", PrincipalOf[s]) /\ UNCHANGED <<issued, runs>>
  BY <1>1 DEF ClientDenies, DecideDeny, Deny, MayDeny, LiveStatus
<1>3. Deciding(id, "denied", PrincipalOf[s])
  BY <1>2, StoreIsLocal
<1>4. PrincipalOf[s] \in Principals \cup {Nobody} /\ "denied" \in Statuses
  BY PrincipalOfIsTotal DEF Statuses
<1>5. Phase(id)' = "denied"
  BY <1>3, <1>4, DecidingShows, PhaseIsStatus
<1>6. Phase(id) \in {"pending", "approved"}
  BY <1>2, LiveShows, PhaseIsStatus
<1> QED
  BY <1>2, <1>5, <1>6

LEMMA DenialsInductive ==
    ASSUME SessionInv, DispatchInv, DeniedNeverRan, [Next]_vars
    PROVE  DeniedNeverRan'
<1>0. [DispatchNext]_dispatchVars
  BY SessionStepIsDispatcherStep
<1>1. [ApprovalsNext]_registryVars /\ ApprovalsTypeOK /\ ApprovalsTypeOK'
  BY <1>0, DispatchStepIsRegistryStep, TypeInductive DEF DispatchInv
<1> SUFFICES ASSUME NEW id \in Ids, <<id, "deny">> \in decisions'
             PROVE  runs'[id] = <<>> /\ Phase(id)' \in {"denied", "forgotten"}
  BY DEF DeniedNeverRan
<1>2. CASE <<id, "deny">> \notin decisions
  <2>1. Phase(id) \in {"pending", "approved"} /\ Phase(id)' = "denied" /\ runs' = runs
    BY <1>1, <1>2, DenialsClose
  <2>2. runs[id] = <<>>
    BY <2>1 DEF DispatchInv, RunsOnlyWhenSpent
  <2> QED
    BY <2>1, <2>2
<1>3. CASE <<id, "deny">> \in decisions
  <2>1. runs[id] = <<>> /\ Phase(id) \in {"denied", "forgotten"}
    BY <1>3 DEF DeniedNeverRan
  <2>2. Phase(id)' \in {"denied", "forgotten"}
    <3>1. Phase(id)' \in {Phase(id)} \cup MayBecome[Phase(id)]
      BY <1>1, NextAdvances
    <3> QED
      BY <2>1, <3>1 DEF MayBecome
  <2>3. runs'[id] = runs[id]
    <3>1. ASSUME NEW x \in Ids, NEW a \in Actions, MayConsume(x, a),
                 runs' = [runs EXCEPT ![x] = Append(@, a)]
          PROVE  runs'[id] = runs[id]
      <4>1. Phase(x) = "approved"
        BY <1>1, <3>1, ConsumableIsApproved
      <4>2. x # id
        BY <2>1, <4>1
      <4> QED
        BY <3>1, <4>2 DEF DispatchInv, RunsTyped
    <3> QED
      BY <1>0, <3>1, RunStep
  <2> QED
    BY <2>1, <2>2, <2>3
<1> QED
  BY <1>2, <1>3

LEMMA LogsInductive ==
    ASSUME SessionInv, BudgetInv, ExecutionsAreLogged, [Next]_vars
    PROVE  ExecutionsAreLogged'
<1> DEFINE Logged(s) == /\ pc[s] = "tool" => started[s] = logged[s] + 1
                        /\ pc[s] \notin {"tool", "cancelled"} => started[s] = logged[s]
<1> USE DEF SessionInv, SessionVarsTyped, Set, Increment, loopVars, promptVars
<1>1. ASSUME NEW s \in Sessions, Progress(s) \/ Client(s)
      PROVE  Logged(s)'
  <2>0. Logged(s) /\ started[s] \in Nat /\ logged[s] \in Nat
    BY DEF ExecutionsAreLogged
  <2>1. ASSUME NEW rest, NEW made, NEW turns, NextCall(s, rest, made, turns)
        PROVE  pc'[s] \in {"done", "model", "announcing"}
    BY <2>1, NextCallTyped
  <2>2. ASSUME UNCHANGED <<started, logged>>, pc[s] \notin {"tool", "cancelled"}, pc'[s] # "tool"
        PROVE  Logged(s)'
    BY <2>0, <2>2
  <2>a. ASSUME ModelFails(s) \/ (\E batch \in Batches : ModelReturns(s, batch)) \/ Reported(s)
        PROVE  Logged(s)'
    <3>1. /\ UNCHANGED <<started, logged>> /\ pc[s] \in {"model", "reporting"}
          /\ pc'[s] \in {"done", "model", "announcing"}
      BY <2>1, <2>a DEF ModelFails, ModelReturns, Reported, Finish
    <3> QED
      BY <2>2, <3>1
  <2>b. ASSUME \/ DispatchNothing(s) \/ (\E id \in Ids : DispatchAsks(s, id)) \/ PromptSent(s)
               \/ GiveUp(s)
        PROVE  Logged(s)'
    <3>1. /\ UNCHANGED <<started, logged>>
          /\ pc[s] \in {"announcing", "asking", "waiting"}
          /\ pc'[s] \in {"reporting", "asking", "waiting", "giving_up"}
      BY <2>b DEF DispatchNothing, DispatchAsks, PromptSent, GiveUp, Observed
    <3> QED
      BY <2>2, <3>1
  <2>c. ASSUME DispatchRuns(s) PROVE Logged(s)'
    <3>1. pc[s] = "announcing" /\ pc'[s] = "tool" /\ started'[s] = started[s] + 1 /\ UNCHANGED logged
      BY <2>c DEF DispatchRuns
    <3> QED
      BY <2>0, <3>1
  <2>d. ASSUME Conclude(s), pc[s] \in {"waiting", "giving_up"} PROVE Logged(s)'
    <3>1. /\ UNCHANGED logged
          /\ \/ pc'[s] = "tool" /\ started'[s] = started[s] + 1
             \/ pc'[s] = "reporting" /\ UNCHANGED started
      BY <2>d DEF Conclude, Observed
    <3> QED
      BY <2>0, <2>d, <3>1
  <2>e. ASSUME ToolEnds(s) PROVE Logged(s)'
    <3>1. /\ pc[s] = "tool" /\ pc'[s] = "reporting" /\ logged'[s] = logged[s] + 1
          /\ UNCHANGED started
      BY <2>e DEF ToolEnds, Observed
    <3> QED
      BY <2>0, <3>1
  <2>f. ASSUME CancelOutsidePrompt(s) \/ CancelInsidePrompt(s) PROVE Logged(s)'
    <3>1. pc'[s] = "cancelled"
      BY <2>f DEF CancelOutsidePrompt, CancelInsidePrompt
    <3> QED
      BY <3>1
  <2>g. ASSUME EndRun(s) PROVE Logged(s)'
    <3>1. pc'[s] = "none" /\ started'[s] = 0 /\ logged'[s] = 0
      BY <2>g DEF EndRun
    <3> QED
      BY <3>1
  <2>h. ASSUME StartRun(s) PROVE Logged(s)'
    <3>1. UNCHANGED <<started, logged>> /\ pc[s] = "none" /\ pc'[s] \in {"done", "model"}
      BY <2>h DEF StartRun, Finish, BudgetInv, Blank
    <3> QED
      BY <2>2, <3>1
  <2>i. ASSUME \/ ReaderEnds(s) \/ (\E id \in Ids : ClientApproves(s, id) \/ ClientDenies(s, id))
        PROVE  Logged(s)'
    <3>1. UNCHANGED <<started, logged, pc>>
      BY <2>i DEF ReaderEnds, ClientApproves, ClientDenies, Decision
    <3> QED
      BY <2>0, <3>1
  <2> QED
    BY <1>1, <2>a, <2>b, <2>c, <2>d, <2>e, <2>f, <2>g, <2>h, <2>i
       DEF Progress, Client, Woken, TimeoutSent, ToolReturns, CancelSwallowedByWait,
           CancelSwallowedByTool
<1>2. ASSUME UNCHANGED <<pc, started, logged>> PROVE ExecutionsAreLogged'
  BY <1>2 DEF ExecutionsAreLogged
<1>3. ASSUME NEW s \in Sessions, Progress(s) \/ Client(s) PROVE ExecutionsAreLogged'
  <2>1. ASSUME NEW other \in Sessions, other # s PROVE Logged(other)'
    <3>1. OthersAlone(s)
      BY <1>3, SessionsStepAlone
    <3>2. pc'[other] = pc[other] /\ started'[other] = started[other] /\ logged'[other] = logged[other]
      BY <2>1, <3>1 DEF OthersAlone
    <3> QED
      BY <3>2 DEF ExecutionsAreLogged
  <2> QED
    BY <1>1, <1>3, <2>1 DEF ExecutionsAreLogged
<1> QED
  BY <1>2, <1>3 DEF Next, Clock, ToolsArrive, vars, sessionVars

\* The audit explains what ran, for any number of sessions: an approve stands
\* behind every run under an approval and no deny does, however deny, approve,
\* timeout and cancellation interleave (session.py:85-156, dispatcher.py:130-200).
THEOREM AuditStaysTrue == Spec => []AuditExplainsRuns
<1> DEFINE Inv == /\ SessionInv /\ BudgetInv /\ GrantsAreTold /\ DeniedNeverRan
                  /\ ExecutionsAreLogged
<1>1. Init => Inv
  BY SessionInvInit, BudgetInvInit
     DEF Init, DispatchInit, GrantsAreTold, DeniedNeverRan, ExecutionsAreLogged
<1>2. Inv /\ DispatchInv /\ [Next]_vars => Inv'
  BY SessionInvInductive, BudgetInvInductive, GrantsTold, DenialsInductive, LogsInductive
<1>3. Inv /\ DispatchInv => AuditExplainsRuns
  <2> SUFFICES ASSUME Inv, DispatchInv
               PROVE  AuditExplainsRuns
    OBVIOUS
  <2>1. ASSUME NEW id \in Ids, runs[id] # <<>>
        PROVE  <<id, "approve">> \in decisions
    <3>1. runs[id] \in Seq(Actions)
      BY DEF DispatchInv, RunsTyped
    <3>2. 1 \in DOMAIN runs[id]
      BY <2>1, <3>1
    <3>3. \E g \in grants : g.id = id
      BY <3>2 DEF DispatchInv, RunsWereApproved
    <3> QED
      BY <3>3 DEF GrantsAreTold
  <2> QED
    BY <2>1 DEF DeniedNeverRan, ExecutionsAreLogged, AuditExplainsRuns
<1>4. Spec => []DispatchInv
  BY SessionsImplementDispatcher, DispatchInvHolds, PTL DEF ImplementsDispatcher
<1> QED
  BY <1>1, <1>2, <1>3, <1>4, PTL DEF Spec
=============================================================================
