----------------------------- MODULE Dispatcher -----------------------------
(***************************************************************************)
(* The gated tool dispatcher, modules/safety/dispatcher.py, over the       *)
(* approval registry.                                                      *)
(*                                                                         *)
(* dispatch and execute_approved are synchronous up to their single        *)
(* `await tool.run`, so the prefix of each call is one atomic step; what   *)
(* the tool does after it was started is outside the dispatcher.  Callers  *)
(* are arbitrary: any principal may present any action, any id, in any     *)
(* order, concurrently.  Only the dispatcher calls Consume.                *)
(*                                                                         *)
(* The gate classifies by immutable rules, so classify is the constant     *)
(* function Verdict and the re-classification in execute_approved returns  *)
(* what the first one did.                                                 *)
(***************************************************************************)
EXTENDS PendingApprovals, Sequences

CONSTANTS
    Tools,      \* tool names
    ToolOf,     \* action -> the name of the tool it calls
    Verdict     \* action -> SafetyGate.classify(action).verdict

ASSUME ToolOfIsTotal == ToolOf \in [Actions -> Tools]
ASSUME VerdictIsTotal == Verdict \in [Actions -> Verdicts]

VARIABLES
    registered, \* _tools: names with a registered tool
    ungated,    \* actions a tool has run without an approval
    runs,       \* per approval id: the actions a tool has run under it
    grants      \* history: the approvals people have given, [id, action, by]

dispatchVars == <<registryVars, registered, ungated, runs, grants>>

Grant == [id : Ids, action : Actions, by : Principals]

-----------------------------------------------------------------------------
\* Composition wires tools in; an MCP server's tools arrive when it connects.
Register(t) ==
    /\ registered' = registered \cup {t}
    /\ UNCHANGED <<registryVars, ungated, runs, grants>>

HasTool(a) == ToolOf[a] \in registered

\* The calls of dispatch that run nothing and enrol nothing: a blocked action
\* (refused), a tool nobody registered (error), an action the registry
\* cannot fingerprint (aborted).
DispatchRunsNothing(a) ==
    \/ Verdict[a] = "blocked"
    \/ ~HasTool(a)
    \/ Verdict[a] = "needs_confirmation" /\ ~MayRequest(a, Verdict[a])

DispatchSafe(a) ==
    /\ Verdict[a] = "safe"
    /\ HasTool(a)
    /\ ungated' = ungated \cup {a}
    /\ UNCHANGED <<registryVars, registered, runs, grants>>

DispatchEnrol(a, by, id) ==
    /\ Verdict[a] = "needs_confirmation"
    /\ HasTool(a)
    /\ Request(id, a, Verdict[a], by)
    /\ UNCHANGED <<registered, ungated, runs, grants>>

\* execute_approved: a blocked action or an unknown tool is turned away
\* before the registry is asked, so the approval is not wasted.
ReachesConsume(a) == Verdict[a] # "blocked" /\ HasTool(a)

WillRun(id, a) == ReachesConsume(a) /\ MayConsume(id, a)

ExecuteApproved(id, a) ==
    /\ ReachesConsume(a)
    /\ Consume(id, a)
    /\ runs' = IF MayConsume(id, a) THEN [runs EXCEPT ![id] = Append(@, a)]
                                    ELSE runs
    /\ UNCHANGED <<registered, ungated, grants>>

-----------------------------------------------------------------------------
(* The calls people and the housekeeping make on the same registry.        *)

DecideApprove(id, a, p) ==
    /\ Approve(id, a, p)
    /\ grants' = IF MayApprove(id, a, p)
                 THEN grants \cup {[id |-> id, action |-> a, by |-> p]}
                 ELSE grants
    /\ UNCHANGED <<registered, ungated, runs>>

DecideDeny(id, p) ==
    /\ Deny(id, p)
    /\ UNCHANGED <<registered, ungated, runs, grants>>

Lookup(id) == Get(id) /\ UNCHANGED <<registered, ungated, runs, grants>>

Housekeeping ==
    /\ Sweep \/ PurgeTerminal
    /\ UNCHANGED <<registered, ungated, runs, grants>>

TimePasses == Tick /\ UNCHANGED <<registered, ungated, runs, grants>>

-----------------------------------------------------------------------------
DispatchInit ==
    /\ ApprovalsInit
    /\ registered \in SUBSET Tools
    /\ ungated = {}
    /\ runs = [id \in Ids |-> <<>>]
    /\ grants = {}

DispatchNext ==
    \/ \E t \in Tools : Register(t)
    \/ \E a \in Actions : DispatchSafe(a)
    \/ \E id \in Ids, a \in Actions, p \in Principals : DispatchEnrol(a, p, id)
    \/ \E id \in Ids, a \in Actions : ExecuteApproved(id, a)
    \/ \E id \in Ids, a \in Actions, p \in Principals : DecideApprove(id, a, p)
    \/ \E id \in Ids, p \in Principals : DecideDeny(id, p)
    \/ \E id \in Ids : Lookup(id)
    \/ Housekeeping
    \/ TimePasses

DispatchSpec == DispatchInit /\ [][DispatchNext]_dispatchVars

-----------------------------------------------------------------------------
(* Correctness.                                                            *)

\* Histories are well formed; the registry's own invariant is checked with it.
DispatchTypeOK ==
    /\ ApprovalsTypeOK
    /\ registered \subseteq Tools
    /\ ungated \subseteq Actions
    /\ runs \in [Ids -> Seq(Actions)]
    /\ grants \subseteq Grant

\* INV-4, single use: whatever interleaving of executions, replays, denials,
\* expiry and purges, one approval id starts a tool at most once.
AtMostOneRunPerApproval == \A id \in Ids : Len(runs[id]) <= 1

\* INV-4, bound to the exact action: every run under an id was preceded by an
\* approval of that id, by a principal with the approve scope, of an action
\* with the same fingerprint as the one that ran.
RunsWereApproved ==
    \A id \in Ids : \A i \in DOMAIN runs[id] :
        \E g \in grants : /\ g.id = id
                          /\ g.by \in Approvers
                          /\ Fingerprint[g.action] = Fingerprint[runs[id][i]]

\* The dispatcher's whole promise on approvals: well-formed histories, one run
\* per approval at most, and none that was not approved as it ran.
RunsAreGated == DispatchTypeOK /\ AtMostOneRunPerApproval /\ RunsWereApproved

-----------------------------------------------------------------------------
(* Refinement.                                                             *)

\* The abstract slot an approval id stands for.  A record that was denied,
\* has expired, or was purged without having run is closed; a stale pending
\* record stays proposed until somebody looks at it.
SlotPhase(id) ==
    IF runs[id] # <<>> THEN "spent"
    ELSE IF HasStatus(id, {"pending"}) THEN "proposed"
    ELSE IF HasStatus(id, {"approved"}) THEN "granted"
    ELSE IF id \in issued THEN "closed" ELSE "unused"

SlotBinding(id) ==
    IF SlotPhase(id) \in {"proposed", "granted"} THEN records[id].fingerprint
                                                 ELSE NoFingerprint

Gated == INSTANCE GatedExecution
    WITH Slots <- Ids,
         phase <- [id \in Ids |-> SlotPhase(id)],
         binding <- [id \in Ids |-> SlotBinding(id)],
         performed <- runs,
         performedSafe <- ungated

\* INV-1 and INV-4 together: registry, clock, expiry, purge, replays and
\* re-classification implement the abstract promise - only safe actions run
\* ungated, nothing blocked runs, and every other run spends a grant bound to
\* exactly the action that runs, and no grant is spent twice.
ImplementsGatedExecution == Gated!GatedSpec
=============================================================================
