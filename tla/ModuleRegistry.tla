--------------------------- MODULE ModuleRegistry ---------------------------
(***************************************************************************)
(* The module registry (core/registry.py) behind the Application facade    *)
(* (core/app.py), as functions of what is registered: the order in which   *)
(* modules start, and what /health, /capabilities and the invoke endpoint  *)
(* of core/gateway.py derive from the health of the modules.               *)
(*                                                                         *)
(* A registration is [order, deps, caps]: the names in registration order, *)
(* and each module's depends_on and capabilities, as sequences.            *)
(***************************************************************************)
EXTENDS Integers, Sequences, SequencesExt, FiniteSets, Folds

Names(reg) == ToSet(reg.order)

\* What register() leaves: the modules and what each depends on, listed.
IsRegistration(reg) ==
    /\ IsFiniteSet(Names(reg)) /\ reg.order \in Seq(Names(reg))
    /\ \A m \in Names(reg) : reg.deps[m] \in Seq(ToSet(reg.deps[m]))

\* It rejects duplicate names.
RegisteredOnce(reg) ==
    \A i, j \in DOMAIN reg.order : reg.order[i] = reg.order[j] => i = j

-----------------------------------------------------------------------------
(* The start order: a depth-first visit, dependencies first. *)

\* The names that occur in a registration; not all of them are registered.
Mentioned(reg) == Names(reg) \cup UNION {ToSet(reg.deps[m]) : m \in Names(reg)}

\* visit of the names of a list in turn, below the names in `visiting`, with
\* `order` done so far: first what a name depends on, then the name itself.
VisitCalls(reg) ==
    [list : Seq(Mentioned(reg)), visiting : SUBSET Names(reg), order : Seq(Names(reg))]

Visits(reg) ==
    LET visits[v \in VisitCalls(reg)] ==
          IF v.list = <<>> THEN v.order
          ELSE LET name == Head(v.list)
                   skipped == name \notin Names(reg) \/ name \in v.visiting \cup ToSet(v.order)
                   below == visits[[list |-> reg.deps[name],
                                    visiting |-> v.visiting \cup {name}, order |-> v.order]]
               IN  visits[[list |-> Tail(v.list), visiting |-> v.visiting,
                           order |-> IF skipped THEN v.order ELSE Append(below, name)]]
    IN  visits

\* Mutant of StartOrder: the order of registration.
StartOrderAsRegistered(reg) == reg.order

StartOrder(reg) == Visits(reg)[[list |-> reg.order, visiting |-> {}, order |-> <<>>]]

-----------------------------------------------------------------------------
(* Health and availability: `healthy` are the names whose health is ok or  *)
(* degraded, a failed start counting as down.                              *)

\* is_module_available, of a name below the names in `visiting`.
Available(reg, healthy) ==
    LET available[q \in [name : Names(reg), visiting : SUBSET Names(reg)]] ==
          \/ q.name \in q.visiting
          \/ /\ q.name \in healthy
             /\ \A dep \in ToSet(reg.deps[q.name]) :
                   /\ dep \in Names(reg)
                   /\ available[[name |-> dep, visiting |-> q.visiting \cup {q.name}]]
    IN  available

\* Mutant of IsAvailable: only the direct dependencies are looked at.
IsAvailableShallow(reg, healthy, name) ==
    name \in Names(reg) \cap healthy /\ ToSet(reg.deps[name]) \subseteq healthy

IsAvailable(reg, healthy, name) ==
    name \in Names(reg) /\ Available(reg, healthy)[[name |-> name, visiting |-> {}]]

\* _provider_of: the first module, in registration order, that provides it.
Providers(reg, cap) == {name \in Names(reg) : cap \in ToSet(reg.caps[name])}
ProviderOf(reg, cap) ==
    LET at(i) == reg.order[i] \in Providers(reg, cap)
        first == CHOOSE i \in DOMAIN reg.order : at(i) /\ \A j \in 1 .. i - 1 : ~at(j)
    IN  reg.order[first]

\* is_capability_available asks the first provider only.
IsCapabilityAvailable(reg, healthy, cap) ==
    Providers(reg, cap) # {} /\ IsAvailable(reg, healthy, ProviderOf(reg, cap))

\* Mutant of AvailableCapabilities: a module answers for itself only.
AvailableCapabilitiesAlone(reg, healthy) ==
    UNION {ToSet(reg.caps[name]) : name \in Names(reg) \cap healthy}

\* available_capabilities asks every module.
AvailableCapabilities(reg, healthy) ==
    UNION {ToSet(reg.caps[name]) :
              name \in {m \in Names(reg) : IsAvailable(reg, healthy, m)}}

\* invoke_capability: 404 for a name nobody provides, 503 when unavailable.
InvokeStatus(reg, healthy, cap) ==
    IF Providers(reg, cap) = {} THEN 404
    ELSE IF IsCapabilityAvailable(reg, healthy, cap) THEN 200 ELSE 503

\* _overall_status and the status code of /health.
OverallStatus(statuses) ==
    IF "down" \in statuses THEN "down"
    ELSE IF "degraded" \in statuses THEN "degraded" ELSE "ok"
HealthCode(statuses) == IF OverallStatus(statuses) = "down" THEN 503 ELSE 200

-----------------------------------------------------------------------------
(* Properties. *)

\* The names `name` depends on, itself included, over any number of steps: those
\* in every set that holds `name` and what its registered members depend on.
Needs(reg, name) ==
    LET closed(C) == \A m \in C \cap Names(reg) : ToSet(reg.deps[m]) \subseteq C IN
    {n \in Mentioned(reg) : \A C \in SUBSET Mentioned(reg) : name \in C /\ closed(C) => n \in C}

\* Whatever is registered, unknown names and cycles included, every module is
\* started exactly once, and after each registered module it depends on that
\* does not in turn depend on it (registry.py:54-78).
StartOrderIsSound(reg) ==
    LET order == StartOrder(reg)
        place(name) == CHOOSE i \in 1 .. Len(order) : order[i] = name
    IN  /\ ToSet(order) = Names(reg) /\ Len(order) = Len(reg.order)
        /\ \A name \in Names(reg) : \A dep \in ToSet(reg.deps[name]) \cap Names(reg) :
              name \notin Needs(reg, dep) => place(dep) < place(name)

\* A module is available exactly when everything it needs, at any distance, is
\* registered and healthy; what /capabilities lists can be invoked if one
\* module alone provides it, and what can be invoked is listed
\* (registry.py:121-156 with gateway.py:238-247).
AvailabilityIsTransitive(reg, healthy) ==
    LET caps == UNION {ToSet(reg.caps[name]) : name \in Names(reg)} IN
    /\ \A name \in Names(reg) :
          IsAvailable(reg, healthy, name) <=> Needs(reg, name) \subseteq Names(reg) \cap healthy
    /\ \A cap \in caps :
          LET listed == cap \in AvailableCapabilities(reg, healthy)
              invoked == InvokeStatus(reg, healthy, cap) = 200
          IN  (invoked => listed) /\ (Cardinality(Providers(reg, cap)) = 1 => (listed => invoked))
=============================================================================
