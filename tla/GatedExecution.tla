--------------------------- MODULE GatedExecution ---------------------------
(***************************************************************************)
(* What the safety chain promises, without its mechanism: no registry, no  *)
(* clock, no identifiers that are looked up, purged or replayed.           *)
(*                                                                         *)
(* An approval slot is proposed for one fingerprint, may be granted, and a *)
(* granted slot is spent by the one run it authorises; a slot that is      *)
(* closed, for whatever reason, never runs.                                *)
(***************************************************************************)
EXTENDS Sequences

CONSTANTS
    Slots,          \* approval slots
    Actions,        \* actions a tool can run
    Fingerprint,    \* what an approval binds: action -> fingerprint
    NoFingerprint,  \* the binding of a slot that authorises nothing
    Verdict         \* action -> "safe" | "needs_confirmation" | "blocked"

VARIABLES
    phase,          \* slot -> "unused" | "proposed" | "granted" | "spent" | "closed"
    binding,        \* slot -> the fingerprint it is bound to while it is live
    performed,      \* slot -> the actions run under it
    performedSafe   \* the actions run without any approval

gatedVars == <<phase, binding, performed, performedSafe>>

Move(s, from, to) ==
    /\ phase[s] = from
    /\ phase' = [phase EXCEPT ![s] = to]

Propose(s, a) ==
    /\ Verdict[a] = "needs_confirmation"
    /\ Fingerprint[a] # NoFingerprint
    /\ Move(s, "unused", "proposed")
    /\ binding' = [binding EXCEPT ![s] = Fingerprint[a]]
    /\ UNCHANGED <<performed, performedSafe>>

GrantSlot(s) ==
    /\ Move(s, "proposed", "granted")
    /\ UNCHANGED <<binding, performed, performedSafe>>

\* Denials and timeouts; a sweep closes several slots at once.
Close(S) ==
    /\ \A s \in S : phase[s] \in {"proposed", "granted"}
    /\ phase' = [s \in Slots |-> IF s \in S THEN "closed" ELSE phase[s]]
    /\ binding' = [s \in Slots |-> IF s \in S THEN NoFingerprint ELSE binding[s]]
    /\ UNCHANGED <<performed, performedSafe>>

Perform(s, a) ==
    /\ Verdict[a] # "blocked"
    /\ binding[s] = Fingerprint[a]
    /\ Move(s, "granted", "spent")
    /\ binding' = [binding EXCEPT ![s] = NoFingerprint]
    /\ performed' = [performed EXCEPT ![s] = Append(@, a)]
    /\ UNCHANGED performedSafe

PerformSafe(a) ==
    /\ Verdict[a] = "safe"
    /\ performedSafe' = performedSafe \cup {a}
    /\ UNCHANGED <<phase, binding, performed>>

GatedInit ==
    /\ phase = [s \in Slots |-> "unused"]
    /\ binding = [s \in Slots |-> NoFingerprint]
    /\ performed = [s \in Slots |-> <<>>]
    /\ performedSafe = {}

GatedNext ==
    \/ \E s \in Slots, a \in Actions : Propose(s, a) \/ Perform(s, a)
    \/ \E s \in Slots : GrantSlot(s)
    \/ \E S \in SUBSET Slots : Close(S)
    \/ \E a \in Actions : PerformSafe(a)

GatedSpec == GatedInit /\ [][GatedNext]_gatedVars
=============================================================================
