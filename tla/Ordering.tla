------------------------------ MODULE Ordering ------------------------------
(***************************************************************************)
(* Python's sorted, of a set whose members a strict order tells apart.     *)
(***************************************************************************)
EXTENDS Integers, FiniteSets

\* The members of S in the order R, a set of pairs.
InOrder(S, R) ==
    CHOOSE s \in [1 .. Cardinality(S) -> S] :
        /\ \A x \in S : \E i \in DOMAIN s : s[i] = x
        /\ \A i, j \in DOMAIN s : i < j => <<s[i], s[j]>> \in R

Increasing(S) == InOrder(S, {p \in S \X S : p[1] < p[2]})
=============================================================================
