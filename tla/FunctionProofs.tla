--------------------------- MODULE FunctionProofs ---------------------------
(***************************************************************************)
(* Proofs about the parts that are functions of their input, for inputs of *)
(* any size: start order and availability, the gate, names of MCP tools,   *)
(* settings, credentials, what the flags build, the choice of chunks,      *)
(* containment of paths, gathering and parsing of documents, the response  *)
(* of a model and the parameters of a chat.                                *)
(*                                                                         *)
(* Recursive definitions come first.  That such a definition has a         *)
(* solution is proved for any well-founded order (the lemma                *)
(* RecursionDefines); what it computes then follows from the least call at *)
(* which it would not.                                                     *)
(***************************************************************************)
EXTENDS Composition, Configuration, Containment, ModelCalls, DocumentAnswers,
        Endpoints, McpNames, SequenceTheorems, WellFoundedInduction,
        FiniteSetTheorems, TLAPS

-----------------------------------------------------------------------------
(* Recursion that descends.                                                *)

\* Every set of naturals that is not empty has a least one.
LEMMA LeastNatural ==
    ASSUME NEW S \in SUBSET Nat, S # {}
    PROVE  \E m \in S : \A k \in S : m <= k
<1> DEFINE R == OpToRel(<, Nat)
<1>1. IsWellFoundedOn(R, Nat)
  BY NatLessThanWellFounded
<1>2. \A x, y \in Nat : x < y => <<x, y>> \in R
  BY DEF OpToRel
<1> HIDE DEF R
<1>3. PICK x \in S : \A y \in S : ~(<<y, x>> \in R)
  BY <1>1, WFMin
<1>4. \A y \in S : x <= y
  <2> TAKE y \in S
  <2>1. x \in Nat /\ y \in Nat /\ ~(y < x)
    BY <1>2, <1>3
  <2> QED
    BY <2>1
<1> QED
  BY <1>4

\* F gives for a function on S the right-hand side of a recursive definition: at
\* v it depends on the values below v only.
DefinesBelow(F, R, S, V) ==
    /\ F \in [[S -> V] -> [S -> V]]
    /\ \A g, h \in [S -> V], v \in S :
          (\A u \in S : <<u, v>> \in R => g[u] = h[u]) => F[g][v] = F[h][v]

\* A recursive definition that descends in a well-founded order has a solution.
LEMMA RecursionDefines ==
    ASSUME NEW S, NEW V, NEW R, NEW F,
           IsWellFoundedOn(R, S), V # {}, DefinesBelow(F, R, S, V)
    PROVE  \E g \in [S -> V] : g = F[g]
<1>0. /\ F \in [[S -> V] -> [S -> V]]
      /\ \A g, h \in [S -> V], v \in S :
            (\A u \in S : <<u, v>> \in R => g[u] = h[u]) => F[g][v] = F[h][v]
  BY DEF DefinesBelow
<1> DEFINE Closed(A) == A \subseteq S /\ \A v \in A, u \in S : <<u, v>> \in R => u \in A
           Solves(g, A) == g \in [S -> V] /\ \A v \in A : g[v] = F[g][v]
           Known(g, v) == \E A \in SUBSET S : Closed(A) /\ Solves(g, A) /\ v \in A
           Covered == {v \in S : \E g \in [S -> V] : Known(g, v)}
           some == CHOOSE x \in V : TRUE
           G == [v \in S |-> IF v \in Covered
                             THEN (CHOOSE g \in [S -> V] : Known(g, v))[v] ELSE some]
<1>1. ASSUME NEW A, NEW B, NEW g, NEW h,
             Closed(A), Closed(B), Solves(g, A), Solves(h, B)
      PROVE  \A v \in A \cap B : g[v] = h[v]
  <2> DEFINE T == {v \in A \cap B : g[v] # h[v]}
  <2> SUFFICES ASSUME T # {}
               PROVE  FALSE
    OBVIOUS
  <2>1. PICK x \in T : \A y \in T : ~(<<y, x>> \in R)
    <3>1. T \subseteq S
      BY <1>1
    <3> HIDE DEF T
    <3> QED
      BY <3>1, WFMin
  <2>2. \A u \in S : <<u, x>> \in R => g[u] = h[u]
    BY <1>1, <2>1
  <2>3. F[g][x] = F[h][x]
    BY <1>0, <1>1, <2>2
  <2> QED
    BY <1>1, <2>3
<1>2. G \in [S -> V]
  <2>1. some \in V
    OBVIOUS
  <2>2. \A v \in Covered : (CHOOSE g \in [S -> V] : Known(g, v)) \in [S -> V]
    <3> HIDE DEF Known
    <3> QED
      OBVIOUS
  <2> HIDE DEF some, Known
  <2>3. \A v \in Covered : (CHOOSE g \in [S -> V] : Known(g, v))[v] \in V
    BY <2>2
  <2> QED
    BY <2>1, <2>3
<1>3. ASSUME NEW A \in SUBSET S, NEW g \in [S -> V], Closed(A), Solves(g, A)
      PROVE  \A v \in A : v \in Covered /\ G[v] = g[v]
  <2> TAKE v \in A
  <2>1. Known(g, v)
    BY <1>3
  <2> DEFINE c == CHOOSE h \in [S -> V] : Known(h, v)
  <2>2. v \in Covered /\ G[v] = c[v]
    <3>1. v \in S
      BY <1>3
    <3> HIDE DEF Known
    <3>2. v \in Covered
      BY <2>1, <3>1
    <3> HIDE DEF Covered
    <3> QED
      BY <3>1, <3>2
  <2>3. c \in [S -> V] /\ Known(c, v)
    <3> HIDE DEF Known
    <3> QED
      BY <2>1
  <2> HIDE DEF c, G, Covered
  <2>4. c[v] = g[v]
    <3>1. PICK B \in SUBSET S : Closed(B) /\ Solves(c, B) /\ v \in B
      BY <2>3
    <3> HIDE DEF Closed, Solves
    <3> QED
      BY <1>1, <1>3, <3>1
  <2> QED
    BY <2>2, <2>4
<1>4. Closed(Covered)
  BY <1>3
<1>5. Solves(G, Covered)
  <2> SUFFICES ASSUME NEW v \in Covered
               PROVE  G[v] = F[G][v]
    BY <1>2
  <2>1. PICK g \in [S -> V], A \in SUBSET S : Closed(A) /\ Solves(g, A) /\ v \in A
    OBVIOUS
  <2>2. \A u \in A : G[u] = g[u]
    <3> HIDE DEF G, Covered, Closed, Solves
    <3> QED
      BY <1>3, <2>1
  <2> HIDE DEF G, Covered
  <2>3. \A u \in S : <<u, v>> \in R => G[u] = g[u]
    BY <2>1, <2>2
  <2>4. F[G][v] = F[g][v]
    BY <1>0, <1>2, <2>1, <2>3
  <2> QED
    BY <2>1, <2>2, <2>4
<1>6. Covered = S
  <2> SUFFICES ASSUME S \ Covered # {}
               PROVE  FALSE
    OBVIOUS
  <2>1. PICK x \in S \ Covered : \A y \in S \ Covered : ~(<<y, x>> \in R)
    <3> HIDE DEF Covered
    <3> QED
      BY WFMin
  <2> DEFINE H == [v \in S |-> IF v = x THEN F[G][x] ELSE G[v]]
             A == Covered \cup {x}
  <2> HIDE DEF G
  <2>2. F[G] \in [S -> V]
    BY <1>0, <1>2
  <2>3. H \in [S -> V] /\ H[x] = F[G][x] /\ \A v \in S \ {x} : H[v] = G[v]
    BY <1>2, <2>2
  <2>4. A \in SUBSET S /\ Closed(A)
    BY <1>4, <2>1
  <2>5. ASSUME NEW v \in A
        PROVE  F[H][v] = F[G][v]
    <3>1. \A u \in S : <<u, v>> \in R => u \in Covered
      BY <1>4, <2>1
    <3>2. \A u \in S : <<u, v>> \in R => H[u] = G[u]
      BY <2>1, <2>3, <3>1
    <3> HIDE DEF H
    <3> QED
      BY <1>0, <1>2, <2>3, <2>4, <3>2
  <2> HIDE DEF H
  <2>6. Solves(H, A)
    BY <1>5, <2>1, <2>3, <2>4, <2>5
  <2>7. x \in A
    OBVIOUS
  <2> HIDE DEF Closed, Solves, A
  <2>8. x \in Covered
    BY <2>3, <2>4, <2>6, <2>7
  <2> QED
    BY <2>1, <2>8
<1>7. G = F[G]
  <2> HIDE DEF G, Covered
  <2>1. F[G] \in [S -> V] /\ \A v \in S : G[v] = F[G][v]
    BY <1>0, <1>2, <1>5, <1>6
  <2> QED
    BY <1>2, <2>1
<1> QED
  BY <1>2, <1>7

\* Fewer of one thing, or as many and fewer of another.
LEMMA TwoMeasures ==
    ASSUME NEW S, NEW f \in [S -> Nat], NEW h \in [S -> Nat]
    PROVE  IsWellFoundedOn({p \in S \X S : \/ f[p[1]] < f[p[2]]
                                           \/ f[p[1]] = f[p[2]] /\ h[p[1]] < h[p[2]]}, S)
<1> DEFINE R == {p \in S \X S : \/ f[p[1]] < f[p[2]]
                                \/ f[p[1]] = f[p[2]] /\ h[p[1]] < h[p[2]]}
<1> SUFFICES ASSUME NEW T \in SUBSET S, T # {}
             PROVE  \E x \in T : \A y \in T : ~(<<y, x>> \in R)
  BY MinWF
<1>1. PICK x1 \in T : \A y \in T : f[x1] <= f[y]
  <2> DEFINE ms == {f[y] : y \in T}
  <2>1. ms \in SUBSET Nat /\ ms # {}
    OBVIOUS
  <2> HIDE DEF ms
  <2>2. PICK m \in ms : \A k \in ms : m <= k
    BY <2>1, LeastNatural
  <2> USE DEF ms
  <2> QED
    BY <2>2
<1> DEFINE T2 == {y \in T : f[y] = f[x1]}
<1>2. PICK x \in T2 : \A y \in T2 : h[x] <= h[y]
  <2> DEFINE ms == {h[y] : y \in T2}
  <2>1. ms \in SUBSET Nat /\ ms # {}
    BY <1>1
  <2> HIDE DEF ms
  <2>2. PICK m \in ms : \A k \in ms : m <= k
    BY <2>1, LeastNatural
  <2> USE DEF ms
  <2> QED
    BY <2>2
<1>3. \A y \in T : ~(<<y, x>> \in R)
  <2> TAKE y \in T
  <2>1. /\ x \in T /\ f[x] = f[x1] /\ f[x1] <= f[y]
        /\ f[y] = f[x1] => h[x] <= h[y]
    BY <1>1, <1>2
  <2>2. f[x] \in Nat /\ f[y] \in Nat /\ h[x] \in Nat /\ h[y] \in Nat
    BY <2>1
  <2>3. ~(f[y] < f[x]) /\ ~(f[y] = f[x] /\ h[y] < h[x])
    BY <2>1, <2>2
  <2> QED
    BY <2>3
<1> QED
  BY <1>2, <1>3

-----------------------------------------------------------------------------
(* Availability.                                                           *)

\* There are fewer names left below a name that was not being visited.
LEMMA FewerLeft ==
    ASSUME NEW N, IsFiniteSet(N), NEW V \in SUBSET N, NEW n \in N \ V
    PROVE  /\ Cardinality(N \ V) \in Nat /\ Cardinality(N \ (V \cup {n})) \in Nat
           /\ Cardinality(N \ (V \cup {n})) < Cardinality(N \ V)
<1>1. IsFiniteSet(N \ V)
  BY FS_Difference
<1>2. N \ (V \cup {n}) = (N \ V) \ {n}
  OBVIOUS
<1>3. /\ IsFiniteSet((N \ V) \ {n})
      /\ Cardinality((N \ V) \ {n}) = Cardinality(N \ V) - 1
  BY <1>1, FS_RemoveElement
<1>4. Cardinality(N \ V) \in Nat /\ Cardinality((N \ V) \ {n}) \in Nat
  BY <1>1, <1>3, FS_CardinalityType
<1> QED
  BY <1>2, <1>3, <1>4

\* is_module_available comes back for every name and every path to it, cycles
\* included, with what its body says of the names one step below.
LEMMA AvailableUnfolds ==
    ASSUME NEW reg, NEW healthy, IsFiniteSet(Names(reg)),
           NEW n \in Names(reg), NEW V \in SUBSET Names(reg)
    PROVE  Available(reg, healthy)[[name |-> n, visiting |-> V]] <=>
              \/ n \in V
              \/ /\ n \in healthy
                 /\ \A dep \in ToSet(reg.deps[n]) :
                       /\ dep \in Names(reg)
                       /\ Available(reg, healthy)[[name |-> dep, visiting |-> V \cup {n}]]
<1> DEFINE N == Names(reg)
           Q == [name : N, visiting : SUBSET N]
           D(q) == ToSet(reg.deps[q.name])
           Below(q, dep) == [name |-> dep, visiting |-> q.visiting \cup {q.name}]
           Body(g, q) == \/ q.name \in q.visiting
                         \/ /\ q.name \in healthy
                            /\ \A dep \in D(q) : dep \in N /\ g[Below(q, dep)]
           F == [g \in [Q -> BOOLEAN] |-> [q \in Q |-> Body(g, q)]]
           left == [q \in Q |-> Cardinality(N \ q.visiting)]
           none == [q \in Q |-> 0]
           R == {p \in Q \X Q : \/ left[p[1]] < left[p[2]]
                                \/ left[p[1]] = left[p[2]] /\ none[p[1]] < none[p[2]]}
<1>1. IsWellFoundedOn(R, Q)
  <2>1. left \in [Q -> Nat]
    <3>1. \A q \in Q : Cardinality(N \ q.visiting) \in Nat
      BY FS_Difference, FS_CardinalityType
    <3> QED
      BY <3>1
  <2>2. none \in [Q -> Nat]
    OBVIOUS
  <2> HIDE DEF left, none, Q
  <2> QED
    BY <2>1, <2>2, TwoMeasures
<1>2. ASSUME NEW q \in Q, q.name \notin q.visiting, NEW dep \in N
      PROVE  Below(q, dep) \in Q /\ <<Below(q, dep), q>> \in R
  <2>1. q.name \in N \ q.visiting /\ q.visiting \in SUBSET N /\ Below(q, dep) \in Q
    BY <1>2
  <2>2. left[Below(q, dep)] < left[q]
    BY <2>1, FewerLeft
  <2> HIDE DEF left, none, Q, Below
  <2> QED
    BY <2>1, <2>2
<1>3. F \in [[Q -> BOOLEAN] -> [Q -> BOOLEAN]]
  OBVIOUS
<1>4. ASSUME NEW g \in [Q -> BOOLEAN], NEW h \in [Q -> BOOLEAN], NEW q \in Q,
             \A u \in Q : <<u, q>> \in R => g[u] = h[u]
      PROVE  F[g][q] = F[h][q]
  <2>1. F[g][q] = Body(g, q) /\ F[h][q] = Body(h, q)
    OBVIOUS
  <2> HIDE DEF R, Q, Below, F
  <2>2. q.name \notin q.visiting => \A dep \in N : g[Below(q, dep)] = h[Below(q, dep)]
    BY <1>2, <1>4
  <2> QED
    BY <2>1, <2>2
<1>5. \E g \in [Q -> BOOLEAN] : g = F[g]
  <2> DEFINE B == BOOLEAN
  <2> HIDE DEF R, Q, F
  <2>1. B # {}
    OBVIOUS
  <2>2. \A g, h \in [Q -> B], q \in Q :
           (\A u \in Q : <<u, q>> \in R => g[u] = h[u]) => F[g][q] = F[h][q]
    BY <1>4
  <2>3. F \in [[Q -> B] -> [Q -> B]]
    BY <1>3
  <2> HIDE DEF B
  <2>4. \E g \in [Q -> B] : g = F[g]
    <3>1. DefinesBelow(F, R, Q, B)
      BY <2>2, <2>3 DEF DefinesBelow
    <3> QED
      BY <1>1, <2>1, <3>1, RecursionDefines
  <2> QED
    BY <2>4 DEF B
<1> DEFINE a == Available(reg, healthy)
<1>6. a = [q \in Q |-> Body(a, q)]
  <2>1. \E g : g = [q \in Q |-> Body(g, q)]
    BY <1>5
  <2> QED
    BY <2>1, Zenon DEF Available
<1>7. \A q \in Q : a[q] = Body(a, q)
  <2> HIDE DEF a, Q, Body
  <2> QED
    BY <1>6, Zenon
<1> DEFINE q0 == [name |-> n, visiting |-> V]
<1>8. q0 \in Q /\ q0.name = n /\ q0.visiting = V
  OBVIOUS
<1>9. a[q0] = Body(a, q0)
  <2> HIDE DEF a, Q, Body, q0
  <2> QED
    BY <1>7, <1>8
<1> HIDE DEF a
<1>10. Body(a, q0) = \/ n \in V
                     \/ /\ n \in healthy
                        /\ \A dep \in ToSet(reg.deps[n]) :
                              dep \in N /\ a[[name |-> dep, visiting |-> V \cup {n}]]
  <2>1. \A dep : Below(q0, dep) = [name |-> dep, visiting |-> V \cup {n}]
    OBVIOUS
  <2> HIDE DEF Below
  <2> QED
    BY <2>1
<1> HIDE DEF q0, Body
<1>11. a[[name |-> n, visiting |-> V]]
          <=> \/ n \in V
              \/ /\ n \in healthy
                 /\ \A dep \in ToSet(reg.deps[n]) :
                       dep \in N /\ a[[name |-> dep, visiting |-> V \cup {n}]]
  BY <1>9, <1>10 DEF q0
<1> QED
  BY <1>11 DEF a

\* A set of registered, healthy modules that holds what its members depend on,
\* but for the names of V.
Holds(reg, healthy, V, C) ==
    C \subseteq Names(reg) \cap healthy /\ \A m \in C : ToSet(reg.deps[m]) \subseteq C \cup V

\* Below the names of V a module is available when such a set holds it.
LEMMA AvailableIsHeld ==
    ASSUME NEW reg, NEW healthy, IsFiniteSet(Names(reg)),
           NEW n0 \in Names(reg), NEW V0 \in SUBSET Names(reg), n0 \notin V0
    PROVE  Available(reg, healthy)[[name |-> n0, visiting |-> V0]]
              <=> \E C : Holds(reg, healthy, V0, C) /\ n0 \in C
<1> DEFINE N == Names(reg)
           a(n, V) == Available(reg, healthy)[[name |-> n, visiting |-> V]]
           Held(n, V) == \E C : Holds(reg, healthy, V, C) /\ n \in C
           Wrong(V) == \E n \in N \ V : ~(a(n, V) <=> Held(n, V))
           ks == {Cardinality(N \ V) : V \in {W \in SUBSET N : Wrong(W)}}
<1>1. \A n \in N, V \in SUBSET N :
         a(n, V) <=> \/ n \in V
                     \/ n \in healthy /\ \A dep \in ToSet(reg.deps[n]) :
                                            dep \in N /\ a(dep, V \cup {n})
  BY AvailableUnfolds
<1> HIDE DEF a
<1> SUFFICES ASSUME ks # {}
             PROVE  FALSE
  BY DEF a
<1>2. ks \in SUBSET Nat
  <2>1. \A V \in SUBSET N : Cardinality(N \ V) \in Nat
    BY FS_Difference, FS_CardinalityType
  <2> HIDE DEF Wrong
  <2> QED
    BY <2>1
<1>3. PICK V \in SUBSET N : Wrong(V) /\ \A k \in ks : Cardinality(N \ V) <= k
  <2> HIDE DEF ks
  <2>1. PICK m \in ks : \A k \in ks : m <= k
    BY <1>2, LeastNatural
  <2> USE DEF ks
  <2> HIDE DEF Wrong
  <2> QED
    BY <2>1
<1>4. PICK n \in N \ V : ~(a(n, V) <=> Held(n, V))
  BY <1>3
<1> DEFINE U == V \cup {n}
<1>5. \A dep \in N \ U : a(dep, U) <=> Held(dep, U)
  <2>1. U \in SUBSET N /\ ~(Cardinality(N \ V) <= Cardinality(N \ U))
    BY FewerLeft
  <2>2. ~Wrong(U)
    <3> HIDE DEF Wrong, U
    <3> QED
      BY <1>3, <2>1
  <2> QED
    BY <2>2
<1>6. \A dep \in U : a(dep, U)
  BY <1>1
<1>7. ASSUME Held(n, V)
      PROVE  a(n, V)
  <2>1. PICK C : Holds(reg, healthy, V, C) /\ n \in C
    BY <1>7
  <2>2. Holds(reg, healthy, U, C)
    BY <2>1 DEF Holds
  <2>3. \A dep \in ToSet(reg.deps[n]) : dep \in U \/ (dep \in C /\ dep \in N \ U)
    <3> DEFINE D == ToSet(reg.deps[n])
    <3>1. D \subseteq C \cup V /\ C \subseteq N
      BY <2>1 DEF Holds
    <3> HIDE DEF D
    <3>2. \A dep \in D : dep \in U \/ (dep \in C /\ dep \in N \ U)
      BY <3>1
    <3> QED
      BY <3>2 DEF D
  <2>4. \A dep \in ToSet(reg.deps[n]) : dep \in N /\ a(dep, U)
    <3> HIDE DEF U
    <3> QED
      BY <1>5, <1>6, <2>2, <2>3 DEF U
  <2> QED
    BY <1>1, <2>1, <2>4 DEF Holds
<1>8. ASSUME a(n, V)
      PROVE  Held(n, V)
  <2>1. n \in healthy /\ \A dep \in ToSet(reg.deps[n]) : dep \in N /\ a(dep, U)
    BY <1>1, <1>8
  <2> DEFINE held == {C \in SUBSET N : Holds(reg, healthy, U, C)}
             H == UNION held
             C == {n} \cup H
  <2>2. \A dep \in ToSet(reg.deps[n]) : dep \in U \/ dep \in H
    <3> TAKE dep \in ToSet(reg.deps[n])
    <3>1. CASE dep \in U
      BY <3>1
    <3>2. CASE dep \notin U
      <4>1. Held(dep, U)
        <5> HIDE DEF U, Held
        <5> QED
          BY <1>5, <2>1, <3>2
      <4>2. PICK D : Holds(reg, healthy, U, D) /\ dep \in D
        BY <4>1
      <4>3. D \in held
        BY <4>2 DEF Holds
      <4> QED
        BY <4>2, <4>3
    <3> QED
      BY <3>1, <3>2
  <2>3. ASSUME NEW m \in H
        PROVE  /\ m \in N \cap healthy
               /\ ToSet(reg.deps[m]) \subseteq H \cup U
    <3>1. PICK D \in held : m \in D
      OBVIOUS
    <3> DEFINE deps == ToSet(reg.deps[m])
    <3>2. D \subseteq N \cap healthy /\ deps \subseteq D \cup U
      BY <3>1 DEF Holds
    <3>3. D \subseteq H
      OBVIOUS
    <3> HIDE DEF held, H, deps, U
    <3>4. deps \subseteq H \cup U
      BY ONLY <3>2, <3>3
    <3> QED
      BY <3>1, <3>2, <3>4 DEF deps
  <2>4. Holds(reg, healthy, V, C)
    <3> DEFINE deps(m) == ToSet(reg.deps[m])
    <3> HIDE DEF H
    <3>1. C \subseteq N \cap healthy
      BY <2>1, <2>3
    <3>2. \A m \in C : deps(m) \subseteq C \cup V
      <4>1. \A dep \in deps(n) : dep \in H \cup U
        BY <2>2
      <4>2. \A m \in H : deps(m) \subseteq H \cup U
        BY <2>3
      <4> HIDE DEF deps
      <4> QED
        BY <4>1, <4>2
    <3> QED
      BY <3>1, <3>2 DEF Holds
  <2> QED
    BY <2>4
<1> QED
  BY <1>4, <1>7, <1>8

\* So is a module below no name.
LEMMA IsAvailableHeld ==
    ASSUME NEW reg, NEW healthy, IsFiniteSet(Names(reg)), NEW name
    PROVE  IsAvailable(reg, healthy, name) <=> \E C : Holds(reg, healthy, {}, C) /\ name \in C
<1>1. ASSUME name \in Names(reg)
      PROVE  Available(reg, healthy)[[name |-> name, visiting |-> {}]]
                <=> \E C : Holds(reg, healthy, {}, C) /\ name \in C
  BY <1>1, AvailableIsHeld
<1> DEFINE a == Available(reg, healthy)[[name |-> name, visiting |-> {}]]
<1>2. IsAvailable(reg, healthy, name) <=> name \in Names(reg) /\ a
  BY DEF IsAvailable
<1> HIDE DEF a
<1>3. name \in Names(reg) => (a <=> \E C : Holds(reg, healthy, {}, C) /\ name \in C)
  BY <1>1 DEF a
<1> QED
  BY <1>2, <1>3 DEF Holds

\* Whatever is registered, unknown names and circles included, a module is
\* available exactly when some modules, all registered and healthy, hold it and
\* whatever any of them depends on: availability looks all the way down
\* (registry.py:121-136).
THEOREM AvailabilityLooksAllTheWay ==
    ASSUME NEW reg, NEW healthy, IsFiniteSet(Names(reg)), NEW name
    PROVE  IsAvailable(reg, healthy, name) <=>
              \E C \in SUBSET (Names(reg) \cap healthy) :
                 name \in C /\ \A m \in C : ToSet(reg.deps[m]) \subseteq C
BY IsAvailableHeld DEF Holds

-----------------------------------------------------------------------------
(* The start order.                                                        *)

\* The registered names that m depends on.
Deps(reg, m) == ToSet(reg.deps[m]) \cap Names(reg)

Below(reg, v) == [list |-> reg.deps[Head(v.list)],
                  visiting |-> v.visiting \cup {Head(v.list)}, order |-> v.order]
Rest(v, order) == [list |-> Tail(v.list), visiting |-> v.visiting, order |-> order]
Skipped(reg, v) == \/ Head(v.list) \notin Names(reg)
                   \/ Head(v.list) \in v.visiting \cup ToSet(v.order)
VisitBody(reg, g, v) ==
    IF v.list = <<>> THEN v.order
    ELSE g[Rest(v, IF Skipped(reg, v) THEN v.order ELSE Append(g[Below(reg, v)], Head(v.list)))]

\* The calls that a call makes are below it: fewer names to visit, or the same
\* and a shorter list.
VisitOrder(reg) ==
    LET left == [v \in VisitCalls(reg) |-> Cardinality(Names(reg) \ v.visiting)]
        length == [v \in VisitCalls(reg) |-> Len(v.list)]
    IN  {p \in VisitCalls(reg) \X VisitCalls(reg) :
            \/ left[p[1]] < left[p[2]]
            \/ left[p[1]] = left[p[2]] /\ length[p[1]] < length[p[2]]}

LEMMA VisitsDescend ==
    ASSUME NEW reg, IsRegistration(reg)
    PROVE  /\ IsWellFoundedOn(VisitOrder(reg), VisitCalls(reg))
           /\ \A v \in VisitCalls(reg) : v.list # <<>> =>
                 /\ ~Skipped(reg, v) => /\ Head(v.list) \in Names(reg)
                                        /\ Below(reg, v) \in VisitCalls(reg)
                                        /\ <<Below(reg, v), v>> \in VisitOrder(reg)
                 /\ \A order \in Seq(Names(reg)) :
                       /\ Rest(v, order) \in VisitCalls(reg)
                       /\ <<Rest(v, order), v>> \in VisitOrder(reg)
<1> DEFINE N == Names(reg)
           C == VisitCalls(reg)
           left == [v \in C |-> Cardinality(N \ v.visiting)]
           length == [v \in C |-> Len(v.list)]
<1>1. IsFiniteSet(N)
  BY DEF IsRegistration
<1>2. \A v \in C : /\ v.list \in Seq(Mentioned(reg)) /\ v.visiting \in SUBSET N
                   /\ v.order \in Seq(N)
  BY DEF VisitCalls
<1>3. left \in [C -> Nat]
  <2>1. \A v \in C : Cardinality(N \ v.visiting) \in Nat
    BY <1>1, FS_Difference, FS_CardinalityType
  <2> QED
    BY <2>1
<1>4. length \in [C -> Nat]
  BY <1>2
<1>5. VisitOrder(reg) = {p \in C \X C : \/ left[p[1]] < left[p[2]]
                                        \/ left[p[1]] = left[p[2]] /\ length[p[1]] < length[p[2]]}
  BY DEF VisitOrder
<1>6. IsWellFoundedOn(VisitOrder(reg), C)
  <2> HIDE DEF left, length, C
  <2> QED
    BY <1>3, <1>4, <1>5, TwoMeasures
<1>7. ASSUME NEW v \in C, v.list # <<>>, ~Skipped(reg, v)
      PROVE  Head(v.list) \in N /\ Below(reg, v) \in C /\ <<Below(reg, v), v>> \in VisitOrder(reg)
  <2> DEFINE n == Head(v.list)
             b == Below(reg, v)
  <2>1. n \in N \ v.visiting
    BY <1>7 DEF Skipped
  <2>2. reg.deps[n] \in Seq(Mentioned(reg))
    <3>1. reg.deps[n] \in Seq(ToSet(reg.deps[n])) /\ ToSet(reg.deps[n]) \subseteq Mentioned(reg)
      BY <2>1 DEF IsRegistration, Mentioned
    <3> QED
      BY <3>1
  <2> HIDE DEF n
  <2>3. b \in C /\ b.visiting = v.visiting \cup {n}
    BY <1>2, <2>1, <2>2 DEF VisitCalls, Below, n
  <2>4. left[b] < left[v]
    BY <1>1, <1>2, <2>1, <2>3, FewerLeft
  <2> HIDE DEF left, length, C, b
  <2>5. <<b, v>> \in VisitOrder(reg)
    BY <1>5, <2>3, <2>4
  <2> QED
    BY <2>1, <2>3, <2>5 DEF b, n
<1>8. ASSUME NEW v \in C, v.list # <<>>, NEW order \in Seq(N)
      PROVE  Rest(v, order) \in C /\ <<Rest(v, order), v>> \in VisitOrder(reg)
  <2> DEFINE r == Rest(v, order)
  <2>1. Tail(v.list) \in Seq(Mentioned(reg)) /\ Len(Tail(v.list)) < Len(v.list)
    BY <1>2, <1>8
  <2>2. r \in C /\ r.visiting = v.visiting /\ r.list = Tail(v.list)
    BY <1>2, <2>1 DEF VisitCalls, Rest
  <2>3. left[r] = left[v] /\ length[r] < length[v]
    BY <2>1, <2>2
  <2> HIDE DEF left, length, C, r
  <2>4. <<r, v>> \in VisitOrder(reg)
    BY <1>5, <2>2, <2>3
  <2> QED
    BY <2>2, <2>4 DEF r
<1> QED
  BY <1>6, <1>7, <1>8

\* visit returns for every list, path and registration, cycles included, with
\* what its body says of the calls it makes.
LEMMA VisitsUnfold ==
    ASSUME NEW reg, IsRegistration(reg), NEW v \in VisitCalls(reg)
    PROVE  /\ Visits(reg)[v] \in Seq(Names(reg))
           /\ Visits(reg)[v] = VisitBody(reg, Visits(reg), v)
<1> DEFINE N == Names(reg)
           C == VisitCalls(reg)
           F == [g \in [C -> Seq(N)] |-> [w \in C |-> VisitBody(reg, g, w)]]
           f == Visits(reg)
<1>1. \A w \in C : w.order \in Seq(N)
  BY DEF VisitCalls
<1>2. ASSUME NEW g \in [C -> Seq(N)], NEW w \in C
      PROVE  VisitBody(reg, g, w) \in Seq(N)
  <2> DEFINE next == IF Skipped(reg, w) THEN w.order
                     ELSE Append(g[Below(reg, w)], Head(w.list))
  <2>1. CASE w.list = <<>>
    BY <1>1, <2>1 DEF VisitBody
  <2>2. CASE w.list # <<>>
    <3>1. next \in Seq(N)
      <4>1. CASE Skipped(reg, w)
        BY <1>1, <4>1
      <4>2. CASE ~Skipped(reg, w)
        <5>1. Head(w.list) \in N /\ g[Below(reg, w)] \in Seq(N)
          BY <1>2, <2>2, <4>2, VisitsDescend
        <5> QED
          BY <4>2, <5>1
      <4> QED
        BY <4>1, <4>2
    <3> HIDE DEF next
    <3>2. g[Rest(w, next)] \in Seq(N)
      BY <1>2, <2>2, <3>1, VisitsDescend
    <3> QED
      BY <2>2, <3>2 DEF VisitBody, next
  <2> QED
    BY <2>1, <2>2
<1>3. F \in [[C -> Seq(N)] -> [C -> Seq(N)]]
  BY <1>2
<1>4. ASSUME NEW g \in [C -> Seq(N)], NEW h \in [C -> Seq(N)], NEW w \in C,
             \A u \in C : <<u, w>> \in VisitOrder(reg) => g[u] = h[u]
      PROVE  F[g][w] = F[h][w]
  <2>1. F[g][w] = VisitBody(reg, g, w) /\ F[h][w] = VisitBody(reg, h, w)
    OBVIOUS
  <2> HIDE DEF F
  <2>2. VisitBody(reg, g, w) = VisitBody(reg, h, w)
    <3>1. CASE w.list = <<>>
      BY <3>1 DEF VisitBody
    <3>2. CASE w.list # <<>> /\ Skipped(reg, w)
      <4>1. g[Rest(w, w.order)] = h[Rest(w, w.order)]
        BY <1>1, <1>4, <3>2, VisitsDescend
      <4> QED
        BY <3>2, <4>1 DEF VisitBody
    <3>3. CASE w.list # <<>> /\ ~Skipped(reg, w)
      <4> DEFINE next == Append(g[Below(reg, w)], Head(w.list))
      <4>1. g[Below(reg, w)] = h[Below(reg, w)] /\ g[Below(reg, w)] \in Seq(N)
            /\ Head(w.list) \in N
        BY <1>4, <3>3, VisitsDescend
      <4>2. next \in Seq(N) /\ next = Append(h[Below(reg, w)], Head(w.list))
        BY <4>1
      <4> HIDE DEF next
      <4>3. g[Rest(w, next)] = h[Rest(w, next)]
        BY <1>4, <3>3, <4>2, VisitsDescend
      <4> QED
        BY <3>3, <4>2, <4>3 DEF VisitBody, next
    <3> QED
      BY <3>1, <3>2, <3>3
  <2> QED
    BY <2>1, <2>2
<1>5. \E g \in [C -> Seq(N)] : g = F[g]
  <2> HIDE DEF F, C, N
  <2>1. DefinesBelow(F, VisitOrder(reg), C, Seq(N))
    BY <1>3, <1>4 DEF DefinesBelow
  <2>2. Seq(N) # {}
    <3>1. <<>> \in Seq(N)
      OBVIOUS
    <3> QED
      BY <3>1
  <2>3. IsWellFoundedOn(VisitOrder(reg), C)
    BY VisitsDescend DEF C
  <2> QED
    BY <2>1, <2>2, <2>3, RecursionDefines
<1>6. f = [w \in C |-> VisitBody(reg, f, w)]
  <2>1. \E g : g = [w \in C |-> VisitBody(reg, g, w)]
    BY <1>5
  <2> QED
    BY <2>1, Zenon DEF Visits, VisitBody, Below, Rest, Skipped
<1>7. \A w \in C : f[w] = VisitBody(reg, f, w)
  <2> HIDE DEF f, C
  <2> QED
    BY <1>6
<1>8. \A w \in C : f[w] \in Seq(N)
  <2> DEFINE T == {w \in C : f[w] \notin Seq(N)}
  <2> SUFFICES ASSUME T # {}
               PROVE  FALSE
    OBVIOUS
  <2> HIDE DEF f
  <2>1. PICK w \in T : \A u \in T : ~(<<u, w>> \in VisitOrder(reg))
    <3>1. T \subseteq C
      OBVIOUS
    <3> HIDE DEF T, C
    <3> QED
      BY <3>1, WFMin, VisitsDescend DEF C
  <2>2. \A u \in C : <<u, w>> \in VisitOrder(reg) => f[u] \in Seq(N)
    BY <2>1
  <2>3. w \in C /\ f[w] = VisitBody(reg, f, w) /\ f[w] \notin Seq(N)
    BY <1>7, <2>1
  <2>4. CASE w.list = <<>>
    BY <1>1, <2>3, <2>4 DEF VisitBody
  <2>5. CASE w.list # <<>> /\ Skipped(reg, w)
    <3>1. f[Rest(w, w.order)] \in Seq(N)
      BY <1>1, <2>2, <2>3, <2>5, VisitsDescend
    <3> QED
      BY <2>3, <2>5, <3>1 DEF VisitBody
  <2>6. CASE w.list # <<>> /\ ~Skipped(reg, w)
    <3> DEFINE next == Append(f[Below(reg, w)], Head(w.list))
    <3>1. Head(w.list) \in N /\ f[Below(reg, w)] \in Seq(N)
      BY <2>2, <2>3, <2>6, VisitsDescend
    <3>2. next \in Seq(N)
      BY <3>1
    <3> HIDE DEF next
    <3>3. f[Rest(w, next)] \in Seq(N)
      BY <2>2, <2>3, <2>6, <3>2, VisitsDescend
    <3> QED
      BY <2>3, <2>6, <3>3 DEF VisitBody, next
  <2> QED
    BY <2>4, <2>5, <2>6
<1> QED
  BY <1>7, <1>8

\* Element x is at a place of list s before place k.
ComesBefore(s, x, k) == \E j \in 1 .. Len(s) : j < k /\ s[j] = x
Occurs(s, x) == ComesBefore(s, x, Len(s) + 1)
Once(s) == \A i, j \in 1 .. Len(s) : s[i] = s[j] => i = j

\* A set of registered names that holds what its members depend on, and the
\* names that every such set around a holds: what a needs, over any number of
\* steps, itself included.
Closed(reg, C) == \A m \in C : Deps(reg, m) \subseteq C
Leads(reg, a, b) == \A C \in SUBSET Names(reg) : a \in C /\ Closed(reg, C) => b \in C

\* A name comes after the registered names it depends on, but for those that in
\* turn depend on it.
Placed(reg, order) ==
    \A k \in 1 .. Len(order) : \A dep \in Deps(reg, order[k]) :
        ComesBefore(order, dep, k) \/ Leads(reg, dep, order[k])

\* No names all need one another.
Acyclic(reg) == \A S \in SUBSET Names(reg) : S # {} => \E m \in S : ToSet(reg.deps[m]) \cap S = {}

\* The names being visited are on the way to t.
LeadTo(reg, visiting, t) == \A m \in visiting : Leads(reg, m, t)

VisitIsSound(reg, v) ==
    /\ Once(v.order) /\ Placed(reg, v.order)
    /\ \A m \in v.visiting : ~Occurs(v.order, m)
    /\ \A t \in Names(reg) : Occurs(v.list, t) => LeadTo(reg, v.visiting, t)

\* What a visit returns: the order so far, longer by what was not in it.
Extends(reg, v, order) ==
    /\ Once(order) /\ Placed(reg, order)
    /\ \A x \in Names(reg) : Occurs(v.order, x) => Occurs(order, x)
    /\ \A m \in v.visiting : ~Occurs(order, m)
    /\ \A t \in Names(reg) : Occurs(v.list, t) => Occurs(order, t) \/ t \in v.visiting

\* The members of a list have a place in it.
LEMMA ToSetOccurs ==
    ASSUME NEW S, NEW s \in Seq(S)
    PROVE  \A x : x \in ToSet(s) <=> Occurs(s, x)
<1>1. DOMAIN s = 1 .. Len(s) /\ Len(s) \in Nat
  OBVIOUS
<1>2. \A x : x \in ToSet(s) <=> \E j \in 1 .. Len(s) : s[j] = x
  BY <1>1 DEF ToSet
<1> QED
  BY <1>1, <1>2 DEF Occurs, ComesBefore

\* What is in a list with one more, and where.
LEMMA OccursAppend ==
    ASSUME NEW S, NEW s \in Seq(S), NEW n \in S
    PROVE  /\ Append(s, n) \in Seq(S)
           /\ \A x : Occurs(Append(s, n), x) <=> x = n \/ Occurs(s, x)
           /\ \A x : \A k \in 1 .. Len(s) : ComesBefore(s, x, k) => ComesBefore(Append(s, n), x, k)
           /\ \A x : Occurs(s, x) => ComesBefore(Append(s, n), x, Len(s) + 1)
<1> DEFINE a == Append(s, n)
<1>1. /\ a \in Seq(S) /\ Len(a) = Len(s) + 1 /\ Len(s) \in Nat /\ a[Len(s) + 1] = n
      /\ \A i \in 1 .. Len(s) : a[i] = s[i]
  OBVIOUS
<1> HIDE DEF a
<1>2. \A i \in 1 .. Len(a) : i \in 1 .. Len(s) \/ i = Len(s) + 1
  BY <1>1
<1>3. \A i \in 1 .. Len(s) : i \in 1 .. Len(a) /\ i < Len(s) + 1 /\ i < Len(a) + 1
  BY <1>1
<1>4. Len(s) + 1 \in 1 .. Len(a) /\ Len(s) + 1 < Len(a) + 1
  BY <1>1
<1>5. \A x : Occurs(a, x) <=> x = n \/ Occurs(s, x)
  BY <1>1, <1>2, <1>3, <1>4 DEF Occurs, ComesBefore
<1>6. \A x : \A k \in 1 .. Len(s) : ComesBefore(s, x, k) => ComesBefore(a, x, k)
  BY <1>1, <1>3 DEF ComesBefore
<1>7. \A x : Occurs(s, x) => ComesBefore(a, x, Len(s) + 1)
  BY <1>1, <1>3 DEF Occurs, ComesBefore
<1> QED
  BY <1>1, <1>5, <1>6, <1>7 DEF a

\* A list is its first and what follows.
LEMMA OccursTail ==
    ASSUME NEW S, NEW s \in Seq(S), s # <<>>
    PROVE  /\ Tail(s) \in Seq(S) /\ Head(s) \in S
           /\ \A x : Occurs(s, x) <=> x = Head(s) \/ Occurs(Tail(s), x)
<1>1. /\ Tail(s) \in Seq(S) /\ Head(s) = s[1] /\ s[1] \in S
      /\ Len(s) \in Nat /\ Len(s) >= 1 /\ Len(Tail(s)) = Len(s) - 1
      /\ \A i \in 1 .. Len(s) - 1 : Tail(s)[i] = s[i + 1]
  OBVIOUS
<1>2. ASSUME NEW x, Occurs(s, x)
      PROVE  x = Head(s) \/ Occurs(Tail(s), x)
  <2>1. PICK j \in 1 .. Len(s) : s[j] = x
    BY <1>2 DEF Occurs, ComesBefore
  <2>2. CASE j = 1
    BY <1>1, <2>1, <2>2
  <2>3. CASE j # 1
    <3>1. j - 1 \in 1 .. Len(Tail(s)) /\ Tail(s)[j - 1] = x /\ j - 1 < Len(Tail(s)) + 1
      BY <1>1, <2>1, <2>3
    <3> QED
      BY <3>1 DEF Occurs, ComesBefore
  <2> QED
    BY <2>2, <2>3
<1>3. ASSUME NEW x, x = Head(s) \/ Occurs(Tail(s), x)
      PROVE  Occurs(s, x)
  <2>1. CASE x = Head(s)
    <3>1. 1 \in 1 .. Len(s) /\ 1 < Len(s) + 1
      BY <1>1
    <3> QED
      BY <1>1, <2>1, <3>1 DEF Occurs, ComesBefore
  <2>2. CASE Occurs(Tail(s), x)
    <3>1. PICK j \in 1 .. Len(Tail(s)) : Tail(s)[j] = x
      BY <2>2 DEF Occurs, ComesBefore
    <3>2. j + 1 \in 1 .. Len(s) /\ s[j + 1] = x /\ j + 1 < Len(s) + 1
      BY <1>1, <3>1
    <3> QED
      BY <3>2 DEF Occurs, ComesBefore
  <2> QED
    BY <1>3, <2>1, <2>2
<1> QED
  BY <1>1, <1>2, <1>3

\* What a name leads to leads on to what that depends on.
LEMMA LeadsOn ==
    ASSUME NEW reg, NEW a, NEW b, NEW d \in Deps(reg, b)
    PROVE  /\ Leads(reg, a, a)
           /\ Leads(reg, a, b) => Leads(reg, a, d)
BY DEF Leads, Closed

\* In an acyclic registration nothing leads back to what depends on it.
LEMMA NothingLeadsBack ==
    ASSUME NEW reg, Acyclic(reg), NEW m \in Names(reg), NEW dep \in Deps(reg, m)
    PROVE  ~Leads(reg, dep, m)
<1> DEFINE back == {x \in Names(reg) : Leads(reg, x, m)}
<1> SUFFICES ASSUME dep \in back
             PROVE  FALSE
  BY DEF Deps
<1>1. PICK x \in back : ToSet(reg.deps[x]) \cap back = {}
  BY DEF Acyclic
<1>2. x # m
  BY <1>1 DEF Deps
<1> DEFINE C == {x} \cup (Names(reg) \ back)
<1>3. Closed(reg, C)
  <2> SUFFICES ASSUME NEW y \in C, NEW d \in Deps(reg, y), d \notin C
               PROVE  FALSE
    BY DEF Closed
  <2>1. d \in back
    BY DEF Deps
  <2>2. y # x
    BY <1>1, <2>1 DEF Deps
  <2>3. Leads(reg, y, m)
    BY <2>1 DEF Leads, Closed
  <2> QED
    BY <2>2, <2>3
<1>4. m \notin C
  BY <1>2 DEF Leads
<1> QED
  BY <1>1, <1>3, <1>4 DEF Leads

\* A name that is visited, after what it depends on, has its place.
LEMMA PlacedAppend ==
    ASSUME NEW reg, NEW s \in Seq(Names(reg)), NEW n \in Names(reg),
           Once(s), Placed(reg, s), ~Occurs(s, n),
           \A dep \in Deps(reg, n) : Occurs(s, dep) \/ Leads(reg, dep, n)
    PROVE  Once(Append(s, n)) /\ Placed(reg, Append(s, n))
<1> DEFINE a == Append(s, n)
<1>1. /\ a \in Seq(Names(reg)) /\ Len(a) = Len(s) + 1 /\ Len(s) \in Nat /\ a[Len(s) + 1] = n
      /\ \A i \in 1 .. Len(s) : a[i] = s[i]
  OBVIOUS
<1>2. /\ \A x : \A k \in 1 .. Len(s) : ComesBefore(s, x, k) => ComesBefore(a, x, k)
      /\ \A x : Occurs(s, x) => ComesBefore(a, x, Len(s) + 1)
  BY OccursAppend
<1> HIDE DEF a
<1>3. \A i \in 1 .. Len(a) : i \in 1 .. Len(s) \/ i = Len(s) + 1
  BY <1>1
<1>4. \A i \in 1 .. Len(s) : s[i] # n
  <2>1. \A i \in 1 .. Len(s) : i < Len(s) + 1
    BY <1>1
  <2> QED
    BY <2>1 DEF Occurs, ComesBefore
<1>5. Once(a)
  BY <1>1, <1>3, <1>4 DEF Once
<1>6. Placed(reg, a)
  <2> SUFFICES ASSUME NEW k \in 1 .. Len(a), NEW dep \in Deps(reg, a[k])
               PROVE  ComesBefore(a, dep, k) \/ Leads(reg, dep, a[k])
    BY DEF Placed
  <2>1. CASE k \in 1 .. Len(s)
    BY <1>1, <1>2, <2>1 DEF Placed
  <2>2. CASE k = Len(s) + 1
    BY <1>1, <1>2, <2>2
  <2> QED
    BY <1>3, <2>1, <2>2
<1> QED
  BY <1>5, <1>6 DEF a

\* A visit, whatever it starts from, places every name of its list once, unless
\* it is being visited, after the registered names that it depends on.
LEMMA VisitsPlace ==
    ASSUME NEW reg, IsRegistration(reg), NEW v0 \in VisitCalls(reg),
           VisitIsSound(reg, v0)
    PROVE  Extends(reg, v0, Visits(reg)[v0])
<1> DEFINE N == Names(reg)
           C == VisitCalls(reg)
           f == Visits(reg)
           T == {v \in C : VisitIsSound(reg, v) /\ ~Extends(reg, v, f[v])}
<1> SUFFICES ASSUME T # {}
             PROVE  FALSE
  OBVIOUS
<1> HIDE DEF f
<1>1. PICK v \in T : \A u \in T : ~(<<u, v>> \in VisitOrder(reg))
  <2>1. T \subseteq C
    OBVIOUS
  <2> HIDE DEF T, C
  <2> QED
    BY <2>1, WFMin, VisitsDescend DEF C
<1>2. /\ v \in C /\ VisitIsSound(reg, v) /\ ~Extends(reg, v, f[v])
      /\ \A u \in C : <<u, v>> \in VisitOrder(reg) /\ VisitIsSound(reg, u) => Extends(reg, u, f[u])
  BY <1>1
<1>3. /\ v.list \in Seq(Mentioned(reg)) /\ v.visiting \in SUBSET N /\ v.order \in Seq(N)
  BY <1>2 DEF VisitCalls
<1>4. f[v] = VisitBody(reg, f, v) /\ \A u \in C : f[u] \in Seq(N)
  BY <1>2, VisitsUnfold DEF f
<1> HIDE DEF T
<1>5. CASE v.list = <<>>
  <2>1. f[v] = v.order
    BY <1>4, <1>5 DEF VisitBody
  <2>2. \A x : ~Occurs(v.list, x)
    BY <1>5 DEF Occurs, ComesBefore
  <2> QED
    BY <1>2, <2>1, <2>2 DEF VisitIsSound, Extends
<1>6. CASE v.list # <<>>
  <2> DEFINE n == Head(v.list)
  <2>1. \A x : Occurs(v.list, x) <=> x = n \/ Occurs(Tail(v.list), x)
    BY <1>3, <1>6, OccursTail
  <2>2. \A x : x \in ToSet(v.order) <=> Occurs(v.order, x)
    BY <1>3, ToSetOccurs
  <2>3. n \in N => LeadTo(reg, v.visiting, n)
    BY <1>2, <2>1 DEF VisitIsSound
  <2>4. ASSUME NEW next \in Seq(N), f[v] = f[Rest(v, next)],
               Once(next), Placed(reg, next), \A m \in v.visiting : ~Occurs(next, m),
               \A x \in N : Occurs(v.order, x) => Occurs(next, x), 
               n \in N => Occurs(next, n) \/ n \in v.visiting
        PROVE  FALSE
    <3> DEFINE r == Rest(v, next)
    <3>1. r \in C /\ <<r, v>> \in VisitOrder(reg)
      BY <1>2, <1>6, VisitsDescend
    <3>2. r.order = next /\ r.visiting = v.visiting /\ r.list = Tail(v.list)
      BY DEF Rest
    <3>3. f[v] = f[r]
      BY <2>4
    <3> HIDE DEF r, n
    <3>4. VisitIsSound(reg, r)
      BY <1>2, <2>1, <2>4, <3>2 DEF VisitIsSound
    <3>5. Extends(reg, r, f[r])
      BY <1>2, <3>1, <3>4
    <3>6. Extends(reg, v, f[v])
      BY <2>1, <2>4, <3>2, <3>3, <3>5 DEF Extends
    <3> QED
      BY <1>2, <3>6
  <2>5. CASE Skipped(reg, v)
    <3>1. f[v] = f[Rest(v, v.order)]
      BY <1>4, <1>6, <2>5 DEF VisitBody
    <3>2. n \in N => Occurs(v.order, n) \/ n \in v.visiting
      BY <2>2, <2>5 DEF Skipped
    <3>3. Once(v.order) /\ Placed(reg, v.order) /\ \A m \in v.visiting : ~Occurs(v.order, m)
      BY <1>2 DEF VisitIsSound
    <3> HIDE DEF n
    <3> QED
      BY <1>3, <2>4, <3>1, <3>2, <3>3
  <2>6. CASE ~Skipped(reg, v)
    <3> DEFINE b == Below(reg, v)
               below == f[b]
               next == Append(below, n)
    <3>1. n \in N /\ b \in C /\ <<b, v>> \in VisitOrder(reg)
      BY <1>2, <1>6, <2>6, VisitsDescend
    <3>2. b.order = v.order /\ b.visiting = v.visiting \cup {n} /\ b.list = reg.deps[n]
      BY DEF Below
    <3>3. f[v] = f[Rest(v, next)]
      BY <1>4, <1>6, <2>6 DEF VisitBody
    <3>4. ~Occurs(v.order, n) /\ n \notin v.visiting
      BY <2>2, <2>6 DEF Skipped
    <3> HIDE DEF b, n
    <3>5. \A t \in N : Occurs(b.list, t) <=> t \in Deps(reg, n)
      BY <3>1, <3>2, ToSetOccurs DEF IsRegistration, Deps
    <3>6. VisitIsSound(reg, b)
      <4>1. \A t \in N : Occurs(b.list, t) => LeadTo(reg, b.visiting, t)
        BY <2>3, <3>1, <3>2, <3>5, LeadsOn DEF LeadTo
      <4> QED
        BY <1>2, <3>2, <3>4, <4>1 DEF VisitIsSound
    <3>7. Extends(reg, b, below)
      BY <1>2, <3>1, <3>6
    <3>8. below \in Seq(N)
      BY <1>4, <3>1
    <3> HIDE DEF below
    <3>9. /\ Once(below) /\ Placed(reg, below) /\ ~Occurs(below, n)
          /\ \A m \in v.visiting : ~Occurs(below, m)
          /\ \A x \in N : Occurs(v.order, x) => Occurs(below, x)
          /\ \A dep \in Deps(reg, n) : Occurs(below, dep) \/ dep \in v.visiting \cup {n}
      BY <3>2, <3>5, <3>7 DEF Extends, Deps
    <3>12. \A dep \in Deps(reg, n) : Occurs(below, dep) \/ Leads(reg, dep, n)
      BY <2>3, <3>1, <3>9, LeadsOn DEF LeadTo
    <3>10. Once(next) /\ Placed(reg, next)
      BY <3>1, <3>8, <3>9, <3>12, PlacedAppend
    <3>11. next \in Seq(N) /\ \A x : Occurs(next, x) <=> x = n \/ Occurs(below, x)
      BY <3>1, <3>8, OccursAppend
    <3> HIDE DEF next
    <3> QED
      BY <2>4, <3>1, <3>3, <3>4, <3>9, <3>10, <3>11
  <2> QED
    BY <2>5, <2>6
<1> QED
  BY <1>5, <1>6

\* Whatever is registered, unknown names and circles included, every module
\* starts once, after each registered module it depends on that does not in
\* turn depend on it (registry.py:54-78).
THEOREM StartOrderPlaces ==
    ASSUME NEW reg, IsRegistration(reg)
    PROVE  /\ StartOrder(reg) \in Seq(Names(reg))
           /\ Once(StartOrder(reg)) /\ Placed(reg, StartOrder(reg))
           /\ \A m \in Names(reg) : Occurs(StartOrder(reg), m)
<1> DEFINE v == [list |-> reg.order, visiting |-> {}, order |-> <<>>]
           N == Names(reg)
<1>1. v \in VisitCalls(reg)
  <2>1. reg.order \in Seq(Mentioned(reg))
    <3>1. reg.order \in Seq(N) /\ N \subseteq Mentioned(reg)
      BY DEF IsRegistration, Mentioned
    <3> QED
      BY <3>1
  <2>2. <<>> \in Seq(N)
    OBVIOUS
  <2> QED
    BY <2>1, <2>2 DEF VisitCalls
<1>2. v.list = reg.order /\ v.visiting = {} /\ v.order = <<>>
  OBVIOUS
<1>3. StartOrder(reg) = Visits(reg)[v]
  BY DEF StartOrder
<1> HIDE DEF v
<1>4. VisitIsSound(reg, v)
  BY <1>2 DEF VisitIsSound, Once, Placed, LeadTo
<1>5. Extends(reg, v, StartOrder(reg)) /\ StartOrder(reg) \in Seq(N)
  BY <1>1, <1>3, <1>4, VisitsPlace, VisitsUnfold
<1>6. \A m \in N : Occurs(reg.order, m)
  BY ToSetOccurs DEF IsRegistration, Names
<1> QED
  BY <1>2, <1>5, <1>6 DEF Extends

-----------------------------------------------------------------------------
(* The gate, for every allowlist, every tool and whatever the patterns find. *)

\* A call that nothing was found in, of a tool without effects, is the only one
\* that is safe.
LEMMA SafeIsEarned ==
    ASSUME NEW safeTools, NEW call \in ProposedCalls, Classify(safeTools, call) = "safe"
    PROVE  /\ call.tool \in safeTools \ EffectTools
           /\ call.finds = {} /\ ~call.malformed
<1>1. call.finds \subseteq Finds /\ call.malformed \in BOOLEAN
  BY DEF ProposedCalls
<1>2. /\ ~call.malformed /\ "catastrophic" \notin call.finds
      /\ "unexpandable" \notin call.finds
      /\ ~BlockedRules(call) /\ ~ConfirmRules(call) /\ call.tool \in safeTools
  BY DEF Classify
<1>3. call.tool \notin EffectTools
  BY <1>2 DEF ConfirmRules, EffectTools
<1>4. \A f \in Finds : f \notin call.finds
  BY <1>2 DEF Finds, BlockedRules, ConfirmRules
<1> QED
  BY <1>1, <1>2, <1>3, <1>4

\* gate.py:258-287: the gate is strict, for any allowlist, call and findings.
THEOREM TheGateIsStrict ==
    ASSUME NEW safeTools, NEW call \in ProposedCalls, NEW more \in SUBSET Finds
    PROVE  GateIsStrict(safeTools, call, more)
<1> DEFINE verdict == Classify(safeTools, call)
           worse == [call EXCEPT !.finds = @ \cup more]
<1>1. /\ worse.tool = call.tool /\ worse.malformed = call.malformed
      /\ worse.finds = call.finds \cup more
  BY DEF ProposedCalls
<1> HIDE DEF worse
<1>2. \A c : Classify(safeTools, c) \in {"safe", "needs_confirmation", "blocked"}
  BY DEF Classify
<1>3. /\ Severity("safe") = 0 /\ Severity("needs_confirmation") = 1 /\ Severity("blocked") = 2
  BY DEF Severity
<1>4. ASSUME "unexpandable" \notin worse.finds
      PROVE  Severity(Classify(safeTools, worse)) >= Severity(verdict)
  <2>1. verdict = "blocked" => Classify(safeTools, worse) = "blocked"
    <3>1. BlockedRules(call) => BlockedRules(worse)
      BY <1>1 DEF BlockedRules
    <3> QED
      BY <1>1, <1>4, <3>1 DEF Classify
  <2>2. verdict = "needs_confirmation" => Classify(safeTools, worse) # "safe"
    <3>1. ConfirmRules(call) => ConfirmRules(worse)
      BY <1>1 DEF ConfirmRules
    <3> QED
      BY <1>1, <1>4, <3>1 DEF Classify
  <2> HIDE DEF verdict
  <2>3. verdict \in {"safe", "needs_confirmation", "blocked"}
    BY <1>2 DEF verdict
  <2> QED
    BY <1>2, <1>3, <2>1, <2>2, <2>3
<1>5. "catastrophic" \in call.finds => verdict = "blocked"
  BY DEF Classify
<1>6. verdict = "blocked" <=> Classify({}, call) = "blocked"
  BY DEF Classify
<1>7. verdict = "safe" => /\ call.tool \in safeTools \ EffectTools
                          /\ call.finds = {} /\ ~call.malformed
  BY SafeIsEarned
<1> QED
  BY <1>4, <1>5, <1>6, <1>7 DEF GateIsStrict, worse

-----------------------------------------------------------------------------
(* The names of MCP tools, of any length.                                  *)

\* What stands where in a registered name.
LEMMA NameIs ==
    ASSUME NEW C, "underscore" \in C, NEW server \in Seq(C), NEW tool \in Seq(C)
    PROVE  /\ Namespace(server, tool) \in Seq(C)
           /\ Len(server) \in Nat /\ Len(tool) \in Nat
           /\ Len(Namespace(server, tool)) = Len(server) + 2 + Len(tool)
           /\ \A i \in 1 .. Len(server) : Namespace(server, tool)[i] = server[i]
           /\ Namespace(server, tool)[Len(server) + 1] = "underscore"
           /\ Namespace(server, tool)[Len(server) + 2] = "underscore"
           /\ \A i \in 1 .. Len(tool) :
                 Namespace(server, tool)[Len(server) + 2 + i] = tool[i]
<1> DEFINE u == <<"underscore", "underscore">>
           s == server \o u
           name == s \o tool
           n == Len(server)
           t == Len(tool)
<1>1. u \in Seq(C) /\ Len(u) = 2 /\ u[1] = "underscore" /\ u[2] = "underscore"
  OBVIOUS
<1>2. Namespace(server, tool) = name
  BY DEF Namespace
<1>3. n \in Nat /\ t \in Nat
  OBVIOUS
<1> HIDE DEF u
<1>4. /\ s \in Seq(C) /\ Len(s) = n + 2
      /\ \A i \in 1 .. n + 2 : s[i] = IF i <= n THEN server[i] ELSE u[i - n]
  <2>1. /\ s \in Seq(C) /\ Len(s) = n + Len(u)
        /\ \A i \in 1 .. n + Len(u) : s[i] = IF i <= n THEN server[i] ELSE u[i - n]
    BY <1>1, ConcatProperties
  <2> HIDE DEF s, n
  <2> QED
    BY <1>1, <2>1
<1> HIDE DEF s
<1>5. /\ name \in Seq(C) /\ Len(name) = n + 2 + t
      /\ \A i \in 1 .. n + 2 + t : name[i] = IF i <= n + 2 THEN s[i] ELSE tool[i - (n + 2)]
  <2>1. /\ name \in Seq(C) /\ Len(name) = Len(s) + t
        /\ \A i \in 1 .. Len(s) + t : name[i] = IF i <= Len(s) THEN s[i] ELSE tool[i - Len(s)]
    <3>1. s \in Seq(C)
      BY <1>4
    <3> QED
      BY ONLY <3>1, tool \in Seq(C), ConcatProperties DEF name, t
  <2> HIDE DEF name, n, t
  <2> QED
    BY <1>4, <2>1
<1> HIDE DEF name, n, t
<1>6. \A i \in 1 .. n : name[i] = server[i]
  BY <1>3, <1>4, <1>5
<1>7. name[n + 1] = "underscore" /\ name[n + 2] = "underscore"
  <2>1. ASSUME NEW k, NEW i \in 1 .. 2, k = n + i
        PROVE  name[k] = u[i]
    <3>1. k \in 1 .. n + 2 /\ k \in 1 .. n + 2 + t /\ ~(k <= n) /\ k <= n + 2 /\ k - n = i
      BY ONLY <1>3, <2>1, i \in 1 .. 2
    <3> QED
      BY <1>4, <1>5, <3>1
  <2> QED
    BY <1>1, <2>1
<1>8. ASSUME NEW i \in 1 .. t
      PROVE  name[n + 2 + i] = tool[i]
  <2>1. ASSUME NEW k, k = n + 2 + i
        PROVE  name[k] = tool[i]
    <3>1. k \in 1 .. n + 2 + t /\ ~(k <= n + 2) /\ k - (n + 2) = i
      BY ONLY <1>3, <2>1, i \in 1 .. t
    <3> QED
      BY <1>5, <3>1
  <2> QED
    BY <2>1
<1> QED
  BY <1>2, <1>3, <1>5, <1>6, <1>7, <1>8 DEF name, n, t

\* The part of a registered name before the separator is the server's, the part
\* after it the tool's.
LEMMA NameSplits ==
    ASSUME NEW C, "underscore" \in C, NEW server \in Seq(C), NEW tool \in Seq(C)
    PROVE  LET name == Namespace(server, tool)
               n == Len(server)
           IN  /\ SubSeq(name, 1, n) = server
               /\ SubSeq(name, n + 3, Len(name)) = tool
<1> DEFINE name == Namespace(server, tool)
           n == Len(server)
           left == SubSeq(name, 1, n)
           right == SubSeq(name, n + 3, Len(name))
<1>1. /\ name \in Seq(C) /\ n \in Nat /\ Len(tool) \in Nat
      /\ Len(name) = n + 2 + Len(tool)
      /\ \A i \in 1 .. n : name[i] = server[i]
      /\ \A i \in 1 .. Len(tool) : name[n + 2 + i] = tool[i]
  <2>1. name \in Seq(C)
    BY NameIs
  <2>2. n \in Nat /\ Len(tool) \in Nat
    BY NameIs
  <2>3. Len(name) = n + 2 + Len(tool)
    BY NameIs
  <2>4. \A i \in 1 .. n : name[i] = server[i]
    BY NameIs
  <2>5. \A i \in 1 .. Len(tool) : name[n + 2 + i] = tool[i]
    BY NameIs
  <2> QED
    BY <2>1, <2>2, <2>3, <2>4, <2>5
<1> HIDE DEF name, n
<1>3. left = server
  <2>1. /\ left \in Seq(C) /\ Len(left) = n /\ \A i \in 1 .. n : left[i] = name[i]
    BY <1>1
  <2> HIDE DEF left
  <2> QED
    BY <1>1, <2>1, SeqEqual DEF n
<1>4. right = tool
  <2>1. ASSUME NEW m \in Nat, m = n + 3, NEW k \in Nat, k = Len(name), NEW t \in Nat,
               t = Len(tool), k = n + 2 + t
        PROVE  /\ right \in Seq(C) /\ Len(right) = t
               /\ \A i \in 1 .. t : right[i] = tool[i]
    <3> DEFINE part == SubSeq(name, m, k)
    <3> n \in Nat
      BY <1>1
    <3>1. \A i \in m .. k : i \in 1 .. k
      BY ONLY n \in Nat, <2>1
    <3>2. \A i \in m .. k : name[i] \in C
      BY <1>1, <2>1, <3>1
    <3>3. /\ part \in Seq(C) /\ Len(part) = IF m <= k THEN k - m + 1 ELSE 0
          /\ \A i \in 1 .. k - m + 1 : part[i] = name[m + i - 1]
      BY <3>2, SubSeqProperties
    <3>4. right = part
      BY <2>1
    <3> HIDE DEF part, right
    <3>5. (IF m <= k THEN k - m + 1 ELSE 0) = t /\ k - m + 1 = t
      BY ONLY <1>1, <2>1
    <3>6. \A i \in 1 .. t : m + i - 1 = n + 2 + i
      BY ONLY <1>1, <2>1
    <3>7. \A i \in 1 .. t : name[n + 2 + i] = tool[i]
      BY <1>1, <2>1
    <3> QED
      BY <3>3, <3>4, <3>5, <3>6, <3>7
  <2>2. n + 3 \in Nat /\ Len(name) \in Nat /\ Len(tool) \in Nat
    BY <1>1
  <2> HIDE DEF right
  <2> QED
    BY <1>1, <2>1, <2>2, SeqEqual
<1> QED
  BY <1>3, <1>4 DEF name, n

\* Nowhere else can a name be read as another server's or another tool's: the
\* separator does not begin earlier, for then a tool would begin with an
\* underscore or the server hold a separator, nor later.
LEMMA OneReading ==
    ASSUME NEW C, "underscore" \in C, NEW server \in Seq(C), NEW tool \in Seq(C),
           NameComponent(server), NameComponent(tool)
    PROVE  Readings(Namespace(server, tool)) = {Len(server) + 1}
<1> DEFINE name == Namespace(server, tool)
           n == Len(server)
           t == Len(tool)
<1>1. /\ name \in Seq(C) /\ n \in Nat /\ t \in Nat /\ Len(name) = n + 2 + t
      /\ \A i \in 1 .. n : name[i] = server[i]
      /\ name[n + 1] = "underscore" /\ name[n + 2] = "underscore"
      /\ \A i \in 1 .. t : name[n + 2 + i] = tool[i]
  <2>1. name \in Seq(C)
    BY NameIs
  <2>2. n \in Nat /\ t \in Nat
    BY NameIs
  <2>3. Len(name) = n + 2 + t
    BY NameIs
  <2>4. \A i \in 1 .. n : name[i] = server[i]
    BY NameIs
  <2>5. name[n + 1] = "underscore"
    BY NameIs
  <2>6. name[n + 2] = "underscore"
    BY NameIs
  <2>7. \A i \in 1 .. t : name[n + 2 + i] = tool[i]
    BY NameIs
  <2> QED
    BY <2>1, <2>2, <2>3, <2>4, <2>5, <2>6, <2>7
<1>2. SubSeq(name, 1, n) = server /\ SubSeq(name, n + 3, Len(name)) = tool
  BY NameSplits
<1>3. /\ t > 0 /\ tool[1] = "letter"
      /\ \A i \in 1 .. n - 1 : ~(server[i] = "underscore" /\ server[i + 1] = "underscore")
      /\ \A i \in 1 .. t - 1 : ~(tool[i] = "underscore" /\ tool[i + 1] = "underscore")
  <2>1. \A text \in Seq(C) : NameComponent(text) =>
           /\ text # <<>> /\ text[1] = "letter"
           /\ \A i \in DOMAIN text : ~SeparatorAt(text, i)
    BY DEF NameComponent, HasSeparator
  <2>2. \A text \in Seq(C) : DOMAIN text = 1 .. Len(text) /\ Len(text) \in Nat
    OBVIOUS
  <2>3. tool # <<>> => t > 0
    OBVIOUS
  <2>4. ASSUME NEW text \in Seq(C), NameComponent(text), NEW i \in 1 .. Len(text) - 1
        PROVE  ~(text[i] = "underscore" /\ text[i + 1] = "underscore")
    <3>1. i \in DOMAIN text /\ i + 1 <= Len(text)
      BY <2>2
    <3> QED
      BY <2>1, <2>4, <3>1 DEF SeparatorAt
  <2> QED
    BY <2>1, <2>3, <2>4
<1> HIDE DEF name, n, t
<1>4. DOMAIN name = 1 .. Len(name)
  BY <1>1
<1>5. n + 1 \in Readings(name)
  <2>1. /\ n + 1 \in DOMAIN name /\ SeparatorAt(name, n + 1)
    BY <1>1, <1>3, <1>4 DEF SeparatorAt
  <2>2. (n + 1) - 1 = n /\ (n + 1) + 2 = n + 3
    BY <1>1
  <2> QED
    BY <1>2, <2>1, <2>2 DEF Readings
<1>6. ASSUME NEW i \in Readings(name), i # n + 1
      PROVE  FALSE
  <2>1. /\ i \in 1 .. Len(name) /\ i + 1 <= Len(name)
        /\ name[i] = "underscore" /\ name[i + 1] = "underscore"
        /\ NameComponent(SubSeq(name, i + 2, Len(name)))
    BY <1>4 DEF Readings, SeparatorAt
  <2>2. CASE i < n
    <3>1. i \in 1 .. n - 1 /\ i \in 1 .. n /\ i + 1 \in 1 .. n
      BY <1>1, <2>1, <2>2
    <3> QED
      BY <1>1, <1>3, <2>1, <3>1
  <2>3. CASE i = n
    <3> DEFINE rest == SubSeq(name, n + 2, Len(name))
    <3>1. rest[1] = name[n + 2]
      BY <1>1
    <3>2. NameComponent(rest)
      BY <2>1, <2>3
    <3> HIDE DEF rest
    <3> QED
      BY <1>1, <3>1, <3>2 DEF NameComponent
  <2>4. CASE i = n + 2
    <3>1. 1 \in 1 .. t /\ i + 1 = n + 2 + 1
      BY <1>1, <1>3, <2>4
    <3> QED
      BY <1>1, <1>3, <2>1, <3>1
  <2>5. CASE i > n + 2
    <3> DEFINE j == i - (n + 2)
    <3>1. /\ j \in 1 .. t - 1 /\ j \in 1 .. t /\ j + 1 \in 1 .. t
          /\ i = n + 2 + j /\ i + 1 = n + 2 + (j + 1)
      BY <1>1, <2>1, <2>5
    <3> HIDE DEF j
    <3>2. tool[j] = "underscore" /\ tool[j + 1] = "underscore"
      BY <1>1, <2>1, <3>1
    <3> QED
      BY <1>3, <3>1, <3>2
  <2> QED
    BY <1>1, <1>6, <2>1, <2>2, <2>3, <2>4, <2>5
<1> QED
  BY <1>5, <1>6 DEF name, n

\* mcp/policy.py:127-178 with 250-278: every tool of an accepted server is called
\* under a name with one reading, for names of any length.
THEOREM NamesAreAlwaysKept ==
    ASSUME NEW C, "underscore" \in C, NEW server \in Seq(C), NEW tool \in Seq(C)
    PROVE  NamesAreKept(server, tool)
<1> DEFINE listed == Pinned(server, {tool})
<1> SUFFICES ASSUME NameComponent(server), NEW name \in DOMAIN listed
             PROVE  listed[name] = tool /\ Readings(name) = {Len(server) + 1}
  BY DEF NamesAreKept
<1>1. /\ name = Namespace(server, tool) /\ NameComponent(tool)
      /\ listed[name] = SubSeq(name, Len(server) + 3, Len(name))
  BY DEF Pinned
<1> HIDE DEF listed
<1> QED
  BY <1>1, NameSplits, OneReading

-----------------------------------------------------------------------------
(* The settings, for all numbers.                                          *)

\* A fraction below one of a positive length is shorter than it.
LEMMA OverlapIsShorter ==
    ASSUME NEW chars \in Int, NEW ratio \in 0 .. 99, chars > 0
    PROVE  (chars * ratio) \div 100 >= 0 /\ (chars * ratio) \div 100 < chars
<1>1. chars * ratio \in Int /\ chars * ratio >= 0
  OBVIOUS
<1>2. chars * ratio <= chars * 99
  OBVIOUS
<1> DEFINE p == chars * ratio
<1>3. p \in Int /\ p >= 0 /\ p < chars * 100
  BY <1>1, <1>2
<1> HIDE DEF p
<1>4. p \div 100 >= 0 /\ p \div 100 < chars
  BY <1>3
<1> QED
  BY <1>4 DEF p

\* config.py:228-423: what the validators accept suits the components, for all
\* settings.
THEOREM AcceptedSettingsSuit ==
    ASSUME NEW s \in AllSettings
    PROVE  SettingsSuitConsumers(s)
<1> SUFFICES ASSUME Accepted(s)
             PROVE  /\ BuildErrors(s) \subseteq {"documents"}
                    /\ "documents" \in BuildErrors(s) =>
                         (s.num.ctx_size - s.num.docqa_prompt_reserve_tokens)
                           * s.num.docqa_chars_per_token < Hundred
                    /\ BuildErrors(s) = {} => RequestErrors(s) \subseteq {"task"}
                    /\ "task" \in RequestErrors(s) => s.num.agent_deadline_seconds # Unset
  BY DEF SettingsSuitConsumers
<1>1. \A f \in Positive : s.num[f] > 0
  BY DEF Accepted
<1>0. \A f \in Positive \cup NonNegative : s.num[f] \in Int
  <2>1. "agent_deadline_seconds" \notin Positive \cup NonNegative
    BY DEF Positive, NonNegative
  <2> QED
    BY <2>1 DEF AllSettings, Numbers
<1>2. \A f \in NonNegative : ~(s.num[f] < 0)
  BY <1>0 DEF Accepted
<1>3. \A f \in Positive : ~(s.num[f] <= 0)
  BY <1>0, <1>1
<1>4. s.num.docqa_chunk_overlap_ratio \in 0 .. 99
  BY DEF Accepted, Hundred
<1> DEFINE ctx == s.num.ctx_size
           reserve == s.num.docqa_prompt_reserve_tokens
           each == s.num.docqa_chars_per_token
           chars == ChunkChars(s)
<1>5. /\ ctx \in Int /\ reserve \in Int /\ each \in Int
      /\ ctx > 0 /\ reserve >= 0 /\ each > 0
  BY <1>1, <1>2 DEF AllSettings, Numbers, Positive, NonNegative
<1>6. chars = ((ctx - reserve) * each) \div 100 /\ chars \in Int
  BY <1>5 DEF ChunkChars, Hundred
<1> HIDE DEF ctx, reserve, each, chars
<1>7. DeriveFails(s) => (ctx - reserve) * each < 100
  <2> DEFINE p == (ctx - reserve) * each
  <2>1. p \in Int
    BY <1>5
  <2>2. ctx <= reserve => p <= 0
    <3>1. ASSUME NEW d \in Int, d <= 0
          PROVE  d * each <= 0
      BY <1>5, <3>1
    <3>2. ctx <= reserve => ctx - reserve <= 0 /\ ctx - reserve \in Int
      BY <1>5
    <3> QED
      BY <3>1, <3>2
  <2>3. chars = p \div 100
    BY <1>6
  <2>4. DeriveFails(s) => ctx <= reserve \/ chars <= 0
    BY <1>5 DEF DeriveFails, ctx, reserve, each, chars
  <2> HIDE DEF p
  <2>5. chars <= 0 => p < 100
    BY <2>1, <2>3
  <2>6. p <= 0 => p < 100
    BY <2>1
  <2> QED
    BY <2>2, <2>4, <2>5, <2>6 DEF p
<1>8. ~DeriveFails(s) => chars > 0
  BY <1>6 DEF DeriveFails, chars
<1>9. ASSUME NEW n \in Int, n > 0
      PROVE  ~SplitFails(s, n)
  <2>1. /\ Overlap(s, n) \in Int /\ Overlap(s, n) >= 0 /\ Overlap(s, n) < n
    BY <1>4, <1>9, OverlapIsShorter DEF Overlap, Hundred
  <2>2. ~(s.num.docqa_max_chunks <= 0)
    BY <1>3 DEF Positive
  <2> HIDE DEF Overlap
  <2> QED
    BY <1>4, <1>9, <2>1, <2>2 DEF SplitFails, OverlapFails, Hundred
<1>10. BuildErrors(s) \subseteq {"documents"}
  BY <1>1, <1>2, <1>3 DEF BuildErrors, AllPositive, Positive, NonNegative
<1>11. "documents" \in BuildErrors(s) <=> DeriveFails(s)
  BY DEF BuildErrors
<1>12. s.num.docqa_qa_chunk_chars \in Int /\ s.num.docqa_qa_chunk_chars > 0
  BY <1>1 DEF AllSettings, Numbers, Positive
<1>13. "answer" \notin RequestErrors(s)
  BY <1>1, <1>9, <1>12 DEF RequestErrors, AllPositive, Positive
<1>14. ~DeriveFails(s) => "summary" \notin RequestErrors(s)
  BY <1>1, <1>6, <1>8, <1>9 DEF RequestErrors, AllPositive, Positive, chars
<1>15. RequestErrors(s) \subseteq {"task", "summary", "answer"}
  BY DEF RequestErrors
<1>16. "task" \in RequestErrors(s) => s.num.agent_deadline_seconds # Unset
  BY <1>2, <1>3 DEF RequestErrors, Positive, NonNegative
<1> QED
  BY <1>7, <1>10, <1>11, <1>13, <1>14, <1>15, <1>16 DEF ctx, reserve, each, Hundred

-----------------------------------------------------------------------------
(* The gateway, for all settings, credentials, tokens and scopes.          *)

\* What a route answers before its handler, from what authentication came to.
LEMMA AdmissionIs ==
    ASSUME NEW settings, NEW cred, NEW route
    PROVE  LET n == Need(route)
               p == Authenticate(settings, cred.key, IF n = "key" THEN NoToken ELSE cred.bearer)
               status == Admission(settings, cred, route)
           IN  /\ n = "nothing" => status = 200
               /\ n # "nothing" /\ p.outcome = "failed" => status = 500
               /\ n # "nothing" /\ p.outcome = "refused" => status = 401
               /\ n # "nothing" /\ p.outcome = "principal" =>
                    status = IF n \in {"key", "principal"} \/ HasScope(p, n) THEN 200 ELSE 403
<1> DEFINE n == Need(route)
           p == Authenticate(settings, cred.key, IF n = "key" THEN NoToken ELSE cred.bearer)
           known == Authenticate(settings, cred.key, NoToken)
           full == Authenticate(settings, cred.key, cred.bearer)
<1>1. Admission(settings, cred, route) =
        CASE n = "nothing" -> 200
          [] n = "key"     -> Admitted(known, "principal")
          [] OTHER         -> Admitted(full, n)
  BY DEF Admission
<1>2. p = IF n = "key" THEN known ELSE full
  OBVIOUS
<1> HIDE DEF n, p, known, full
<1>3. CASE n = "nothing"
  BY <1>1, <1>3 DEF n, p
<1>4. CASE n = "key"
  <2>1. Admission(settings, cred, route) = Admitted(p, "principal")
    BY <1>1, <1>2, <1>4
  <2> QED
    BY <2>1, <1>4 DEF Admitted, n, p
<1>5. CASE n \notin {"nothing", "key"}
  <2>1. Admission(settings, cred, route) = Admitted(p, n)
    BY <1>1, <1>2, <1>5
  <2> QED
    BY <2>1, <1>5 DEF Admitted, n, p
<1> QED
  BY <1>3, <1>4, <1>5

LEMMA ViewsNeed == \A view \in Views : Need(view) = "principal"
<1> SUFFICES ASSUME NEW view, view \in Views
             PROVE  Need(view) = "principal"
  OBVIOUS
<1>1. view \notin {"GET /health", "POST /auth/token", "POST /ingest"}
  BY DEF Views
<1>2. view \notin AdminRoutes
  BY DEF Views, AdminRoutes
<1> QED
  BY <1>1, <1>2 DEF Need

\* So does what any principal may see.
LEMMA ViewAdmission ==
    ASSUME NEW settings, NEW cred, NEW route \in Views
    PROVE  LET p == Authenticate(settings, cred.key, cred.bearer)
               status == Admission(settings, cred, route)
           IN  /\ p.outcome = "failed" => status = 500
               /\ p.outcome = "refused" => status = 401
               /\ p.outcome = "principal" => status = 200
<1> DEFINE n == Need(route)
           p == Authenticate(settings, cred.key, cred.bearer)
           q == Authenticate(settings, cred.key, IF n = "key" THEN NoToken ELSE cred.bearer)
           status == Admission(settings, cred, route)
<1>1. n = "principal"
  BY ViewsNeed
<1>2. q = p
  BY <1>1
<1>3. /\ n # "nothing" /\ q.outcome = "failed" => status = 500
      /\ n # "nothing" /\ q.outcome = "refused" => status = 401
      /\ n # "nothing" /\ q.outcome = "principal" =>
           status = IF n \in {"key", "principal"} \/ HasScope(q, n) THEN 200 ELSE 403
  BY AdmissionIs
<1> HIDE DEF n, p, q, status
<1> QED
  BY <1>1, <1>2, <1>3 DEF p, status

\* Whom a key and a token make: everyone may do anything when no credentials are
\* asked for or the key is right, nobody passes with a key that cannot be
\* compared, and otherwise a token may do what its scopes say.
LEMMA AuthenticatedIs ==
    ASSUME NEW settings, NEW key, NEW bearer
    PROVE  LET p == Authenticate(settings, key, bearer)
               open == ~settings.enabled \/ ApiKey(settings, key) = "yes"
               broken == settings.enabled /\ ApiKey(settings, key) = "raises"
           IN  /\ p.outcome \in {"principal", "refused", "failed"}
               /\ p.outcome = "failed" <=> broken
               /\ p.outcome = "principal" <=> open \/ (~broken /\ Decodes(settings, bearer))
               /\ ~(open /\ broken)
               /\ open => \A scope : HasScope(p, scope)
               /\ ~open /\ ~broken /\ Decodes(settings, bearer) =>
                    \A scope : HasScope(p, scope) <=> {"*", scope} \cap bearer.scopes # {}
               /\ p.outcome # "principal" => \A scope : ~HasScope(p, scope)
<1> DEFINE p == Authenticate(settings, key, bearer)
           open == ~settings.enabled \/ ApiKey(settings, key) = "yes"
           broken == settings.enabled /\ ApiKey(settings, key) = "raises"
<1>1. open => p = Principal({"*"})
  BY DEF Authenticate
<1>2. broken => p = Failure
  BY DEF Authenticate
<1>3. ~open /\ ~broken => p = FromToken(settings, bearer)
  BY DEF Authenticate
<1>4. ~(open /\ broken)
  OBVIOUS
<1>5. FromToken(settings, bearer) =
        IF Decodes(settings, bearer) THEN Principal(bearer.scopes) ELSE Refusal
  BY DEF FromToken
<1> HIDE DEF p, open, broken
<1>6. \A scopes : /\ Principal(scopes).outcome = "principal"
                  /\ \A scope : HasScope(Principal(scopes), scope)
                                  <=> {"*", scope} \cap scopes # {}
  BY DEF Principal, HasScope
<1>7. /\ Refusal.outcome = "refused" /\ Failure.outcome = "failed"
      /\ \A scope : ~HasScope(Refusal, scope) /\ ~HasScope(Failure, scope)
  BY DEF Refusal, Failure, HasScope
<1>8. \A scope : {"*", scope} \cap {"*"} # {}
  OBVIOUS
<1>9. CASE open
  BY <1>1, <1>4, <1>6, <1>8, <1>9 DEF p, open, broken
<1>10. CASE broken
  BY <1>2, <1>4, <1>7, <1>10 DEF p, open, broken
<1>11. CASE ~open /\ ~broken /\ Decodes(settings, bearer)
  BY <1>3, <1>5, <1>6, <1>11 DEF p, open, broken
<1>12. CASE ~open /\ ~broken /\ ~Decodes(settings, bearer)
  BY <1>3, <1>5, <1>7, <1>12 DEF p, open, broken
<1> QED
  BY <1>9, <1>10, <1>11, <1>12

LEMMA NeedIs ==
    ASSUME NEW route
    PROVE  Need(route) \in {"nothing", "key", "principal", "model:admin", "ingest", "invoke"}
BY DEF Need

\* auth.py:74-146, gateway.py:157-166: credentials and transports agree, a key
\* that cannot be compared failing them all.
THEOREM CredentialsAlwaysAgree ==
    ASSUME NEW scopes, ScopesUsed \subseteq scopes, NoToken \notin AllTokens(scopes),
           NEW settings \in GatewaySettings, NEW cred \in Credentials(scopes),
           NEW route \in Routes, NEW minutes \in Int
    PROVE  CredentialsAgree(settings, cred, route, minutes)
<1> DEFINE status(c) == Admission(settings, c, route)
           only(key, bearer) == [key |-> key, bearer |-> bearer, query |-> NoToken]
           n == Need(route)
           open(key) == ~settings.enabled \/ ApiKey(settings, key) = "yes"
           broken(key) == settings.enabled /\ ApiKey(settings, key) = "raises"
           used(c) == IF n = "key" THEN NoToken ELSE c.bearer
           auth(key, bearer) == Authenticate(settings, key, bearer)
           minted == Mint(IF n \in {"key", "principal"} THEN {} ELSE {n}, minutes)
           bearer == IF cred.query # NoToken THEN cred.query ELSE cred.bearer
           socket == [cred EXCEPT !.bearer = IF cred.query = NoToken THEN @ ELSE cred.query,
                                  !.query = NoToken]
           ws == Handshake(settings, cred)
           tools == Admission(settings, socket, "GET /tools")
<1>1. \A key, b : only(key, b).key = key /\ only(key, b).bearer = b
  OBVIOUS
<1>2. socket.key = cred.key /\ socket.bearer = bearer
  BY DEF Credentials
<1>3. \A c : /\ n = "nothing" => status(c) = 200
             /\ n # "nothing" /\ auth(c.key, used(c)).outcome = "failed" => status(c) = 500
             /\ n # "nothing" /\ auth(c.key, used(c)).outcome = "refused" => status(c) = 401
             /\ n # "nothing" /\ auth(c.key, used(c)).outcome = "principal" =>
                  status(c) = IF n \in {"key", "principal"} \/ HasScope(auth(c.key, used(c)), n)
                              THEN 200 ELSE 403
  BY AdmissionIs
<1>4. \A key, b :
         /\ auth(key, b).outcome \in {"principal", "refused", "failed"}
         /\ auth(key, b).outcome = "failed" <=> broken(key)
         /\ auth(key, b).outcome = "principal"
              <=> open(key) \/ (~broken(key) /\ Decodes(settings, b))
         /\ ~(open(key) /\ broken(key))
         /\ open(key) => \A scope : HasScope(auth(key, b), scope)
         /\ ~open(key) /\ ~broken(key) /\ Decodes(settings, b) =>
              \A scope : HasScope(auth(key, b), scope) <=> {"*", scope} \cap b.scopes # {}
         /\ auth(key, b).outcome # "principal" => \A scope : ~HasScope(auth(key, b), scope)
  BY AuthenticatedIs
<1>5. /\ ~Decodes(settings, NoToken) /\ (settings.enabled => ~open("none"))
      /\ ~broken("none")
      /\ ~settings.enabled => \A key : open(key)
  BY DEF Decodes, ApiKey
<1> HIDE DEF only, status, n, auth, used
<1>6. \A c : /\ status(c) = 500 <=> n # "nothing" /\ broken(c.key)
             /\ status(c) = 200 <=>
                  \/ n = "nothing" \/ open(c.key)
                  \/ /\ ~broken(c.key) /\ Decodes(settings, used(c))
                     /\ n \in {"key", "principal"} \/ {"*", n} \cap used(c).scopes # {}
             /\ n # "nothing" /\ ~open(c.key) /\ ~broken(c.key) /\ ~Decodes(settings, used(c)) =>
                  status(c) = 401
  <2> HIDE DEF open, broken
  <2> TAKE c
  <2> DEFINE p == auth(c.key, used(c))
  <2>1. /\ p.outcome \in {"principal", "refused", "failed"}
        /\ p.outcome = "failed" <=> broken(c.key)
        /\ p.outcome = "principal" <=> open(c.key) \/ (~broken(c.key) /\ Decodes(settings, used(c)))
        /\ ~(open(c.key) /\ broken(c.key))
        /\ open(c.key) => HasScope(p, n)
        /\ ~open(c.key) /\ ~broken(c.key) /\ Decodes(settings, used(c)) =>
              (HasScope(p, n) <=> {"*", n} \cap used(c).scopes # {})
    BY <1>4
  <2>2. /\ n = "nothing" => status(c) = 200
        /\ n # "nothing" /\ p.outcome = "failed" => status(c) = 500
        /\ n # "nothing" /\ p.outcome = "refused" => status(c) = 401
        /\ n # "nothing" /\ p.outcome = "principal" =>
             status(c) = IF n \in {"key", "principal"} \/ HasScope(p, n) THEN 200 ELSE 403
    BY <1>3
  <2> HIDE DEF p
  <2> DEFINE o == open(c.key)
             x == broken(c.key)
             d == Decodes(settings, used(c))
             h == HasScope(p, n)
             m == {"*", n} \cap used(c).scopes # {}
  <2> HIDE DEF o, x, d, h, m
  <2>3. CASE p.outcome = "failed"
    BY <2>1, <2>2, <2>3
  <2>4. CASE p.outcome = "refused"
    BY <2>1, <2>2, <2>4
  <2>5. CASE p.outcome = "principal"
    BY <2>1, <2>2, <2>5
  <2> QED
    BY <2>1, <2>3, <2>4, <2>5
<1>7. /\ used(only(cred.key, NoToken)) = NoToken
      /\ n = "key" => used(only("none", cred.bearer)) = NoToken /\ used(cred) = NoToken
      /\ n # "key" => used(only("none", cred.bearer)) = cred.bearer /\ used(cred) = cred.bearer
  BY <1>1 DEF used
<1>8. status(cred) = 200 <=>
        \/ status(only(cred.key, NoToken)) = 200
        \/ status(only("none", cred.bearer)) = 200 /\ status(only(cred.key, NoToken)) # 500
  <2> HIDE DEF open, broken
  <2> DEFINE k == only(cred.key, NoToken)
             t == only("none", cred.bearer)
  <2>1. status(k) = 200 <=> n = "nothing" \/ open(cred.key)
    BY <1>1, <1>5, <1>6, <1>7
  <2>2. status(k) = 500 <=> n # "nothing" /\ broken(cred.key)
    BY <1>1, <1>6
  <2>3. status(t) = 200 <=>
          \/ n = "nothing" \/ open("none")
          \/ /\ Decodes(settings, used(cred))
             /\ n \in {"key", "principal"} \/ {"*", n} \cap used(cred).scopes # {}
    BY <1>1, <1>5, <1>6, <1>7
  <2>4. open("none") => open(cred.key)
    BY <1>5
  <2>5. status(cred) = 200 <=>
          \/ n = "nothing" \/ open(cred.key)
          \/ /\ ~broken(cred.key) /\ Decodes(settings, used(cred))
             /\ n \in {"key", "principal"} \/ {"*", n} \cap used(cred).scopes # {}
    BY <1>6
  <2> HIDE DEF k, t
  <2>6. status(cred) = 200 <=> status(k) = 200 \/ (status(t) = 200 /\ status(k) # 500)
    BY <2>1, <2>2, <2>3, <2>4, <2>5
  <2> QED
    BY <2>6 DEF k, t
<1>9. status(cred) = 500 <=> status(only(cred.key, NoToken)) = 500
  BY <1>1, <1>6
<1>10. status(only(cred.key, NoToken)) = 500 =>
         settings.enabled /\ n # "nothing" /\ "odd" \in {settings.key, cred.key}
  <2>1. broken(cred.key) => settings.enabled /\ "odd" \in {settings.key, cred.key}
    BY DEF ApiKey
  <2> HIDE DEF broken
  <2> QED
    BY <1>1, <1>6, <2>1
<1>11. AuthenticateWs(settings, cred) = auth(cred.key, bearer)
  BY DEF AuthenticateWs, auth
<1>12. ws = CASE auth(cred.key, bearer).outcome = "failed"  -> "failed"
              [] auth(cred.key, bearer).outcome = "refused" -> "closed"
              [] OTHER                                      -> "open"
  BY <1>11 DEF Handshake
<1>13. tools = CASE auth(cred.key, bearer).outcome = "failed"  -> 500
                 [] auth(cred.key, bearer).outcome = "refused" -> 401
                 [] OTHER                                      -> 200
  <2> HIDE DEF socket, bearer
  <2>2. auth(cred.key, bearer) = Authenticate(settings, socket.key, socket.bearer)
    BY <1>2 DEF auth
  <2>3. auth(cred.key, bearer).outcome \in {"principal", "refused", "failed"}
    BY <1>4
  <2> DEFINE p == Authenticate(settings, socket.key, socket.bearer)
  <2>4. /\ p.outcome = "failed" => tools = 500
        /\ p.outcome = "refused" => tools = 401
        /\ p.outcome = "principal" => tools = 200
    <3>1. \A r \in Views :
             /\ p.outcome = "failed" => Admission(settings, socket, r) = 500
             /\ p.outcome = "refused" => Admission(settings, socket, r) = 401
             /\ p.outcome = "principal" => Admission(settings, socket, r) = 200
      BY ViewAdmission
    <3> DEFINE r == "GET /tools"
    <3>2. r \in Views
      BY DEF Views
    <3> HIDE DEF p, r
    <3>3. /\ p.outcome = "failed" => Admission(settings, socket, r) = 500
          /\ p.outcome = "refused" => Admission(settings, socket, r) = 401
          /\ p.outcome = "principal" => Admission(settings, socket, r) = 200
      BY <3>1, <3>2
    <3> QED
      BY <3>3, Zenon DEF r
  <2> HIDE DEF tools, p
  <2> QED
    BY <2>2, <2>3, <2>4 DEF p
<1>14. <<ws, tools>> \in {<<"open", 200>>, <<"closed", 401>>, <<"failed", 500>>}
  <2>1. auth(cred.key, bearer).outcome \in {"principal", "refused", "failed"}
    BY <1>4
  <2> HIDE DEF ws, tools, bearer
  <2> QED
    BY <1>12, <1>13, <2>1
<1>15. WsRuns(settings, cred) => ws = "open"
  <2> HIDE DEF ws, bearer, open, broken
  <2>1. auth(cred.key, bearer).outcome # "principal" =>
          ~HasScope(auth(cred.key, bearer), "agent:run")
    BY <1>4
  <2>2. WsRuns(settings, cred) => HasScope(auth(cred.key, bearer), "agent:run")
    BY <1>11 DEF WsRuns
  <2>3. auth(cred.key, bearer).outcome = "principal" => ws = "open"
    BY <1>12
  <2> QED
    BY <2>1, <2>2, <2>3
<1>16. settings.enabled /\ settings.secret /\ n # "nothing" =>
         (status(only("none", minted)) = 200 <=> minutes > 0 /\ n # "key")
  <2> SUFFICES ASSUME settings.enabled, settings.secret, n # "nothing"
               PROVE  status(only("none", minted)) = 200 <=> minutes > 0 /\ n # "key"
    OBVIOUS
  <2>1. minted \in AllTokens(scopes)
    <3>1. n \in {"nothing", "key", "principal", "model:admin", "ingest", "invoke"}
      BY NeedIs DEF n
    <3>2. minted.scopes \subseteq scopes
      BY <3>1 DEF Mint, ScopesUsed
    <3>3. minted = [signed |-> TRUE, expired |-> minutes <= 0, scopes |-> minted.scopes]
      BY DEF Mint
    <3>4. (minutes <= 0) \in BOOLEAN
      OBVIOUS
    <3>5. \A e \in BOOLEAN, x \in SUBSET scopes :
             [signed |-> TRUE, expired |-> e, scopes |-> x] \in AllTokens(scopes)
      BY DEF AllTokens
    <3> HIDE DEF minted
    <3> QED
      BY <3>2, <3>3, <3>4, <3>5, Zenon
  <2>2. Decodes(settings, minted) <=> minutes > 0
    <3>1. minted.signed /\ (minted.expired <=> minutes <= 0)
      BY DEF Mint
    <3>2. minted # NoToken
      BY <2>1
    <3> HIDE DEF minted
    <3> QED
      BY <3>1, <3>2 DEF Decodes
  <2>3. n \notin {"key", "principal"} => n \in minted.scopes
    BY DEF Mint
  <2>4. used(only("none", minted)) = IF n = "key" THEN NoToken ELSE minted
    BY <1>1 DEF used
  <2> HIDE DEF minted, open, broken
  <2>5. status(only("none", minted)) = 200 <=>
          /\ Decodes(settings, used(only("none", minted)))
          /\ n \in {"key", "principal"} \/ {"*", n} \cap used(only("none", minted)).scopes # {}
    BY <1>1, <1>5, <1>6
  <2>6. CASE n = "key"
    BY <1>5, <2>4, <2>5, <2>6
  <2>7. CASE n # "key"
    BY <2>2, <2>3, <2>4, <2>5, <2>7
  <2> QED
    BY <2>6, <2>7
<1>17. settings.enabled /\ settings.key = "none" /\ ~settings.secret /\ n # "nothing" =>
         status(cred) = 401 /\ ws = "closed"
  <2> SUFFICES ASSUME settings.enabled, settings.key = "none", ~settings.secret, n # "nothing"
               PROVE  status(cred) = 401 /\ ws = "closed"
    OBVIOUS
  <2>1. \A key, b : ~open(key) /\ ~broken(key) /\ ~Decodes(settings, b)
    BY DEF Decodes, ApiKey
  <2> HIDE DEF open, broken, ws
  <2>2. status(cred) = 401
    BY <1>6, <2>1
  <2>3. auth(cred.key, bearer).outcome = "refused"
    BY <1>4, <2>1
  <2> QED
    BY <1>12, <2>2, <2>3
<1> DEFINE byKey == status(only(cred.key, NoToken))
           byToken == status(only("none", cred.bearer))
           guarded == settings.enabled /\ n # "nothing"
<1>18. /\ status(cred) = 200 <=> byKey = 200 \/ (byToken = 200 /\ byKey # 500)
       /\ status(cred) = 500 <=> byKey = 500
       /\ byKey = 500 => guarded /\ "odd" \in {settings.key, cred.key}
       /\ <<ws, tools>> \in {<<"open", 200>>, <<"closed", 401>>, <<"failed", 500>>}
       /\ WsRuns(settings, cred) => ws = "open"
       /\ guarded /\ settings.secret =>
            (status(only("none", minted)) = 200 <=> minutes > 0 /\ n # "key")
       /\ guarded /\ settings.key = "none" /\ ~settings.secret =>
            status(cred) = 401 /\ ws = "closed"
  <2> HIDE DEF ws, tools, minted
  <2> QED
    BY <1>8, <1>9, <1>10, <1>14, <1>15, <1>16, <1>17
<1> QED
  BY <1>18 DEF CredentialsAgree, only, status, n

-----------------------------------------------------------------------------
(* The start order and the availability, for every registration.           *)

\* A list without repetition has as many members as places.
LEMMA OnceCounts ==
    ASSUME NEW S, NEW s \in Seq(S), Once(s)
    PROVE  IsFiniteSet(ToSet(s)) /\ Cardinality(ToSet(s)) = Len(s)
<1>1. Len(s) \in Nat /\ DOMAIN s = 1 .. Len(s)
  OBVIOUS
<1>2. s \in [1 .. Len(s) -> ToSet(s)]
  BY <1>1 DEF ToSet
<1>3. s \in Bijection(1 .. Len(s), ToSet(s))
  <2>1. \A i, j \in 1 .. Len(s) : s[i] = s[j] => i = j
    BY DEF Once
  <2>2. \A x \in ToSet(s) : \E i \in 1 .. Len(s) : s[i] = x
    BY <1>1 DEF ToSet
  <2> QED
    BY <1>2, <2>1, <2>2 DEF Bijection, Injection, IsInjective, Surjection
<1>4. ExistsBijection(1 .. Len(s), ToSet(s))
  BY <1>3 DEF ExistsBijection
<1>5. IsFiniteSet(1 .. Len(s)) /\ Cardinality(1 .. Len(s)) = Len(s)
  BY <1>1, FS_Interval
<1> QED
  BY <1>4, <1>5, FS_Bijection

\* Where a name is placed, in a list that holds it once.
LEMMA PlaceIs ==
    ASSUME NEW S, NEW s \in Seq(S), Once(s), NEW i \in 1 .. Len(s)
    PROVE  (CHOOSE k \in 1 .. Len(s) : s[k] = s[i]) = i
<1> DEFINE k == CHOOSE k \in 1 .. Len(s) : s[k] = s[i]
<1>1. k \in 1 .. Len(s) /\ s[k] = s[i]
  OBVIOUS
<1> QED
  BY <1>1 DEF Once

\* What a name needs is closed, and is within every closed set around it.
LEMMA NeedsIsLeast ==
    ASSUME NEW reg, NEW name \in Names(reg)
    PROVE  /\ name \in Needs(reg, name)
           /\ \A m \in Needs(reg, name) \cap Names(reg) : ToSet(reg.deps[m]) \subseteq Needs(reg, name)
           /\ \A C \in SUBSET Mentioned(reg) :
                 name \in C /\ (\A m \in C \cap Names(reg) : ToSet(reg.deps[m]) \subseteq C)
                   => Needs(reg, name) \subseteq C
<1>1. name \in Mentioned(reg)
  BY DEF Mentioned
<1>2. \A m \in Names(reg) : ToSet(reg.deps[m]) \subseteq Mentioned(reg)
  BY DEF Mentioned
<1> QED
  BY <1>1, <1>2 DEF Needs

\* registry.py:54-78, as the property says it.
THEOREM StartOrderIsAlwaysSound ==
    ASSUME NEW reg, IsRegistration(reg), RegisteredOnce(reg)
    PROVE  StartOrderIsSound(reg)
<1> DEFINE N == Names(reg)
           order == StartOrder(reg)
           place(name) == CHOOSE i \in 1 .. Len(order) : order[i] = name
<1>1. /\ order \in Seq(N) /\ Once(order) /\ Placed(reg, order)
      /\ \A m \in N : Occurs(order, m)
  BY StartOrderPlaces
<1> HIDE DEF order
<1>2. ToSet(order) = N
  <2>1. \A x : x \in ToSet(order) <=> Occurs(order, x)
    BY <1>1, ToSetOccurs
  <2>2. \A x : Occurs(order, x) => x \in N
    BY <1>1 DEF Occurs, ComesBefore
  <2> QED
    BY <1>1, <2>1, <2>2
<1>3. Len(order) = Len(reg.order)
  <2>1. reg.order \in Seq(N) /\ DOMAIN reg.order = 1 .. Len(reg.order)
    BY DEF IsRegistration
  <2>2. Once(reg.order)
    BY <2>1 DEF RegisteredOnce, Once
  <2>3. Cardinality(ToSet(reg.order)) = Len(reg.order)
    BY <2>1, <2>2, OnceCounts
  <2>4. Cardinality(ToSet(order)) = Len(order)
    BY <1>1, OnceCounts
  <2> QED
    BY <1>2, <2>3, <2>4 DEF Names
<1>4. ASSUME NEW name \in N, NEW dep \in ToSet(reg.deps[name]) \cap N, name \notin Needs(reg, dep)
      PROVE  place(dep) < place(name)
  <2>1. PICK k \in 1 .. Len(order) : order[k] = name
    BY <1>1 DEF Occurs, ComesBefore
  <2>2. dep \in Deps(reg, order[k])
    BY <2>1 DEF Deps
  <2>3. ~Leads(reg, dep, name)
    <3>1. PICK C \in SUBSET Mentioned(reg) :
            /\ dep \in C /\ \A m \in C \cap N : ToSet(reg.deps[m]) \subseteq C
            /\ name \notin C
      <4>1. name \in Mentioned(reg)
        BY DEF Mentioned
      <4> QED
        BY <1>4, <4>1 DEF Needs
    <3>2. Closed(reg, C \cap N) /\ dep \in C \cap N
      BY <3>1 DEF Closed, Deps
    <3> QED
      BY <3>1, <3>2 DEF Leads
  <2>4. PICK j \in 1 .. Len(order) : j < k /\ order[j] = dep
    BY <1>1, <2>1, <2>2, <2>3 DEF Placed, ComesBefore
  <2>5. place(name) = k /\ place(dep) = j
    <3>1. (CHOOSE i \in 1 .. Len(order) : order[i] = order[k]) = k
      BY <1>1, PlaceIs
    <3>2. (CHOOSE i \in 1 .. Len(order) : order[i] = order[j]) = j
      BY <1>1, PlaceIs
    <3> QED
      BY <2>1, <2>4, <3>1, <3>2
  <2> QED
    BY <2>4, <2>5
<1> QED
  BY <1>2, <1>3, <1>4 DEF StartOrderIsSound, order

\* The provider that is asked for a capability is one of those that provide it.
LEMMA ProviderProvides ==
    ASSUME NEW reg, IsRegistration(reg), NEW cap, Providers(reg, cap) # {}
    PROVE  ProviderOf(reg, cap) \in Providers(reg, cap)
<1> DEFINE at(i) == reg.order[i] \in Providers(reg, cap)
           places == {i \in DOMAIN reg.order : at(i)}
           first == CHOOSE i \in DOMAIN reg.order : at(i) /\ \A j \in 1 .. i - 1 : ~at(j)
<1>1. DOMAIN reg.order = 1 .. Len(reg.order) /\ Len(reg.order) \in Nat
  BY DEF IsRegistration
<1>2. places \in SUBSET Nat /\ places # {}
  <2>1. PICK name \in Providers(reg, cap) : TRUE
    OBVIOUS
  <2>2. name \in ToSet(reg.order)
    BY DEF Providers, Names
  <2>3. PICK i \in DOMAIN reg.order : reg.order[i] = name
    BY <2>2 DEF ToSet
  <2> QED
    BY <1>1, <2>1, <2>3
<1>3. PICK i \in places : \A k \in places : i <= k
  <2> HIDE DEF places
  <2> QED
    BY <1>2, LeastNatural
<1>4. i \in DOMAIN reg.order /\ at(i) /\ \A j \in 1 .. i - 1 : ~at(j)
  BY <1>1, <1>3
<1>5. at(first)
  <2> HIDE DEF at
  <2> QED
    BY <1>4
<1>6. ProviderOf(reg, cap) = reg.order[first]
  BY DEF ProviderOf
<1> QED
  BY <1>5, <1>6

\* registry.py:121-156 with gateway.py:238-247, as the property says it.
THEOREM AvailabilityIsAlwaysTransitive ==
    ASSUME NEW reg, IsRegistration(reg), NEW healthy
    PROVE  AvailabilityIsTransitive(reg, healthy)
<1> DEFINE N == Names(reg)
<1>0. IsFiniteSet(Names(reg))
  BY DEF IsRegistration
<1>1. ASSUME NEW name \in N
      PROVE  IsAvailable(reg, healthy, name) <=> Needs(reg, name) \subseteq N \cap healthy
  <2>1. IsAvailable(reg, healthy, name) <=> \E C : Holds(reg, healthy, {}, C) /\ name \in C
    BY <1>0, IsAvailableHeld
  <2>2. ASSUME NEW C, Holds(reg, healthy, {}, C), name \in C
        PROVE  Needs(reg, name) \subseteq N \cap healthy
    <3>1. C \in SUBSET Mentioned(reg) /\ C \subseteq N \cap healthy
      BY <2>2 DEF Mentioned, Holds
    <3>2. \A m \in C : ToSet(reg.deps[m]) \subseteq C
      BY <2>2 DEF Holds
    <3> QED
      BY <2>2, <3>1, <3>2, NeedsIsLeast
  <2>3. ASSUME Needs(reg, name) \subseteq N \cap healthy
        PROVE  Holds(reg, healthy, {}, Needs(reg, name)) /\ name \in Needs(reg, name)
    BY <2>3, NeedsIsLeast DEF Holds
  <2> QED
    BY <2>1, <2>2, <2>3
<1>2. ASSUME NEW cap
      PROVE  LET listed == cap \in AvailableCapabilities(reg, healthy)
                 invoked == InvokeStatus(reg, healthy, cap) = 200
             IN  /\ invoked => listed
                 /\ Cardinality(Providers(reg, cap)) = 1 => (listed => invoked)
  <2>1. InvokeStatus(reg, healthy, cap) = 200 <=>
          Providers(reg, cap) # {} /\ IsAvailable(reg, healthy, ProviderOf(reg, cap))
    BY DEF InvokeStatus, IsCapabilityAvailable
  <2>2. cap \in AvailableCapabilities(reg, healthy) <=>
          \E m \in Providers(reg, cap) : IsAvailable(reg, healthy, m)
    BY DEF AvailableCapabilities, Providers
  <2>3. Providers(reg, cap) # {} => ProviderOf(reg, cap) \in Providers(reg, cap)
    BY ProviderProvides
  <2>4. Cardinality(Providers(reg, cap)) = 1 => \E x : Providers(reg, cap) = {x}
    <3>1. IsFiniteSet(N) /\ Providers(reg, cap) \in SUBSET N
      BY DEF IsRegistration, Providers
    <3>2. IsFiniteSet(Providers(reg, cap))
      BY <3>1, FS_Subset
    <3> QED
      BY <3>2, FS_Singleton
  <2> QED
    BY <2>1, <2>2, <2>3, <2>4
<1> QED
  BY <1>1, <1>2 DEF AvailabilityIsTransitive

-----------------------------------------------------------------------------
(* What is offered, for every application and request.                     *)

\* What some handlers answer.
ChatCode(app, request) ==
    IF ~IsServing(app) \/ (request.names /\ ~app.store) THEN 503
    ELSE IF request.names /\ ~request.file THEN 400
    ELSE IF request.fails THEN 502 ELSE 200
ParamsCode(app) ==
    IF app.engine = "absent" THEN 503 ELSE IF IsServing(app) THEN 200 ELSE 409

LEMMA ChatAnswers ==
    ASSUME NEW settings, NEW app, NEW request
    PROVE  Handled(settings, "POST /chat", app, request) = ChatCode(app, request)
BY Zenon DEF Handled, ChatCode

LEMMA ParamsAnswer ==
    ASSUME NEW settings, NEW app, NEW request
    PROVE  Handled(settings, "POST /model/params", app, request) = ParamsCode(app)
BY Zenon DEF Handled, ParamsCode

LEMMA InvokeAnswers ==
    ASSUME NEW settings, NEW app, NEW request
    PROVE  Handled(settings, "POST /capabilities/c/invoke", app, request) =
             InvokeStatus(app.reg, HealthyModules(app), request.target)
BY Zenon DEF Handled

LEMMA HealthAnswers ==
    ASSUME NEW settings, NEW app, NEW request
    PROVE  Handled(settings, "GET /health", app, request) =
             HealthCode({Health(app, m) : m \in Names(app.reg)})
BY Zenon DEF Handled

\* The serving module is offered exactly while it serves.
LEMMA ServingIsOffered ==
    ASSUME NEW app, IsApp(app)
    PROVE  LET reg == app.reg
               healthy == HealthyModules(app)
           IN  /\ "chat" \in AvailableCapabilities(reg, healthy) <=> IsServing(app)
               /\ InvokeStatus(reg, healthy, "chat") = 200 <=> IsServing(app)
               /\ "llm-serving" \in healthy => IsServing(app)
<1> DEFINE reg == app.reg
           N == Names(reg)
           H == HealthyModules(app)
           stack == {"llm-serving", "model-manager"}
           here == app.engine # "absent"
<1>1. /\ IsRegistration(reg) /\ IsFiniteSet(N)
      /\ Providers(reg, "chat") = IF here THEN {"llm-serving"} ELSE {}
      /\ here => /\ stack \subseteq N
                 /\ reg.deps["llm-serving"] = <<"model-manager">>
                 /\ reg.deps["model-manager"] = <<>>
  BY DEF IsApp, IsRegistration, StackModules
<1>2. IsServing(app) => here
  BY DEF IsServing
<1>3. /\ Health(app, "llm-serving") = IF IsServing(app) THEN "ok" ELSE "absent"
      /\ Health(app, "model-manager") \in {"ok", "degraded"}
  BY DEF Health
<1>4. "llm-serving" \in H => IsServing(app)
  BY <1>3 DEF HealthyModules
<1>5. IsServing(app) => stack \subseteq N \cap H
  BY <1>1, <1>2, <1>3 DEF HealthyModules
<1> HIDE DEF H, reg
<1>6. IsAvailable(reg, H, "llm-serving") <=>
        \E C : Holds(reg, H, {}, C) /\ "llm-serving" \in C
  BY <1>1, IsAvailableHeld
<1>7. IsAvailable(reg, H, "llm-serving") => IsServing(app)
  BY <1>4, <1>6 DEF Holds
<1>8. IsServing(app) => IsAvailable(reg, H, "llm-serving")
  <2> SUFFICES ASSUME IsServing(app)
               PROVE  IsAvailable(reg, H, "llm-serving")
    OBVIOUS
  <2>1. ToSet(<<"model-manager">>) = {"model-manager"}
    <3> DEFINE s == <<"model-manager">>
    <3>1. DOMAIN s = {1} /\ s[1] = "model-manager"
      OBVIOUS
    <3> HIDE DEF s
    <3>2. ToSet(s) = {"model-manager"}
      BY <3>1 DEF ToSet
    <3> QED
      BY <3>2 DEF s
  <2>2. ToSet(<<>>) = {}
    BY DEF ToSet
  <2>3. \A m \in stack : ToSet(reg.deps[m]) \subseteq stack
    BY <1>1, <1>2, <2>1, <2>2
  <2>4. stack \in SUBSET (N \cap H) /\ "llm-serving" \in stack
    BY <1>5
  <2> HIDE DEF stack
  <2>5. Holds(reg, H, {}, stack)
    BY <2>3, <2>4 DEF Holds
  <2> QED
    BY <1>6, <2>4, <2>5
<1>9. "chat" \in AvailableCapabilities(reg, H) <=>
        \E m \in Providers(reg, "chat") : IsAvailable(reg, H, m)
  BY DEF AvailableCapabilities, Providers
<1>10. InvokeStatus(reg, H, "chat") = 200 <=>
         Providers(reg, "chat") # {} /\ IsAvailable(reg, H, ProviderOf(reg, "chat"))
  BY DEF InvokeStatus, IsCapabilityAvailable
<1>11. Providers(reg, "chat") # {} => ProviderOf(reg, "chat") \in Providers(reg, "chat")
  BY <1>1, ProviderProvides
<1> HIDE DEF here
<1>12. "chat" \in AvailableCapabilities(reg, H) <=> IsServing(app)
  BY <1>1, <1>2, <1>7, <1>8, <1>9
<1>13. InvokeStatus(reg, H, "chat") = 200 <=> IsServing(app)
  BY <1>1, <1>2, <1>7, <1>8, <1>10, <1>11
<1> QED
  BY <1>4, <1>12, <1>13 DEF reg, H

\* gateway.py:169-182, 238-247 and 321-338: discovery offers what the routes do,
\* in every application, whatever state the engine and the modules are in.
THEOREM OffersAreAlwaysServed ==
    ASSUME NEW settings, NEW cred, NEW app, IsApp(app), NEW request \in AllRequests
    PROVE  OffersAreServed(settings, cred, app, request)
<1> DEFINE reg == app.reg
           H == HealthyModules(app)
           offered == AvailableCapabilities(reg, H)
           plain == [request EXCEPT !.names = FALSE]
           asking == [request EXCEPT !.target = "chat"]
           answers(route, r, code, condition) ==
             AnswersWhen(settings, cred, app, route, r, code, condition)
           unwell == \E m \in Names(reg) \ StackModules : app.health[m] = "down"
<1>1. /\ "chat" \in offered <=> IsServing(app)
      /\ InvokeStatus(reg, H, "chat") = 200 <=> IsServing(app)
      /\ "llm-serving" \in H => IsServing(app)
  BY ServingIsOffered
<1>2. ~plain.names /\ asking.target = "chat"
  BY DEF AllRequests
<1>3. IsServing(app) => app.engine # "absent"
  BY DEF IsServing
<1> HIDE DEF plain, asking, offered, H
<1>4. answers("POST /chat", plain, 503, "chat" \notin offered)
  <2> DEFINE route == "POST /chat"
  <2>1. Handled(settings, route, app, plain) = ChatCode(app, plain)
    BY ChatAnswers, Zenon
  <2> HIDE DEF route
  <2>2. answers(route, plain, 503, "chat" \notin offered)
    BY <1>1, <1>2, <2>1 DEF ChatCode, AnswersWhen, Reply
  <2> QED
    BY <2>2, Zenon DEF route
<1>5. answers("POST /model/params", request, 200, "chat" \in offered)
  <2> DEFINE route == "POST /model/params"
  <2>1. Handled(settings, route, app, request) = ParamsCode(app)
    BY ParamsAnswer, Zenon
  <2> HIDE DEF route
  <2>2. answers(route, request, 200, "chat" \in offered)
    BY <1>1, <1>3, <2>1 DEF ParamsCode, AnswersWhen, Reply
  <2> QED
    BY <2>2, Zenon DEF route
<1>6. answers("POST /capabilities/c/invoke", asking, 200, "chat" \in offered)
  <2> DEFINE route == "POST /capabilities/c/invoke"
  <2>1. Handled(settings, route, app, asking) = InvokeStatus(reg, H, asking.target)
    BY InvokeAnswers, Zenon DEF H
  <2> HIDE DEF route
  <2>2. answers(route, asking, 200, "chat" \in offered)
    BY <1>1, <1>2, <2>1 DEF AnswersWhen, Reply
  <2> QED
    BY <2>2, Zenon DEF route
<1>7. answers("GET /health", request, 503, unwell)
  <2> DEFINE found == {Health(app, m) : m \in Names(reg)}
             route == "GET /health"
  <2>1. Handled(settings, route, app, request) = HealthCode(found)
    BY HealthAnswers, Zenon
  <2>2. \A m : /\ m \in StackModules => Health(app, m) # "down"
               /\ m \notin StackModules => Health(app, m) = app.health[m]
    BY DEF Health, StackModules
  <2>3. "down" \in found <=> unwell
    BY <2>2
  <2> HIDE DEF found, route, unwell
  <2>4. HealthCode(found) = 503 <=> "down" \in found
    BY DEF HealthCode, OverallStatus
  <2>5. answers(route, request, 503, unwell)
    BY <2>1, <2>3, <2>4 DEF AnswersWhen, Reply
  <2> QED
    BY <2>5, Zenon DEF route
<1>8. \A m \in Names(reg) : "llm-serving" \in Needs(reg, m) /\ "chat" \notin offered =>
        ~IsAvailable(reg, H, m)
  <2>1. IsRegistration(reg)
    BY DEF IsApp
  <2>2. AvailabilityIsTransitive(reg, H)
    BY <2>1, AvailabilityIsAlwaysTransitive
  <2>3. \A m \in Names(reg) : IsAvailable(reg, H, m) => Needs(reg, m) \subseteq Names(reg) \cap H
    BY <2>2 DEF AvailabilityIsTransitive
  <2> HIDE DEF reg
  <2> QED
    BY <1>1, <2>3
<1> QED
  BY <1>4, <1>5, <1>6, <1>7, <1>8, Zenon DEF OffersAreServed, offered, H, plain, asking

-----------------------------------------------------------------------------
(* The composition root, for every combination of flags.                   *)

\* A call that shows nothing is confirmed when its tool has an effect, else as
\* the allowlist says.
LEMMA BenignVerdict ==
    ASSUME NEW safeTools, NEW tool
    PROVE  Classify(safeTools, [tool |-> tool, malformed |-> FALSE, finds |-> {}])
             = IF tool \in EffectTools THEN "needs_confirmation"
               ELSE IF tool \in safeTools THEN "safe" ELSE "needs_confirmation"
<1> DEFINE call == [tool |-> tool, malformed |-> FALSE, finds |-> {}]
<1>1. call.tool = tool /\ call.malformed = FALSE /\ call.finds = {}
  OBVIOUS
<1> HIDE DEF call
<1>2. ~BlockedRules(call)
  BY <1>1 DEF BlockedRules
<1>3. ConfirmRules(call) <=> tool \in EffectTools
  BY <1>1 DEF ConfirmRules, EffectTools
<1>4. Classify(safeTools, call)
        = IF tool \in EffectTools THEN "needs_confirmation"
          ELSE IF tool \in safeTools THEN "safe" ELSE "needs_confirmation"
  BY <1>1, <1>2, <1>3 DEF Classify
<1> QED
  BY <1>4 DEF call

\* The tools on the dispatcher, flag by flag.
LEMMA RegisteredToolsAre ==
    ASSUME NEW on, NEW tool
    PROVE  tool \in RegisteredTools(on) <=>
             \/ "docqa" \in on /\ tool \in DocqaTools
             \/ "docqa" \in on /\ ImagesServed(on) /\ tool = "answer_about_image"
             \/ "storage" \in on /\ tool \in StorageTools
             \/ "storage" \in on /\ "docqa" \in on /\ tool \in RemoteTools
             \/ "browser" \in on /\ tool \in BrowserTools
             \/ "exec" \in on /\ tool \in ExecTools
             \/ "mcp" \in on /\ tool = McpTool
<1> DEFINE of(flag) ==
      CASE flag = "docqa"   -> DocqaTools \cup IF ImagesServed(on)
                                               THEN {"answer_about_image"} ELSE {}
        [] flag = "storage" -> StorageTools \cup IF "docqa" \in on THEN RemoteTools ELSE {}
        [] flag = "browser" -> BrowserTools
        [] flag = "exec"    -> ExecTools
        [] flag = "mcp"     -> {McpTool}
        [] OTHER            -> {}
<1>1. /\ of("docqa") = DocqaTools \cup IF ImagesServed(on) THEN {"answer_about_image"} ELSE {}
      /\ of("storage") = StorageTools \cup IF "docqa" \in on THEN RemoteTools ELSE {}
      /\ of("browser") = BrowserTools
      /\ of("exec") = ExecTools
      /\ of("mcp") = {McpTool}
      /\ \A flag : flag \notin {"docqa", "storage", "browser", "exec", "mcp"} => of(flag) = {}
  OBVIOUS
<1>2. RegisteredTools(on) = UNION {of(flag) : flag \in on}
  BY DEF RegisteredTools
<1> HIDE DEF of
<1>3. tool \in RegisteredTools(on) <=> \E flag \in on : tool \in of(flag)
  BY <1>2
<1>4. ASSUME NEW flag \in on, tool \in of(flag)
      PROVE  flag \in {"docqa", "storage", "browser", "exec", "mcp"}
  BY <1>1, <1>4
<1> QED
  BY <1>1, <1>3, <1>4

\* Which tools have an effect of those that may be registered.
LEMMA EffectsAre ==
    /\ {"storage_write", "storage_delete", "storage_move", "open_url", "web_answer",
        "run_command", "write_workspace_file", McpTool} \subseteq EffectTools
    /\ (DocqaTools \cup StorageReads \cup RemoteTools
          \cup {"answer_about_image", "web_search", "read_workspace_file"}) \cap EffectTools = {}
BY DEF EffectTools, MutatingFileTools, ShellTools, ExternalPostTools, NavTools,
       StorageMutateTools, McpTool, DocqaTools, StorageReads, RemoteTools

\* main.py:193-251: what is registered is gated by what it does, but for the
\* picture tool, which comes last.
LEMMA TiersAre ==
    ASSUME NEW on, NEW tool \in RegisteredTools(on)
    PROVE  LET effects == {"storage_write", "storage_delete", "storage_move", "open_url",
                           "web_answer", "run_command", "write_workspace_file", McpTool}
           IN  IF tool \in effects THEN tool \in EffectTools
               ELSE tool \notin EffectTools /\ tool \in SafeTools(on)
<1> DEFINE effects == {"storage_write", "storage_delete", "storage_move", "open_url",
                       "web_answer", "run_command", "write_workspace_file", McpTool}
<1>1. CASE tool \in effects
  BY <1>1, EffectsAre
<1>2. CASE tool \notin effects
  <2>1. \/ "docqa" \in on /\ tool \in DocqaTools
        \/ ImagesServed(on) /\ tool = "answer_about_image"
        \/ "storage" \in on /\ tool \in StorageReads
        \/ "storage" \in on /\ "docqa" \in on /\ tool \in RemoteTools
        \/ "browser" \in on /\ tool = "web_search"
        \/ "exec" \in on /\ tool = "read_workspace_file"
    BY <1>2, RegisteredToolsAre DEF StorageTools, BrowserTools, ExecTools
  <2>2. tool \in SafeTools(on)
    BY <2>1 DEF SafeTools
  <2>3. tool \notin EffectTools
    BY <2>1, EffectsAre
  <2> QED
    BY <1>2, <2>2, <2>3
<1> QED
  BY <1>1, <1>2

\* What the allowlist names beyond the generic tools.
LEMMA AllowlistIsRegistered ==
    ASSUME NEW on
    PROVE  SafeTools(on) \ DefaultSafeTools \subseteq RegisteredTools(on)
<1> SUFFICES ASSUME NEW tool \in SafeTools(on), tool \notin DefaultSafeTools
             PROVE  tool \in RegisteredTools(on)
  OBVIOUS
<1>1. \/ "docqa" \in on /\ tool \in DocqaTools
      \/ ImagesServed(on) /\ tool = "answer_about_image"
      \/ "storage" \in on /\ tool \in StorageReads
      \/ "storage" \in on /\ "docqa" \in on /\ tool \in RemoteTools
      \/ "browser" \in on /\ tool = "web_search"
      \/ "exec" \in on /\ tool = "read_workspace_file"
  BY DEF SafeTools
<1>2. ImagesServed(on) => "docqa" \in on
  BY DEF ImagesServed, IngestBuilt
<1> QED
  BY <1>1, <1>2, RegisteredToolsAre DEF StorageTools, BrowserTools, ExecTools

\* A list of rows whose names differ.
NamesDiffer(s) ==
    /\ s \in Seq(ToSet(s))
    /\ \A i, j \in 1 .. Len(s) : s[i].name = s[j].name => i = j

\* One list after another, when no name is in both.
LEMMA ConcatNames ==
    ASSUME NEW s, NamesDiffer(s), NEW t, NamesDiffer(t),
           \A q \in ToSet(s), r \in ToSet(t) : q.name # r.name
    PROVE  NamesDiffer(s \o t) /\ ToSet(s \o t) = ToSet(s) \cup ToSet(t)
<1> DEFINE c == s \o t
           S == ToSet(s) \cup ToSet(t)
<1>1. /\ s \in Seq(ToSet(s)) /\ t \in Seq(ToSet(t))
      /\ Len(s) \in Nat /\ Len(t) \in Nat
      /\ DOMAIN s = 1 .. Len(s) /\ DOMAIN t = 1 .. Len(t)
  BY DEF NamesDiffer
<1>2. s \in Seq(S) /\ t \in Seq(S)
  BY <1>1
<1>3. /\ c \in Seq(S) /\ Len(c) = Len(s) + Len(t) /\ DOMAIN c = 1 .. Len(s) + Len(t)
      /\ \A i \in 1 .. Len(s) : c[i] = s[i]
      /\ \A i \in 1 .. Len(t) : c[Len(s) + i] = t[i]
  <2> HIDE DEF S
  <2> QED
    BY <1>2
<1> HIDE DEF c
<1>4. ToSet(c) = S
  <2>1. \A i \in DOMAIN c : c[i] \in S
    BY <1>3
  <2>2. \A x \in ToSet(s) : \E i \in DOMAIN c : c[i] = x
    BY <1>1, <1>3 DEF ToSet
  <2>3. ASSUME NEW x \in ToSet(t)
        PROVE  \E i \in DOMAIN c : c[i] = x
    <3>1. PICK k \in 1 .. Len(t) : t[k] = x
      BY <1>1 DEF ToSet
    <3>2. Len(s) + k \in DOMAIN c
      BY <1>1, <1>3
    <3> QED
      BY <1>3, <3>1, <3>2
  <2>4. \A x : x \in ToSet(c) <=> \E i \in DOMAIN c : c[i] = x
    BY DEF ToSet
  <2> QED
    BY <2>1, <2>2, <2>3, <2>4
<1>5. ASSUME NEW i \in 1 .. Len(c), NEW j \in 1 .. Len(c), c[i].name = c[j].name
      PROVE  i = j
  <2>1. \A k \in 1 .. Len(c) : \/ k \in 1 .. Len(s) /\ c[k] = s[k] /\ s[k] \in ToSet(s)
                               \/ /\ k - Len(s) \in 1 .. Len(t)
                                  /\ c[k] = t[k - Len(s)] /\ t[k - Len(s)] \in ToSet(t)
    <3> TAKE k \in 1 .. Len(c)
    <3>1. CASE k \in 1 .. Len(s)
      BY <1>1, <1>3, <3>1
    <3>2. CASE k \notin 1 .. Len(s)
      <4>1. k - Len(s) \in 1 .. Len(t) /\ k = Len(s) + (k - Len(s))
        BY <1>1, <1>3, <3>2
      <4>2. c[Len(s) + (k - Len(s))] = t[k - Len(s)]
        BY <1>3, <4>1
      <4> QED
        BY <1>1, <4>1, <4>2
    <3> QED
      BY <3>1, <3>2
  <2>2. CASE i \in 1 .. Len(s) /\ j \in 1 .. Len(s)
    BY <1>3, <1>5, <2>2 DEF NamesDiffer
  <2>3. CASE i \notin 1 .. Len(s) /\ j \notin 1 .. Len(s)
    <3>1. i - Len(s) = j - Len(s)
      BY <1>5, <2>1, <2>3 DEF NamesDiffer
    <3> QED
      BY <1>1, <1>3, <3>1
  <2>4. CASE i \in 1 .. Len(s) /\ j \notin 1 .. Len(s)
    BY <1>1, <1>3, <1>5, <2>1, <2>4
  <2>5. CASE i \notin 1 .. Len(s) /\ j \in 1 .. Len(s)
    BY <1>1, <1>3, <1>5, <2>1, <2>5
  <2> QED
    BY <2>2, <2>3, <2>4, <2>5
<1> QED
  BY <1>3, <1>4, <1>5 DEF NamesDiffer, c

\* A row alone, and no row.
LEMMA OneRow ==
    /\ \A row : NamesDiffer(<<row>>) /\ ToSet(<<row>>) = {row}
    /\ NamesDiffer(<<>>) /\ ToSet(<<>>) = {}
<1>1. ASSUME NEW row
      PROVE  NamesDiffer(<<row>>) /\ ToSet(<<row>>) = {row}
  <2>1. /\ <<row>> \in Seq({row}) /\ Len(<<row>>) = 1 /\ <<row>>[1] = row
        /\ DOMAIN <<row>> = 1 .. 1
    OBVIOUS
  <2>2. ToSet(<<row>>) = {row}
    BY <2>1 DEF ToSet
  <2> QED
    BY <2>1, <2>2 DEF NamesDiffer
<1>2. ToSet(<<>>) = {} /\ <<>> \in Seq({}) /\ Len(<<>>) = 0
  BY DEF ToSet
<1> QED
  BY <1>1, <1>2 DEF NamesDiffer

\* The rows the flags lead to.
Serving(on) ==
    Row("llm-serving", <<"model-manager">>,
        IF "model_mmproj_file" \in on THEN <<"chat", "multimodal">> ELSE <<"chat">>)
Manager == Row("model-manager", <<>>, <<"model-management">>)
Dependent == Row("dependent", <<"flaky">>, <<"dependent">>)
Docqa == Row("docqa", <<"llm-serving">>, <<"docqa">>)

RowsOf(on) ==
    (IF "demo_modules" \in on THEN {Lone("echo"), Lone("flaky"), Dependent} ELSE {})
      \cup (IF ServingBuilt(on) THEN {Manager, Serving(on)} ELSE {})
      \cup (IF "docqa" \in on THEN {Docqa} ELSE {})
      \cup (IF "storage" \in on THEN {Lone("storage")} ELSE {})
      \cup (IF "browser" \in on THEN {Lone("browser")} ELSE {})
      \cup (IF "exec" \in on THEN {Lone("exec")} ELSE {})
      \cup (IF "mcp" \in on THEN {Lone("mcp")} ELSE {})
      \cup (IF "presentation_demo" \in on THEN {Lone("presentation")} ELSE {})

LEMMA RowsNamed ==
    /\ \A name : Lone(name).name = name /\ Lone(name).deps = <<>> /\ Lone(name).caps = <<name>>
    /\ \A on : Serving(on).name = "llm-serving" /\ Serving(on).deps = <<"model-manager">>
    /\ Manager.name = "model-manager" /\ Manager.deps = <<>>
    /\ Dependent.name = "dependent" /\ Dependent.deps = <<"flaky">>
    /\ Docqa.name = "docqa" /\ Docqa.deps = <<"llm-serving">>
BY DEF Lone, Row, Serving, Manager, Dependent, Docqa

LEMMA DemoRows ==
    NamesDiffer(DemoModules) /\ ToSet(DemoModules) = {Lone("echo"), Lone("flaky"), Dependent}
<1> DEFINE e == Lone("echo")
           f == Lone("flaky")
<1>1. DemoModules = <<e, f, Dependent>>
  BY DEF DemoModules, Dependent
<1>2. e.name = "echo" /\ f.name = "flaky" /\ Dependent.name = "dependent"
  BY RowsNamed
<1> HIDE DEF e, f
<1> DEFINE s == <<e, f, Dependent>>
<1>3. /\ Len(s) = 3 /\ s[1] = e /\ s[2] = f /\ s[3] = Dependent /\ DOMAIN s = 1 .. 3
      /\ s \in Seq({e, f, Dependent})
  OBVIOUS
<1>4. ToSet(s) = {e, f, Dependent}
  <2>1. 1 .. 3 = {1, 2, 3}
    OBVIOUS
  <2> HIDE DEF s
  <2> QED
    BY <1>3, <2>1 DEF ToSet
<1> HIDE DEF s
<1>5. \A i, j \in 1 .. 3 : s[i].name = s[j].name => i = j
  BY <1>2, <1>3
<1>6. NamesDiffer(s)
  BY <1>3, <1>4, <1>5 DEF NamesDiffer
<1> QED
  BY <1>1, <1>4, <1>6 DEF s, e, f

LEMMA StackRows ==
    ASSUME NEW on
    PROVE  NamesDiffer(ModelStack(on)) /\ ToSet(ModelStack(on)) = {Manager, Serving(on)}
<1> DEFINE s == <<Manager, Serving(on)>>
<1>1. ModelStack(on) = s
  BY DEF ModelStack, Manager, Serving
<1>2. /\ Len(s) = 2 /\ s[1] = Manager /\ s[2] = Serving(on) /\ DOMAIN s = 1 .. 2
      /\ s \in Seq({Manager, Serving(on)})
  OBVIOUS
<1>3. ToSet(s) = {Manager, Serving(on)}
  <2>1. 1 .. 2 = {1, 2}
    OBVIOUS
  <2> HIDE DEF s
  <2> QED
    BY <1>2, <2>1 DEF ToSet
<1> HIDE DEF s
<1>4. \A i, j \in 1 .. 2 : s[i].name = s[j].name => i = j
  BY <1>2, RowsNamed
<1>5. NamesDiffer(s)
  BY <1>2, <1>3, <1>4 DEF NamesDiffer
<1> QED
  BY <1>1, <1>3, <1>5

\* main.py:67-154: the rows, in any combination, have different names.
LEMMA RowsAre ==
    ASSUME NEW on
    PROVE  NamesDiffer(Rows(on)) /\ ToSet(Rows(on)) = RowsOf(on)
<1> DEFINE p1 == If("demo_modules" \in on, DemoModules)
           p2 == If(ServingBuilt(on), ModelStack(on))
           p3 == If("docqa" \in on, <<Docqa>>)
           p4 == If("storage" \in on, <<Lone("storage")>>)
           p5 == If("browser" \in on, <<Lone("browser")>>)
           p6 == If("exec" \in on, <<Lone("exec")>>)
           p7 == If("mcp" \in on, <<Lone("mcp")>>)
           p8 == If("presentation_demo" \in on, <<Lone("presentation")>>)
<1>1. /\ NamesDiffer(p1)
      /\ ToSet(p1) = IF "demo_modules" \in on THEN {Lone("echo"), Lone("flaky"), Dependent} ELSE {}
  BY DemoRows, OneRow DEF If
<1>2. /\ NamesDiffer(p2)
      /\ ToSet(p2) = IF ServingBuilt(on) THEN {Manager, Serving(on)} ELSE {}
  BY StackRows, OneRow DEF If
<1>3. NamesDiffer(p3) /\ ToSet(p3) = IF "docqa" \in on THEN {Docqa} ELSE {}
  BY OneRow DEF If
<1>4. NamesDiffer(p4) /\ ToSet(p4) = IF "storage" \in on THEN {Lone("storage")} ELSE {}
  BY OneRow DEF If
<1>5. NamesDiffer(p5) /\ ToSet(p5) = IF "browser" \in on THEN {Lone("browser")} ELSE {}
  BY OneRow DEF If
<1>6. NamesDiffer(p6) /\ ToSet(p6) = IF "exec" \in on THEN {Lone("exec")} ELSE {}
  BY OneRow DEF If
<1>7. NamesDiffer(p7) /\ ToSet(p7) = IF "mcp" \in on THEN {Lone("mcp")} ELSE {}
  BY OneRow DEF If
<1>8. NamesDiffer(p8) /\ ToSet(p8) = IF "presentation_demo" \in on THEN {Lone("presentation")} ELSE {}
  BY OneRow DEF If
<1>9. Rows(on) = p1 \o p2 \o p3 \o p4 \o p5 \o p6 \o p7 \o p8
  BY DEF Rows, Docqa
<1> DEFINE names(s) == {row.name : row \in ToSet(s)}
<1>10. /\ names(p1) \subseteq {"echo", "flaky", "dependent"}
       /\ names(p2) \subseteq {"model-manager", "llm-serving"}
       /\ names(p3) \subseteq {"docqa"} /\ names(p4) \subseteq {"storage"}
       /\ names(p5) \subseteq {"browser"} /\ names(p6) \subseteq {"exec"}
       /\ names(p7) \subseteq {"mcp"} /\ names(p8) \subseteq {"presentation"}
  <2> HIDE DEF p1, p2, p3, p4, p5, p6, p7, p8
  <2> QED
    BY <1>1, <1>2, <1>3, <1>4, <1>5, <1>6, <1>7, <1>8, RowsNamed
<1> HIDE DEF p1, p2, p3, p4, p5, p6, p7, p8
<1> DEFINE q2 == p1 \o p2
           q3 == q2 \o p3
           q4 == q3 \o p4
           q5 == q4 \o p5
           q6 == q5 \o p6
           q7 == q6 \o p7
           q8 == q7 \o p8
<1>12. /\ NamesDiffer(q2) /\ ToSet(q2) = ToSet(p1) \cup ToSet(p2)
       /\ names(q2) \subseteq {"echo", "flaky", "dependent", "model-manager", "llm-serving"}
  <2>1. \A q \in ToSet(p1), r \in ToSet(p2) : q.name # r.name
    BY <1>10
  <2>2. NamesDiffer(q2) /\ ToSet(q2) = ToSet(p1) \cup ToSet(p2)
    BY <1>2, <1>1, <2>1, ConcatNames
  <2> HIDE DEF q2
  <2> QED
    BY <2>2, <1>10
<1> HIDE DEF q2
<1>13. /\ NamesDiffer(q3) /\ ToSet(q3) = ToSet(q2) \cup ToSet(p3)
       /\ names(q3) \subseteq {"echo", "flaky", "dependent", "model-manager", "llm-serving", "docqa"}
  <2>1. \A q \in ToSet(q2), r \in ToSet(p3) : q.name # r.name
    BY <1>10, <1>12
  <2>2. NamesDiffer(q3) /\ ToSet(q3) = ToSet(q2) \cup ToSet(p3)
    BY <1>3, <1>12, <2>1, ConcatNames
  <2> HIDE DEF q3
  <2> QED
    BY <2>2, <1>10, <1>12
<1> HIDE DEF q3
<1>14. /\ NamesDiffer(q4) /\ ToSet(q4) = ToSet(q3) \cup ToSet(p4)
       /\ names(q4) \subseteq {"echo", "flaky", "dependent", "model-manager", "llm-serving", "docqa",
                             "storage"}
  <2>1. \A q \in ToSet(q3), r \in ToSet(p4) : q.name # r.name
    BY <1>10, <1>13
  <2>2. NamesDiffer(q4) /\ ToSet(q4) = ToSet(q3) \cup ToSet(p4)
    BY <1>4, <1>13, <2>1, ConcatNames
  <2> HIDE DEF q4
  <2> QED
    BY <2>2, <1>10, <1>13
<1> HIDE DEF q4
<1>15. /\ NamesDiffer(q5) /\ ToSet(q5) = ToSet(q4) \cup ToSet(p5)
       /\ names(q5) \subseteq {"echo", "flaky", "dependent", "model-manager", "llm-serving", "docqa",
                             "storage", "browser"}
  <2>1. \A q \in ToSet(q4), r \in ToSet(p5) : q.name # r.name
    BY <1>10, <1>14
  <2>2. NamesDiffer(q5) /\ ToSet(q5) = ToSet(q4) \cup ToSet(p5)
    BY <1>5, <1>14, <2>1, ConcatNames
  <2> HIDE DEF q5
  <2> QED
    BY <2>2, <1>10, <1>14
<1> HIDE DEF q5
<1>16. /\ NamesDiffer(q6) /\ ToSet(q6) = ToSet(q5) \cup ToSet(p6)
       /\ names(q6) \subseteq {"echo", "flaky", "dependent", "model-manager", "llm-serving", "docqa",
                             "storage", "browser", "exec"}
  <2>1. \A q \in ToSet(q5), r \in ToSet(p6) : q.name # r.name
    BY <1>10, <1>15
  <2>2. NamesDiffer(q6) /\ ToSet(q6) = ToSet(q5) \cup ToSet(p6)
    BY <1>6, <1>15, <2>1, ConcatNames
  <2> HIDE DEF q6
  <2> QED
    BY <2>2, <1>10, <1>15
<1> HIDE DEF q6
<1>17. /\ NamesDiffer(q7) /\ ToSet(q7) = ToSet(q6) \cup ToSet(p7)
       /\ names(q7) \subseteq {"echo", "flaky", "dependent", "model-manager", "llm-serving", "docqa",
                             "storage", "browser", "exec", "mcp"}
  <2>1. \A q \in ToSet(q6), r \in ToSet(p7) : q.name # r.name
    BY <1>10, <1>16
  <2>2. NamesDiffer(q7) /\ ToSet(q7) = ToSet(q6) \cup ToSet(p7)
    BY <1>7, <1>16, <2>1, ConcatNames
  <2> HIDE DEF q7
  <2> QED
    BY <2>2, <1>10, <1>16
<1> HIDE DEF q7
<1>18. /\ NamesDiffer(q8) /\ ToSet(q8) = ToSet(q7) \cup ToSet(p8)
       /\ names(q8) \subseteq {"echo", "flaky", "dependent", "model-manager", "llm-serving", "docqa",
                             "storage", "browser", "exec", "mcp", "presentation"}
  <2>1. \A q \in ToSet(q7), r \in ToSet(p8) : q.name # r.name
    BY <1>10, <1>17
  <2>2. NamesDiffer(q8) /\ ToSet(q8) = ToSet(q7) \cup ToSet(p8)
    BY <1>8, <1>17, <2>1, ConcatNames
  <2> HIDE DEF q8
  <2> QED
    BY <2>2, <1>10, <1>17
<1> HIDE DEF q8
<1>19. Rows(on) = q8
  BY <1>9 DEF q2, q3, q4, q5, q6, q7, q8
<1>20. ToSet(q8) = ToSet(p1) \cup ToSet(p2) \cup ToSet(p3) \cup ToSet(p4) \cup ToSet(p5)
                     \cup ToSet(p6) \cup ToSet(p7) \cup ToSet(p8)
  BY <1>12, <1>13, <1>14, <1>15, <1>16, <1>17, <1>18
<1> QED
  BY <1>1, <1>2, <1>3, <1>4, <1>5, <1>6, <1>7, <1>8, <1>18, <1>19, <1>20 DEF RowsOf

\* Rows of different names, as a registration.
LEMMA RegistrationIs ==
    ASSUME NEW rows, NamesDiffer(rows),
           \A row \in ToSet(rows) : row.deps \in Seq(ToSet(row.deps))
    PROVE  LET reg == RegistrationOf(rows)
           IN  /\ Names(reg) = {row.name : row \in ToSet(rows)}
               /\ \A row \in ToSet(rows) :
                     reg.deps[row.name] = row.deps /\ reg.caps[row.name] = row.caps
               /\ IsRegistration(reg) /\ RegisteredOnce(reg)
               /\ Len(reg.order) = Len(rows)
<1> DEFINE reg == RegistrationOf(rows)
           named(name) == CHOOSE row \in ToSet(rows) : row.name = name
           N == {row.name : row \in ToSet(rows)}
<1>1. /\ rows \in Seq(ToSet(rows)) /\ Len(rows) \in Nat /\ DOMAIN rows = 1 .. Len(rows)
  BY DEF NamesDiffer
<1>2. /\ reg.order = [i \in 1 .. Len(rows) |-> rows[i].name]
      /\ reg.deps = [name \in N |-> named(name).deps]
      /\ reg.caps = [name \in N |-> named(name).caps]
  BY DEF RegistrationOf
<1> HIDE DEF reg
<1>3. \A row \in ToSet(rows) : named(row.name) = row
  <2> TAKE row \in ToSet(rows)
  <2>1. named(row.name) \in ToSet(rows) /\ named(row.name).name = row.name
    OBVIOUS
  <2> HIDE DEF named
  <2>2. PICK i \in 1 .. Len(rows) : rows[i] = row
    BY <1>1 DEF ToSet
  <2>3. PICK j \in 1 .. Len(rows) : rows[j] = named(row.name)
    BY <1>1, <2>1 DEF ToSet
  <2> QED
    BY <2>1, <2>2, <2>3 DEF NamesDiffer
<1> HIDE DEF named
<1>4. \A row \in ToSet(rows) : reg.deps[row.name] = row.deps /\ reg.caps[row.name] = row.caps
  BY <1>2, <1>3
<1>5. \A i \in 1 .. Len(rows) : rows[i] \in ToSet(rows)
  BY <1>1
<1>6. reg.order \in [1 .. Len(rows) -> N]
  BY <1>2, <1>5
<1>7. reg.order \in Seq(N) /\ Len(reg.order) = Len(rows) /\ DOMAIN reg.order = 1 .. Len(rows)
  <2> DEFINE o == reg.order
  <2>1. o \in [1 .. Len(rows) -> N]
    BY <1>6
  <2> HIDE DEF N, o
  <2>2. o \in Seq(N) /\ Len(o) = Len(rows) /\ DOMAIN o = 1 .. Len(rows)
    BY <1>1, <2>1
  <2> QED
    BY <2>2 DEF o
<1>8. Names(reg) = N
  <2>1. \A x \in N : \E i \in DOMAIN reg.order : reg.order[i] = x
    <3> TAKE x \in N
    <3>1. PICK row \in ToSet(rows) : row.name = x
      OBVIOUS
    <3>2. PICK i \in 1 .. Len(rows) : rows[i] = row
      BY <1>1 DEF ToSet
    <3>3. reg.order[i] = rows[i].name
      BY <1>2, <3>2
    <3> QED
      BY <1>7, <3>1, <3>2, <3>3
  <2>2. \A i \in DOMAIN reg.order : reg.order[i] \in N
    BY <1>6, <1>7
  <2> HIDE DEF N
  <2> QED
    BY <2>1, <2>2 DEF Names, ToSet
<1>9. RegisteredOnce(reg)
  BY <1>2, <1>7 DEF RegisteredOnce, NamesDiffer
<1>10. IsFiniteSet(Names(reg))
  <2>1. Once(reg.order)
    BY <1>7, <1>9 DEF RegisteredOnce, Once
  <2> QED
    BY <1>7, <2>1, OnceCounts DEF Names
<1>11. \A m \in Names(reg) : reg.deps[m] \in Seq(ToSet(reg.deps[m]))
  <2> TAKE m \in Names(reg)
  <2>1. PICK row \in ToSet(rows) : row.name = m
    BY <1>8
  <2> QED
    BY <1>4, <2>1
<1>12. IsRegistration(reg)
  BY <1>7, <1>8, <1>10, <1>11 DEF IsRegistration
<1> QED
  BY <1>4, <1>7, <1>8, <1>9, <1>12 DEF reg

\* What the rows depend on.
LEMMA RowsDepend ==
    ASSUME NEW on, NEW row \in RowsOf(on)
    PROVE  /\ row.deps \in Seq(ToSet(row.deps))
           /\ \/ ToSet(row.deps) = {}
              \/ row = Dependent /\ "demo_modules" \in on /\ ToSet(row.deps) = {"flaky"}
              \/ row = Serving(on) /\ ServingBuilt(on) /\ ToSet(row.deps) = {"model-manager"}
              \/ row = Docqa /\ "docqa" \in on /\ ToSet(row.deps) = {"llm-serving"}
<1>1. \A x : <<x>> \in Seq(ToSet(<<x>>)) /\ ToSet(<<x>>) = {x}
  BY OneRow DEF NamesDiffer
<1>2. <<>> \in Seq(ToSet(<<>>)) /\ ToSet(<<>>) = {}
  BY OneRow DEF NamesDiffer
<1>3. \/ row.deps = <<>>
      \/ row = Dependent /\ "demo_modules" \in on /\ row.deps = <<"flaky">>
      \/ row = Serving(on) /\ ServingBuilt(on) /\ row.deps = <<"model-manager">>
      \/ row = Docqa /\ "docqa" \in on /\ row.deps = <<"llm-serving">>
  BY RowsNamed DEF RowsOf
<1> QED
  BY <1>1, <1>2, <1>3

\* The registration of the rows: every dependency is in it, and none leads back.
LEMMA RootRegisters ==
    ASSUME NEW on
    PROVE  LET reg == RegistrationOf(Rows(on))
           IN  /\ IsRegistration(reg) /\ RegisteredOnce(reg) /\ Len(reg.order) = Len(Rows(on))
               /\ Names(reg) = {row.name : row \in ToSet(Rows(on))}
               /\ \A row \in ToSet(Rows(on)) :
                     /\ reg.deps[row.name] = row.deps /\ reg.caps[row.name] = row.caps
                     /\ ToSet(row.deps) \subseteq Names(reg)
               /\ Acyclic(reg)
<1> DEFINE reg == RegistrationOf(Rows(on))
           R == ToSet(Rows(on))
<1>1. NamesDiffer(Rows(on)) /\ R = RowsOf(on)
  BY RowsAre
<1>2. /\ Names(reg) = {row.name : row \in R}
      /\ \A row \in R : reg.deps[row.name] = row.deps /\ reg.caps[row.name] = row.caps
      /\ IsRegistration(reg) /\ RegisteredOnce(reg)
      /\ Len(reg.order) = Len(Rows(on))
  BY <1>1, RegistrationIs, RowsDepend
<1> HIDE DEF reg, R
<1>3. \A row \in R : \/ ToSet(row.deps) = {}
                     \/ row.name = "dependent" /\ ToSet(row.deps) = {"flaky"} /\ "flaky" \in Names(reg)
                     \/ /\ row.name = "llm-serving" /\ ToSet(row.deps) = {"model-manager"}
                        /\ "model-manager" \in Names(reg)
                     \/ /\ row.name = "docqa" /\ ToSet(row.deps) = {"llm-serving"}
                        /\ "llm-serving" \in Names(reg)
  <2> TAKE row \in R
  <2>1. \/ ToSet(row.deps) = {}
        \/ row = Dependent /\ "demo_modules" \in on /\ ToSet(row.deps) = {"flaky"}
        \/ row = Serving(on) /\ ServingBuilt(on) /\ ToSet(row.deps) = {"model-manager"}
        \/ row = Docqa /\ "docqa" \in on /\ ToSet(row.deps) = {"llm-serving"}
    BY <1>1, RowsDepend
  <2>2. "demo_modules" \in on => Lone("flaky") \in R
    BY <1>1 DEF RowsOf
  <2>3. ServingBuilt(on) => Manager \in R /\ Serving(on) \in R
    BY <1>1 DEF RowsOf
  <2>4. "docqa" \in on => ServingBuilt(on)
    BY DEF ServingBuilt
  <2> QED
    BY <1>2, <2>1, <2>2, <2>3, <2>4, RowsNamed
<1>4. \A m \in Names(reg) :
         \/ ToSet(reg.deps[m]) = {}
         \/ m = "dependent" /\ ToSet(reg.deps[m]) = {"flaky"}
         \/ m = "llm-serving" /\ ToSet(reg.deps[m]) = {"model-manager"}
         \/ m = "docqa" /\ ToSet(reg.deps[m]) = {"llm-serving"}
  BY <1>2, <1>3
<1>5. Acyclic(reg)
  <2> SUFFICES ASSUME NEW S \in SUBSET Names(reg), S # {}
               PROVE  \E m \in S : ToSet(reg.deps[m]) \cap S = {}
    BY DEF Acyclic
  <2>1. CASE "flaky" \in S
    BY <1>4, <2>1
  <2>2. CASE "model-manager" \in S
    BY <1>4, <2>2
  <2>3. CASE "flaky" \notin S /\ "model-manager" \notin S /\ "llm-serving" \in S
    BY <1>4, <2>3
  <2>4. CASE "flaky" \notin S /\ "model-manager" \notin S /\ "llm-serving" \notin S
    BY <1>4, <2>4
  <2> QED
    BY <2>1, <2>2, <2>3, <2>4
<1> QED
  BY <1>2, <1>3, <1>5 DEF reg, R

\* main.py:67-154 with registry.py:54-78: every combination of flags registers
\* modules that fit together.
THEOREM ModulesAlwaysFitTogether ==
    ASSUME NEW on
    PROVE  ModulesFitTogether(on)
<1> DEFINE rows == Rows(on)
           reg == RegistrationOf(rows)
           N == Names(reg)
           started == StartOrder(reg)
           place(name) == CHOOSE i \in 1 .. Len(started) : started[i] = name
<1>1. /\ IsRegistration(reg) /\ RegisteredOnce(reg) /\ Len(reg.order) = Len(rows)
      /\ N = {row.name : row \in ToSet(rows)}
      /\ \A row \in ToSet(rows) :
            /\ reg.deps[row.name] = row.deps /\ reg.caps[row.name] = row.caps
            /\ ToSet(row.deps) \subseteq N
      /\ Acyclic(reg)
  BY RootRegisters
<1> HIDE DEF reg, rows
<1>2. StartOrderIsSound(reg)
  BY <1>1, StartOrderIsAlwaysSound
<1>3. Len(started) = Len(rows)
  BY <1>1, <1>2 DEF StartOrderIsSound
<1>4. Cardinality(N) = Len(rows)
  <2>1. reg.order \in Seq(N) /\ Once(reg.order)
    BY <1>1 DEF IsRegistration, RegisteredOnce, Once
  <2> QED
    BY <1>1, <2>1, OnceCounts DEF Names
<1>5. ASSUME NEW row \in ToSet(rows), NEW dep \in ToSet(row.deps)
      PROVE  dep \in N /\ place(dep) < place(row.name)
  <2>1. row.name \in N /\ dep \in N /\ dep \in ToSet(reg.deps[row.name])
    BY <1>1
  <2>2. ~Leads(reg, dep, row.name)
    BY <1>1, <2>1, NothingLeadsBack DEF Deps
  <2>3. row.name \notin Needs(reg, dep)
    <3>1. PICK C \in SUBSET N : dep \in C /\ Closed(reg, C) /\ row.name \notin C
      BY <2>2 DEF Leads
    <3>2. \A m \in C : ToSet(reg.deps[m]) \subseteq C
      <4> TAKE m \in C
      <4>1. ToSet(reg.deps[m]) \subseteq N
        BY <1>1
      <4> QED
        BY <3>1, <4>1 DEF Closed, Deps
    <3>3. C \in SUBSET Mentioned(reg)
      BY DEF Mentioned
    <3> QED
      BY <2>1, <3>1, <3>2, <3>3, NeedsIsLeast
  <2>4. place(dep) < place(row.name)
    BY <1>2, <2>1, <2>3 DEF StartOrderIsSound
  <2> QED
    BY <2>1, <2>4
<1>6. AvailableCapabilities(reg, N) = UNION {ToSet(row.caps) : row \in ToSet(rows)}
  <2>1. ASSUME NEW name \in N
        PROVE  IsAvailable(reg, N, name)
    <3>1. Holds(reg, N, {}, N)
      BY <1>1 DEF Holds
    <3>2. IsFiniteSet(Names(reg))
      BY <1>1 DEF IsRegistration
    <3> QED
      BY <2>1, <3>1, <3>2, IsAvailableHeld
  <2>2. AvailableCapabilities(reg, N) = UNION {ToSet(reg.caps[name]) : name \in N}
    BY <2>1 DEF AvailableCapabilities
  <2> QED
    BY <1>1, <2>2
<1>7. on \cap {"agent", "docqa", "browser"} # {} => "llm-serving" \in N
  <2>1. on \cap {"agent", "docqa", "browser"} # {} => Serving(on) \in ToSet(rows)
    BY RowsAre DEF RowsOf, ServingBuilt, rows
  <2> QED
    BY <1>1, <2>1, RowsNamed
<1> QED
  BY <1>3, <1>4, <1>5, <1>6, <1>7 DEF ModulesFitTogether, reg, rows

\* main.py:193-251 with the rules of gate.py: every combination of flags gates
\* the tools it registers by what they do.
THEOREM ToolsAlwaysMatchTheirTier ==
    ASSUME NEW on
    PROVE  ToolsMatchTheirTier(on)
<1> DEFINE benign(tool) == [tool |-> tool, malformed |-> FALSE, finds |-> {}]
           effects == {"storage_write", "storage_delete", "storage_move", "open_url",
                       "web_answer", "run_command", "write_workspace_file", McpTool}
<1>1. ASSUME NEW tool \in RegisteredTools(on)
      PROVE  Classify(SafeTools(on), benign(tool)) =
               IF tool \in effects THEN "needs_confirmation" ELSE "safe"
  <2>1. IF tool \in effects THEN tool \in EffectTools
        ELSE tool \notin EffectTools /\ tool \in SafeTools(on)
    BY TiersAre
  <2> HIDE DEF effects
  <2> QED
    BY <2>1, BenignVerdict
<1>2. SafeTools(on) \ DefaultSafeTools \subseteq RegisteredTools(on)
  BY AllowlistIsRegistered
<1>3. RegisteredTools(on) # {} => ChainBuilt(on)
  BY RegisteredToolsAre DEF ChainBuilt
<1>4. "answer_about_image" \in RegisteredTools(on) =>
        \E row \in ToSet(Rows(on)) : "multimodal" \in ToSet(row.caps)
  <2> SUFFICES ASSUME "answer_about_image" \in RegisteredTools(on)
               PROVE  \E row \in ToSet(Rows(on)) : "multimodal" \in ToSet(row.caps)
    OBVIOUS
  <2>1. "docqa" \in on /\ "model_mmproj_file" \in on
    BY RegisteredToolsAre
       DEF ImagesServed, IngestBuilt, DocqaTools, StorageTools, StorageReads, RemoteTools,
           BrowserTools, ExecTools, McpTool
  <2>2. Serving(on) \in ToSet(Rows(on))
    BY <2>1, RowsAre DEF RowsOf, ServingBuilt
  <2>3. Serving(on).caps = <<"chat", "multimodal">>
    BY <2>1 DEF Serving, Row
  <2>4. "multimodal" \in ToSet(<<"chat", "multimodal">>)
    <3> DEFINE s == <<"chat", "multimodal">>
    <3>1. 2 \in DOMAIN s /\ s[2] = "multimodal"
      OBVIOUS
    <3> QED
      BY <3>1 DEF ToSet
  <2> QED
    BY <2>2, <2>3, <2>4
<1> QED
  BY <1>1, <1>2, <1>3, <1>4 DEF ToolsMatchTheirTier

-----------------------------------------------------------------------------
(* Going through a list, and sorting a finite set.                         *)

\* What holds at 0 and with each number at the next holds up to n.
LEMMA Stepwise ==
    ASSUME NEW n \in Nat, NEW S, 0 \in S,
           \A k \in 1 .. n : k - 1 \in S => k \in S
    PROVE  0 .. n \subseteq S
<1> DEFINE out == (0 .. n) \ S
<1> SUFFICES ASSUME out # {}
             PROVE  FALSE
  OBVIOUS
<1>1. PICK m \in out : \A k \in out : m <= k
  <2>1. out \in SUBSET Nat
    OBVIOUS
  <2> HIDE DEF out
  <2> QED
    BY <2>1, LeastNatural
<1>2. m \in 1 .. n /\ m - 1 \in 0 .. n /\ ~(m <= m - 1)
  BY <1>1
<1>3. m - 1 \in S
  BY <1>1, <1>2
<1> QED
  BY <1>1, <1>2, <1>3

\* A strict order that tells the members of S apart.
StrictOrder(S, R) ==
    /\ \A x, y \in S : x # y => <<x, y>> \in R \/ <<y, x>> \in R
    /\ \A x, y, z \in S : <<x, y>> \in R /\ <<y, z>> \in R => <<x, z>> \in R

\* A finite set has a last member.
LEMMA LastMember ==
    ASSUME NEW S, NEW R, IsFiniteSet(S), StrictOrder(S, R), S # {}
    PROVE  \E m \in S : \A x \in S \ {m} : <<x, m>> \in R
<1> DEFINE HasLast(T) == \E m \in T : \A x \in T \ {m} : <<x, m>> \in R
           sizes == {Cardinality(T) : T \in {U \in SUBSET S : U # {} /\ ~HasLast(U)}}
<1> SUFFICES ASSUME sizes # {}
             PROVE  FALSE
  OBVIOUS
<1>1. sizes \in SUBSET Nat
  BY FS_Subset, FS_CardinalityType
<1>2. PICK n \in sizes : \A k \in sizes : n <= k
  <2> HIDE DEF sizes
  <2> QED
    BY <1>1, LeastNatural
<1>3. PICK T \in SUBSET S : T # {} /\ ~HasLast(T) /\ Cardinality(T) = n
  BY <1>2
<1>4. PICK a \in T : TRUE
  BY <1>3
<1> DEFINE U == T \ {a}
<1>5. IsFiniteSet(T) /\ Cardinality(U) = n - 1 /\ n \in Nat
  BY <1>1, <1>2, <1>3, <1>4, FS_Subset, FS_RemoveElement
<1>6. CASE U = {}
  <2>1. \A x \in T \ {a} : <<x, a>> \in R
    BY <1>6
  <2> QED
    BY <1>3, <1>4, <2>1
<1>7. CASE U # {}
  <2>1. HasLast(U)
    <3>1. U \in SUBSET S
      OBVIOUS
    <3>2. ~HasLast(U) => n - 1 \in sizes
      BY <1>5, <1>7, <3>1
    <3> HIDE DEF sizes, HasLast, U
    <3> QED
      BY <1>2, <1>5, <3>2
  <2>2. PICK m \in U : \A x \in U \ {m} : <<x, m>> \in R
    BY <2>1
  <2>3. CASE <<m, a>> \in R
    <3>1. \A x \in T \ {a} : <<x, a>> \in R
      BY <2>2, <2>3 DEF StrictOrder
    <3> QED
      BY <1>3, <1>4, <3>1
  <2>4. CASE <<m, a>> \notin R
    <3>1. <<a, m>> \in R
      BY <2>2, <2>4 DEF StrictOrder
    <3>2. \A x \in T \ {m} : <<x, m>> \in R
      BY <2>2, <3>1
    <3> QED
      BY <1>3, <2>2, <3>2
  <2> QED
    BY <2>3, <2>4
<1> QED
  BY <1>6, <1>7

Sorts(s, S, R) ==
    /\ s \in [1 .. Cardinality(S) -> S]
    /\ \A x \in S : \E i \in DOMAIN s : s[i] = x
    /\ \A i, j \in DOMAIN s : i < j => <<s[i], s[j]>> \in R

\* A finite set can be sorted, and InOrder is it sorted.
LEMMA InOrderSorts ==
    ASSUME NEW S, NEW R, IsFiniteSet(S), StrictOrder(S, R)
    PROVE  Sorts(InOrder(S, R), S, R)
<1> DEFINE Sorted(T) == \E s : Sorts(s, T, R)
           sizes == {Cardinality(T) : T \in {U \in SUBSET S : ~Sorted(U)}}
<1>1. sizes = {}
  <2> SUFFICES ASSUME sizes # {}
               PROVE  FALSE
    OBVIOUS
  <2>1. sizes \in SUBSET Nat
    BY FS_Subset, FS_CardinalityType
  <2>2. PICK n \in sizes : \A k \in sizes : n <= k
    <3> HIDE DEF sizes
    <3> QED
      BY <2>1, LeastNatural
  <2>3. PICK T \in SUBSET S : ~Sorted(T) /\ Cardinality(T) = n
    BY <2>2
  <2>4. IsFiniteSet(T) /\ n \in Nat
    BY <2>1, <2>2, FS_Subset
  <2>5. CASE T = {}
    <3>1. Cardinality(T) = 0
      BY <2>5, FS_EmptySet
    <3>2. Sorts([i \in 1 .. 0 |-> i], T, R)
      BY <2>5, <3>1 DEF Sorts
    <3> QED
      BY <2>3, <3>2
  <2>6. CASE T # {}
    <3>1. StrictOrder(T, R)
      BY DEF StrictOrder
    <3>2. PICK m \in T : \A x \in T \ {m} : <<x, m>> \in R
      BY <2>4, <2>6, <3>1, LastMember
    <3> DEFINE U == T \ {m}
    <3>3. Cardinality(U) = n - 1
      BY <2>3, <2>4, <3>2, FS_RemoveElement
    <3>4. Sorted(U)
      <4>1. U \in SUBSET S
        OBVIOUS
      <4>2. ~Sorted(U) => n - 1 \in sizes
        BY <3>3, <4>1
      <4> HIDE DEF sizes, Sorted, U
      <4> QED
        BY <2>2, <2>4, <4>2
    <3>5. PICK s : Sorts(s, U, R)
      BY <3>4
    <3> DEFINE t == [i \in 1 .. n |-> IF i = n THEN m ELSE s[i]]
    <3>6. /\ n >= 1
          /\ s \in [1 .. n - 1 -> U] /\ DOMAIN s = 1 .. n - 1
          /\ \A x \in U : \E i \in 1 .. n - 1 : s[i] = x
          /\ \A i, j \in 1 .. n - 1 : i < j => <<s[i], s[j]>> \in R
      <4>1. n # 0
        BY <2>3, <2>4, <2>6, FS_EmptySet
      <4>2. n >= 1
        BY <2>4, <4>1
      <4> HIDE DEF U
      <4>3. s \in [1 .. n - 1 -> U] /\ DOMAIN s = 1 .. n - 1
        BY <3>3, <3>5 DEF Sorts
      <4> QED
        BY <3>5, <4>2, <4>3 DEF Sorts
    <3>7. t \in [1 .. n -> T] /\ DOMAIN t = 1 .. n
      BY <2>4, <3>2, <3>6
    <3>8. \A x \in T : \E i \in 1 .. n : t[i] = x
      <4> TAKE x \in T
      <4>1. CASE x = m
        BY <2>4, <3>6, <4>1
      <4>2. CASE x # m
        <5>1. PICK i \in 1 .. n - 1 : s[i] = x
          BY <3>6, <4>2
        <5> QED
          BY <2>4, <5>1
      <4> QED
        BY <4>1, <4>2
    <3>9. \A i, j \in 1 .. n : i < j => <<t[i], t[j]>> \in R
      <4> SUFFICES ASSUME NEW i \in 1 .. n, NEW j \in 1 .. n, i < j
                   PROVE  <<t[i], t[j]>> \in R
        OBVIOUS
      <4>1. i \in 1 .. n - 1 /\ t[i] = s[i] /\ s[i] \in T \ {m}
        BY <2>4, <3>6
      <4>2. CASE j = n
        BY <3>2, <4>1, <4>2
      <4>3. CASE j # n
        <5>1. j \in 1 .. n - 1 /\ t[j] = s[j]
          BY <2>4, <4>3
        <5> QED
          BY <3>6, <4>1, <5>1
      <4> QED
        BY <4>2, <4>3
    <3> HIDE DEF t
    <3>10. Sorts(t, T, R)
      BY <2>3, <3>7, <3>8, <3>9 DEF Sorts
    <3> QED
      BY <2>3, <3>10
  <2> QED
    BY <2>5, <2>6
<1>2. \E s : Sorts(s, S, R)
  BY <1>1
<1>3. InOrder(S, R) = CHOOSE s \in [1 .. Cardinality(S) -> S] :
        /\ \A x \in S : \E i \in DOMAIN s : s[i] = x
        /\ \A i, j \in DOMAIN s : i < j => <<s[i], s[j]>> \in R
  BY DEF InOrder
<1> QED
  BY <1>2, <1>3 DEF Sorts

\* g begins with a and goes from one value to the next by step.
Recurs(g, n, V, a, step) ==
    g \in [0 .. n -> V] /\ g[0] = a /\ \A k \in 1 .. n : g[k] = step[k][g[k - 1]]

\* A recursive definition over 0 .. n, from one number to the next, has a solution.
LEMMA ListRecursion ==
    ASSUME NEW n \in Nat, NEW V, NEW a \in V, NEW step \in [1 .. n -> [V -> V]]
    PROVE  \E g : Recurs(g, n, V, a, step)
<1> DEFINE Solves(g, m) == /\ g \in [0 .. m -> V] /\ g[0] = a
                           /\ \A k \in 1 .. m : g[k] = step[k][g[k - 1]]
           S == {m \in 0 .. n : \E g : Solves(g, m)}
<1>1. 0 \in S
  <2> DEFINE g == [k \in 0 .. 0 |-> a]
  <2>1. g \in [0 .. 0 -> V] /\ g[0] = a
    OBVIOUS
  <2> HIDE DEF g
  <2>2. Solves(g, 0)
    BY <2>1
  <2> HIDE DEF Solves
  <2> QED
    BY <2>2
<1>2. ASSUME NEW m \in 1 .. n, m - 1 \in S
      PROVE  m \in S
  <2>1. PICK h : Solves(h, m - 1)
    BY <1>2
  <2> DEFINE g == [k \in 0 .. m |-> IF k = m THEN step[m][h[m - 1]] ELSE h[k]]
  <2>2. m - 1 \in 0 .. m - 1 /\ h[m - 1] \in V /\ step[m] \in [V -> V]
    BY <2>1
  <2>3. step[m][h[m - 1]] \in V
    BY <2>2
  <2>4. g \in [0 .. m -> V] /\ g[0] = a
    BY <2>1, <2>3
  <2>5. ASSUME NEW k \in 1 .. m
        PROVE  g[k] = step[k][g[k - 1]]
    <3>1. k - 1 \in 0 .. m /\ k - 1 # m /\ g[k - 1] = h[k - 1]
      OBVIOUS
    <3>2. CASE k = m
      BY <3>1, <3>2
    <3>3. CASE k # m
      <4>1. k \in 1 .. m - 1 /\ g[k] = h[k]
        BY <3>3
      <4> QED
        BY <2>1, <3>1, <4>1
    <3> QED
      BY <3>2, <3>3
  <2> HIDE DEF g
  <2>6. Solves(g, m)
    BY <2>4, <2>5
  <2> HIDE DEF Solves
  <2> QED
    BY <2>6
<1>3. 0 .. n \subseteq S
  <2> HIDE DEF S
  <2> QED
    BY <1>1, <1>2, Stepwise
<1>4. PICK g : Solves(g, n)
  <2> HIDE DEF Solves
  <2> QED
    BY <1>3
<1>5. Recurs(g, n, V, a, step)
  BY <1>4 DEF Recurs
<1> QED
  BY <1>5

-----------------------------------------------------------------------------
(* Sums. *)

\* The sum of a list is reached one element after the other.
LEMMA TotalIs ==
    ASSUME NEW n \in Nat, NEW s \in [1 .. n -> Nat]
    PROVE  \E g \in [0 .. n -> Nat] :
              g[0] = 0 /\ (\A k \in 1 .. n : g[k] = g[k - 1] + s[k]) /\ Total(s) = g[n]
<1> DEFINE step == [k \in 1 .. n |-> [v \in Nat |-> v + s[k]]]
           f == CHOOSE g : g = [k \in 0 .. n |-> IF k = 0 THEN 0 ELSE g[k - 1] + s[k]]
<1>1. Len(s) = n
  OBVIOUS
<1>2. Total(s) = f[n]
  BY <1>1 DEF Total
<1>3. /\ step \in [1 .. n -> [Nat -> Nat]]
      /\ \A k \in 1 .. n, v \in Nat : step[k][v] = v + s[k]
      /\ 0 \in Nat
  OBVIOUS
<1> HIDE DEF step
<1>11. PICK g : Recurs(g, n, Nat, 0, step)
  BY <1>3, ListRecursion
<1>4. g \in [0 .. n -> Nat] /\ g[0] = 0 /\ \A k \in 1 .. n : g[k] = step[k][g[k - 1]]
  BY <1>11 DEF Recurs
<1>5. \A k \in 1 .. n : k - 1 \in 0 .. n /\ g[k] = g[k - 1] + s[k]
  <2> TAKE k \in 1 .. n
  <2>1. k - 1 \in 0 .. n
    OBVIOUS
  <2>2. g[k - 1] \in Nat
    BY <1>4, <2>1
  <2> QED
    BY <1>3, <1>4, <2>1, <2>2
<1>6. g = [k \in 0 .. n |-> IF k = 0 THEN 0 ELSE g[k - 1] + s[k]]
  BY <1>4, <1>5
<1>7. f = [k \in 0 .. n |-> IF k = 0 THEN 0 ELSE f[k - 1] + s[k]]
  BY <1>6
<1> HIDE DEF f
<1>8. f[0] = 0 /\ \A k \in 1 .. n : f[k] = f[k - 1] + s[k]
  BY <1>7
<1> DEFINE S == {k \in 0 .. n : f[k] \in Nat}
<1>9. 0 .. n \subseteq S
  <2>1. 0 \in S
    BY <1>8
  <2>2. \A k \in 1 .. n : k - 1 \in S => k \in S
    BY <1>8
  <2> HIDE DEF S
  <2> QED
    BY <2>1, <2>2, Stepwise
<1>10. f \in [0 .. n -> Nat]
  BY <1>7, <1>9
<1> QED
  BY <1>2, <1>8, <1>10

\* The sums of the beginnings of a list.
LEMMA TotalsGrow ==
    ASSUME NEW n \in Nat, NEW s \in [1 .. n -> Nat]
    PROVE  LET T(k) == Total([j \in 1 .. k |-> s[j]])
           IN  /\ T(0) = 0 /\ T(n) = Total(s)
               /\ \A k \in 0 .. n : T(k) \in Nat
               /\ \A k \in 1 .. n : T(k) = T(k - 1) + s[k]
<1> DEFINE T(k) == Total([j \in 1 .. k |-> s[j]])
<1>1. PICK g \in [0 .. n -> Nat] :
        g[0] = 0 /\ (\A k \in 1 .. n : g[k] = g[k - 1] + s[k]) /\ Total(s) = g[n]
  BY TotalIs
<1>2. ASSUME NEW k \in 0 .. n
      PROVE  T(k) = g[k]
  <2> DEFINE t == [j \in 1 .. k |-> s[j]]
  <2>1. t \in [1 .. k -> Nat] /\ k \in Nat /\ \A j \in 1 .. k : t[j] = s[j]
    OBVIOUS
  <2> HIDE DEF t
  <2>2. PICK h \in [0 .. k -> Nat] :
          h[0] = 0 /\ (\A j \in 1 .. k : h[j] = h[j - 1] + t[j]) /\ Total(t) = h[k]
    BY <2>1, TotalIs
  <2> DEFINE S == {j \in 0 .. k : h[j] = g[j]}
  <2>3. 0 \in S
    BY <1>1, <2>2
  <2>4. \A j \in 1 .. k : j - 1 \in S => j \in S
    BY <1>1, <2>1, <2>2
  <2>5. 0 .. k \subseteq S
    <3> HIDE DEF S
    <3> QED
      BY <2>1, <2>3, <2>4, Stepwise
  <2> QED
    BY <2>1, <2>2, <2>5 DEF t
<1> HIDE DEF T
<1>3. \A k \in 1 .. n : k \in 0 .. n /\ k - 1 \in 0 .. n
  OBVIOUS
<1>4. T(0) = 0 /\ T(n) = Total(s) /\ \A k \in 0 .. n : T(k) \in Nat
  BY <1>1, <1>2
<1>5. \A k \in 1 .. n : T(k) = T(k - 1) + s[k]
  BY <1>1, <1>2, <1>3
<1> QED
  BY <1>4, <1>5 DEF T

-----------------------------------------------------------------------------
(* The parsers, for archives and PDFs of any length.                       *)

\* The reading of an archive, section by section.
LEMMA HwpxUnfolds ==
    ASSUME NEW sections \in Seq(Nat), NEW maxBytes \in Nat
    PROVE  \E f : /\ f[0] = [ok |-> sections # <<>>, bytes |-> 0]
                  /\ \A k \in 1 .. Len(sections) :
                        f[k] = ReadSection(f[k - 1], sections[k], maxBytes)
                  /\ HwpxRead(sections, maxBytes) = f[Len(sections)]
<1> DEFINE n == Len(sections)
           V == [ok : BOOLEAN, bytes : Int]
           a == [ok |-> sections # <<>>, bytes |-> 0]
           step == [k \in 1 .. n |-> [v \in V |-> ReadSection(v, sections[k], maxBytes)]]
           f == CHOOSE g : g = [k \in 0 .. n |->
                  IF k = 0 THEN a ELSE ReadSection(g[k - 1], sections[k], maxBytes)]
<1>1. n \in Nat /\ a \in V /\ \A k \in 1 .. n : sections[k] \in Nat
  OBVIOUS
<1>2. ASSUME NEW k \in 1 .. n, NEW v \in V
      PROVE  ReadSection(v, sections[k], maxBytes) \in V
  BY <1>1 DEF ReadSection, HwpxBudget, Least
<1> HIDE DEF V
<1>3. /\ step \in [1 .. n -> [V -> V]]
      /\ \A k \in 1 .. n, v \in V : step[k][v] = ReadSection(v, sections[k], maxBytes)
  BY <1>2
<1> HIDE DEF step, a
<1>4. PICK g : Recurs(g, n, V, a, step)
  BY <1>1, <1>3, ListRecursion
<1>5. g \in [0 .. n -> V] /\ g[0] = a /\ \A k \in 1 .. n : g[k] = step[k][g[k - 1]]
  BY <1>4 DEF Recurs
<1>6. \A k \in 1 .. n : k - 1 \in 0 .. n /\ g[k] = ReadSection(g[k - 1], sections[k], maxBytes)
  <2> TAKE k \in 1 .. n
  <2>1. k - 1 \in 0 .. n
    BY <1>1
  <2>2. g[k - 1] \in V
    BY <1>5, <2>1
  <2> QED
    BY <1>3, <1>5, <2>1, <2>2
<1>7. g = [k \in 0 .. n |-> IF k = 0 THEN a ELSE ReadSection(g[k - 1], sections[k], maxBytes)]
  BY <1>5, <1>6
<1>8. f = [k \in 0 .. n |-> IF k = 0 THEN a ELSE ReadSection(f[k - 1], sections[k], maxBytes)]
  BY <1>7
<1>9. HwpxRead(sections, maxBytes) = f[n]
  BY DEF HwpxRead, a
<1> HIDE DEF f
<1>10. f[0] = a /\ \A k \in 1 .. n : f[k] = ReadSection(f[k - 1], sections[k], maxBytes)
  BY <1>1, <1>8
<1> QED
  BY <1>9, <1>10 DEF a

\* loaders.py:165-189: how much is read, and when the archive is refused.
LEMMA HwpxIsBounded ==
    ASSUME NEW sections \in Seq(Nat), NEW maxBytes \in Nat
    PROVE  LET read == HwpxRead(sections, maxBytes)
           IN  /\ read.bytes <= maxBytes + 1
               /\ read.ok <=> sections # <<>> /\ Total(sections) <= maxBytes
<1> DEFINE n == Len(sections)
           T(k) == Total([j \in 1 .. k |-> sections[j]])
<1>1. PICK f : /\ f[0] = [ok |-> sections # <<>>, bytes |-> 0]
               /\ \A k \in 1 .. n : f[k] = ReadSection(f[k - 1], sections[k], maxBytes)
               /\ HwpxRead(sections, maxBytes) = f[n]
  BY HwpxUnfolds
<1>2. /\ n \in Nat /\ sections \in [1 .. n -> Nat]
      /\ T(0) = 0 /\ T(n) = Total(sections)
      /\ \A k \in 0 .. n : T(k) \in Nat
      /\ \A k \in 1 .. n : T(k) = T(k - 1) + sections[k]
  <2>1. n \in Nat /\ sections \in [1 .. n -> Nat]
    OBVIOUS
  <2> QED
    BY <2>1, TotalsGrow
<1> HIDE DEF T
<1> DEFINE Fits(k) == /\ f[k].ok \in BOOLEAN /\ f[k].bytes \in Nat
                      /\ f[k].bytes <= maxBytes + 1
                      /\ f[k].ok <=> sections # <<>> /\ T(k) <= maxBytes
                      /\ f[k].ok => f[k].bytes = T(k)
           S == {k \in 0 .. n : Fits(k)}
<1>3. 0 \in S
  <2>1. f[0].ok = (sections # <<>>) /\ f[0].bytes = 0
    BY <1>1
  <2>2. T(0) = 0 /\ 0 \in 0 .. n
    BY <1>2
  <2> HIDE DEF T
  <2>3. f[0].ok \in BOOLEAN /\ (f[0].ok <=> sections # <<>>)
    BY <2>1
  <2>4. Fits(0)
    BY <2>1, <2>2, <2>3
  <2> HIDE DEF Fits
  <2> QED
    BY <2>2, <2>4
<1>4. ASSUME NEW k \in 1 .. n, k - 1 \in S
      PROVE  k \in S
  <2> DEFINE r == f[k - 1]
             size == sections[k]
             t == T(k - 1)
  <2>1. size \in Nat /\ T(k) = t + size /\ t \in Nat
    BY <1>2
  <2>2. f[k] = ReadSection(r, size, maxBytes)
    BY <1>1
  <2>3. /\ r.ok \in BOOLEAN /\ r.bytes \in Nat
        /\ r.bytes <= maxBytes + 1
        /\ r.ok <=> sections # <<>> /\ t <= maxBytes
        /\ r.ok => r.bytes = t
    <3> HIDE DEF T
    <3> QED
      BY <1>4
  <2> HIDE DEF r, size, t
  <2> DEFINE now == f[k]
             sum == T(k)
  <2> HIDE DEF now, sum
  <2>4. now = ReadSection(r, size, maxBytes) /\ sum = t + size
    BY <2>1, <2>2 DEF now, sum
  <2>5. /\ now.ok \in BOOLEAN /\ now.bytes \in Nat
        /\ now.bytes <= maxBytes + 1
        /\ now.ok <=> sections # <<>> /\ sum <= maxBytes
        /\ now.ok => now.bytes = sum
    <3>1. CASE ~r.ok
      <4>1. now = r
        BY <2>4, <3>1 DEF ReadSection
      <4> QED
        BY <2>1, <2>3, <2>4, <3>1, <4>1
    <3>2. CASE r.ok
      <4>1. now = [ok |-> size <= maxBytes - r.bytes,
                   bytes |-> r.bytes + Least(size, maxBytes - r.bytes + 1)]
        BY <2>4, <3>2 DEF ReadSection, HwpxBudget
      <4>2. /\ now.ok \in BOOLEAN
            /\ now.ok <=> size <= maxBytes - r.bytes
            /\ now.bytes = r.bytes + Least(size, maxBytes - r.bytes + 1)
        <5>1. now.ok = (size <= maxBytes - r.bytes)
          BY <4>1
        <5>2. now.bytes = r.bytes + Least(size, maxBytes - r.bytes + 1)
          BY <4>1
        <5>3. (size <= maxBytes - r.bytes) \in BOOLEAN
          OBVIOUS
        <5>4. now.ok \in BOOLEAN
          BY <5>1, <5>3, Zenon
        <5>5. now.ok <=> size <= maxBytes - r.bytes
          BY <5>1, Zenon
        <5> QED
          BY <5>2, <5>4, <5>5
      <4>3. r.bytes = t /\ t <= maxBytes /\ sections # <<>>
        BY <2>3, <3>2
      <4> DEFINE left == maxBytes - r.bytes
      <4>4. left \in Nat /\ left = maxBytes - t
        BY <2>1, <4>3
      <4>5. now.bytes = r.bytes + (IF size < left + 1 THEN size ELSE left + 1)
        BY <4>2 DEF Least
      <4> HIDE DEF left
      <4>6. now.ok <=> size <= left
        BY <4>2 DEF left
      <4>7. size <= left <=> sum <= maxBytes
        BY <2>1, <2>4, <4>4
      <4>8. size <= left => now.bytes = sum
        BY <2>1, <2>4, <4>3, <4>4, <4>5
      <4>9. now.bytes \in Nat /\ now.bytes <= maxBytes + 1
        BY <2>1, <4>3, <4>4, <4>5
      <4> QED
        BY <4>2, <4>3, <4>6, <4>7, <4>8, <4>9
    <3> QED
      BY <3>1, <3>2
  <2>6. Fits(k)
    <3> HIDE DEF T
    <3> QED
      BY <2>5 DEF now, sum
  <2> HIDE DEF Fits
  <2> QED
    BY <2>6
<1>5. 0 .. n \subseteq S
  <2> HIDE DEF S
  <2> QED
    BY <1>2, <1>3, <1>4, Stepwise
<1>6. Fits(n)
  BY <1>2, <1>5
<1> HIDE DEF T
<1> QED
  BY <1>1, <1>2, <1>6

\* The rendering of a document, page by page.
LEMMA RenderUnfolds ==
    ASSUME NEW pages \in Seq(Pages), NEW bounds, bounds.maxPages \in Nat
    PROVE  LET count == Least(Len(pages), bounds.maxPages)
           IN  \E f : /\ f[0] = [failed |-> pages = <<>>, bytes |-> 0, shown |-> 0]
                      /\ \A k \in 1 .. count : f[k] = RenderPage(f[k - 1], pages[k], bounds)
                      /\ RenderPdf(pages, bounds) = f[count]
<1> DEFINE n == Least(Len(pages), bounds.maxPages)
           V == [failed : BOOLEAN, bytes : Int, shown : Int]
           a == [failed |-> pages = <<>>, bytes |-> 0, shown |-> 0]
           step == [k \in 1 .. n |-> [v \in V |-> RenderPage(v, pages[k], bounds)]]
           f == CHOOSE g : g = [k \in 0 .. n |->
                  IF k = 0 THEN a ELSE RenderPage(g[k - 1], pages[k], bounds)]
<1>1. n \in Nat /\ a \in V /\ \A k \in 1 .. n : pages[k] \in Pages
  BY DEF Least
<1> HIDE DEF n
<1>2. ASSUME NEW k \in 1 .. n, NEW v \in V
      PROVE  RenderPage(v, pages[k], bounds) \in V
  BY <1>1 DEF RenderPage, Pages
<1> HIDE DEF V
<1>3. /\ step \in [1 .. n -> [V -> V]]
      /\ \A k \in 1 .. n, v \in V : step[k][v] = RenderPage(v, pages[k], bounds)
  BY <1>2
<1> HIDE DEF step, a
<1>4. PICK g : Recurs(g, n, V, a, step)
  BY <1>1, <1>3, ListRecursion
<1>5. g \in [0 .. n -> V] /\ g[0] = a /\ \A k \in 1 .. n : g[k] = step[k][g[k - 1]]
  BY <1>4 DEF Recurs
<1>6. \A k \in 1 .. n : k - 1 \in 0 .. n /\ g[k] = RenderPage(g[k - 1], pages[k], bounds)
  <2> TAKE k \in 1 .. n
  <2>1. k - 1 \in 0 .. n
    BY <1>1
  <2>2. g[k - 1] \in V
    BY <1>5, <2>1
  <2> QED
    BY <1>3, <1>5, <2>1, <2>2
<1>7. g = [k \in 0 .. n |-> IF k = 0 THEN a ELSE RenderPage(g[k - 1], pages[k], bounds)]
  BY <1>5, <1>6
<1>8. f = [k \in 0 .. n |-> IF k = 0 THEN a ELSE RenderPage(f[k - 1], pages[k], bounds)]
  BY <1>7
<1>9. RenderPdf(pages, bounds) = f[n]
  BY DEF RenderPdf, a, n
<1> HIDE DEF f
<1>10. f[0] = a /\ \A k \in 1 .. n : f[k] = RenderPage(f[k - 1], pages[k], bounds)
  BY <1>1, <1>8
<1> QED
  BY <1>9, <1>10 DEF a, n

\* render.py:32-91: what is rendered, and when it fails.
LEMMA RenderIsBounded ==
    ASSUME NEW pages \in Seq(Pages), NEW bounds,
           bounds.maxPages \in Nat \ {0}, bounds.maxBytes \in Nat, bounds.maxPx \in Nat
    PROVE  LET shown == RenderPdf(pages, bounds)
           IN  /\ ~shown.failed => /\ shown.shown = Least(Len(pages), bounds.maxPages)
                                   /\ shown.bytes <= bounds.maxBytes
               /\ /\ pages # <<>> /\ Len(pages) <= bounds.maxPages
                  /\ \A n \in DOMAIN pages : pages[n].ok /\ pages[n].px <= bounds.maxPx
                  /\ Total([n \in DOMAIN pages |-> pages[n].bytes]) <= bounds.maxBytes
                  => ~shown.failed
<1> DEFINE n == Least(Len(pages), bounds.maxPages)
           len == Len(pages)
           s == [k \in 1 .. len |-> pages[k].bytes]
           T(k) == Total([j \in 1 .. k |-> s[j]])
<1>0. /\ len \in Nat /\ DOMAIN pages = 1 .. len
      /\ \A k \in 1 .. len : pages[k].bytes \in Nat /\ pages[k].px \in Nat /\ pages[k].ok \in BOOLEAN
      /\ n \in Nat /\ n <= len /\ (len <= bounds.maxPages => n = len)
      /\ \A k \in 1 .. n : k \in 1 .. len
      /\ pages # <<>> => len > 0
  <2>1. \A k \in 1 .. len : pages[k] \in Pages
    OBVIOUS
  <2> QED
    BY <2>1 DEF Least, Pages
<1>1. PICK f : /\ f[0] = [failed |-> pages = <<>>, bytes |-> 0, shown |-> 0]
               /\ \A k \in 1 .. n : f[k] = RenderPage(f[k - 1], pages[k], bounds)
               /\ RenderPdf(pages, bounds) = f[n]
  BY RenderUnfolds
<1> HIDE DEF n, len
<1>2. /\ s \in [1 .. len -> Nat]
      /\ \A k \in 1 .. len : s[k] = pages[k].bytes
      /\ s = [k \in DOMAIN pages |-> pages[k].bytes]
  BY <1>0
<1> HIDE DEF s
<1>3. /\ T(0) = 0 /\ T(len) = Total(s)
      /\ \A k \in 0 .. len : T(k) \in Nat
      /\ \A k \in 1 .. len : T(k) = T(k - 1) + s[k]
  BY <1>0, <1>2, TotalsGrow
<1> HIDE DEF T
<1> DEFINE Good == /\ pages # <<>> /\ \A k \in 1 .. len : pages[k].ok /\ pages[k].px <= bounds.maxPx
                   /\ T(len) <= bounds.maxBytes
           Fits(k) == /\ f[k].failed \in BOOLEAN /\ f[k].bytes \in Nat
                      /\ ~f[k].failed => /\ f[k].shown = k /\ f[k].bytes = T(k)
                                         /\ T(k) <= bounds.maxBytes
                      /\ Good => ~f[k].failed
           S == {k \in 0 .. n : Fits(k)}
<1>4. \A k \in 0 .. len : T(k) <= T(len)
  <2> DEFINE U == {k \in 0 .. len : T(len - k) <= T(len)}
  <2>1. 0 \in U
    BY <1>0, <1>3
  <2>2. ASSUME NEW k \in 1 .. len, k - 1 \in U
        PROVE  k \in U
    <3>1. /\ len - k \in 0 .. len /\ len - k + 1 \in 1 .. len
          /\ len - (k - 1) = len - k + 1 /\ (len - k + 1) - 1 = len - k
      BY <1>0
    <3>2. T(len - k + 1) = T(len - k) + s[len - k + 1] /\ T(len - k + 1) <= T(len)
      BY <1>3, <2>2, <3>1
    <3>3. s[len - k + 1] \in Nat /\ T(len - k) \in Nat /\ T(len) \in Nat
      BY <1>0, <1>2, <1>3, <3>1
    <3> QED
      BY <3>1, <3>2, <3>3
  <2>3. 0 .. len \subseteq U
    <3> HIDE DEF U
    <3> QED
      BY <1>0, <2>1, <2>2, Stepwise
  <2> TAKE k \in 0 .. len
  <2>4. len - k \in 0 .. len /\ len - (len - k) = k
    BY <1>0
  <2>5. len - k \in U
    <3> HIDE DEF U
    <3> QED
      BY <2>3, <2>4
  <2> QED
    BY <2>4, <2>5
<1>5. 0 \in S
  <2>1. f[0].failed = (pages = <<>>) /\ f[0].bytes = 0 /\ f[0].shown = 0
    BY <1>1
  <2>2. f[0].failed \in BOOLEAN /\ (f[0].failed <=> pages = <<>>)
    BY <2>1
  <2>3. Good => pages # <<>>
    OBVIOUS
  <2> HIDE DEF Good
  <2>4. Fits(0)
    BY <1>3, <2>1, <2>2, <2>3
  <2> HIDE DEF Fits
  <2> QED
    BY <1>0, <2>4
<1>6. ASSUME NEW k \in 1 .. n, k - 1 \in S
      PROVE  k \in S
  <2> DEFINE r == f[k - 1]
             page == pages[k]
  <2>1. /\ page.bytes \in Nat /\ page.px \in Nat /\ page.ok \in BOOLEAN
        /\ T(k) = T(k - 1) + page.bytes /\ T(k - 1) \in Nat /\ T(k) \in Nat
        /\ T(k) <= T(len) /\ T(len) \in Nat
        /\ k \in 1 .. len
    <3>1. k \in 1 .. len /\ k \in 0 .. len /\ k - 1 \in 0 .. len /\ len \in 0 .. len
      BY <1>0
    <3> QED
      BY <1>0, <1>2, <1>3, <1>4, <3>1
  <2>2. /\ r.failed \in BOOLEAN /\ r.bytes \in Nat
        /\ ~r.failed => r.shown = k - 1 /\ r.bytes = T(k - 1) /\ T(k - 1) <= bounds.maxBytes
        /\ Good => ~r.failed
    BY <1>6
  <2>3. f[k] = RenderPage(r, page, bounds)
    BY <1>1
  <2>4. Good => page.ok /\ page.px <= bounds.maxPx /\ T(len) <= bounds.maxBytes
    BY <2>1
  <2> HIDE DEF r, page, Good
  <2> DEFINE now == f[k]
             sum == T(k)
             t == T(k - 1)
  <2> HIDE DEF now, sum, t
  <2>5. /\ now.failed \in BOOLEAN /\ now.bytes \in Nat
        /\ ~now.failed => now.shown = k /\ now.bytes = sum /\ sum <= bounds.maxBytes
        /\ Good => ~now.failed
    <3>1. CASE r.failed
      <4>1. now = r
        BY <2>3, <3>1 DEF RenderPage, now
      <4> QED
        BY <2>2, <3>1, <4>1
    <3>2. CASE ~r.failed
      <4>1. now = [failed |-> ~page.ok \/ page.px > bounds.maxPx
                              \/ r.bytes + page.bytes > bounds.maxBytes,
                   bytes |-> r.bytes + page.bytes,
                   shown |-> r.shown + 1]
        BY <2>3, <3>2 DEF RenderPage, now
      <4>2. /\ now.failed \in BOOLEAN
            /\ now.failed <=> ~page.ok \/ page.px > bounds.maxPx
                              \/ r.bytes + page.bytes > bounds.maxBytes
            /\ now.bytes = r.bytes + page.bytes /\ now.shown = r.shown + 1
        BY <4>1
      <4>3. r.bytes = t /\ r.shown = k - 1 /\ sum = t + page.bytes /\ t \in Nat
        BY <2>1, <2>2, <3>2 DEF sum, t
      <4>4. now.bytes = sum /\ now.bytes \in Nat /\ now.shown = k
        BY <1>0, <2>1, <4>2, <4>3
      <4>5. ~now.failed => sum <= bounds.maxBytes
        <5>1. now.failed <=> ~page.ok \/ page.px > bounds.maxPx \/ sum > bounds.maxBytes
          BY <4>2, <4>4
        <5> QED
          BY <2>1, <5>1 DEF sum
      <4>6. Good => ~now.failed
        <5>1. Good => sum <= bounds.maxBytes
          BY <2>1, <2>4 DEF sum
        <5>2. Good => ~(page.px > bounds.maxPx)
          BY <2>1, <2>4
        <5>3. Good => ~(r.bytes + page.bytes > bounds.maxBytes)
          BY <2>1, <2>2, <4>2, <4>4, <5>1 DEF sum
        <5> QED
          BY <2>4, <4>2, <5>2, <5>3
      <4> QED
        BY <4>2, <4>4, <4>5, <4>6
    <3> QED
      BY <3>1, <3>2
  <2>6. Fits(k)
    BY <2>5 DEF now, sum
  <2> HIDE DEF Fits
  <2> QED
    BY <2>6
<1>7. 0 .. n \subseteq S
  <2> HIDE DEF S
  <2> QED
    BY <1>0, <1>5, <1>6, Stepwise
<1>8. Fits(n)
  BY <1>0, <1>7
<1> HIDE DEF Good
<1>9. /\ pages # <<>> /\ Len(pages) <= bounds.maxPages
      /\ \A k \in DOMAIN pages : pages[k].ok /\ pages[k].px <= bounds.maxPx
      /\ Total([k \in DOMAIN pages |-> pages[k].bytes]) <= bounds.maxBytes
      => Good
  BY <1>0, <1>2, <1>3 DEF Good
<1> QED
  BY <1>1, <1>3, <1>8, <1>9 DEF n

\* loaders.py:165-189 and render.py:32-91: an archive or a PDF is parsed within
\* its bounds whatever it holds.
THEOREM ParsersAlwaysStayBounded ==
    ASSUME NEW sections \in Seq(Nat), NEW pages \in Seq(Pages), NEW bounds,
           bounds.maxBytes \in Nat \ {0}, bounds.maxPages \in Nat \ {0},
           bounds.maxPx \in Nat
    PROVE  ParsersStayBounded(sections, pages, bounds)
BY HwpxIsBounded, RenderIsBounded DEF ParsersStayBounded

-----------------------------------------------------------------------------
(* Paths, of any length.                                                   *)

\* One sequence begins with another when it agrees with it that far.
LEMMA PrefixIs ==
    ASSUME NEW X, NEW s \in Seq(X), NEW t \in Seq(X)
    PROVE  IsPrefix(s, t) <=> Len(s) <= Len(t) /\ \A i \in 1 .. Len(s) : t[i] = s[i]
<1> DEFINE n == Len(s)
<1>1. n \in Nat /\ s \in [1 .. n -> X] /\ t \in [1 .. Len(t) -> X] /\ Len(t) \in Nat
  OBVIOUS
<1>2. SubSeq(s, 1, n) = s
  OBVIOUS
<1>3. ASSUME n <= Len(t)
      PROVE  SubSeq(t, 1, n) = [i \in 1 .. n |-> t[i]]
  <2>1. /\ SubSeq(t, 1, n) \in Seq(X) /\ Len(SubSeq(t, 1, n)) = n
        /\ \A i \in 1 .. n : SubSeq(t, 1, n)[i] = t[i]
    BY <1>3
  <2> QED
    BY <2>1
<1>4. ASSUME n <= Len(t)
      PROVE  SubSeq(s, 1, n) = SubSeq(t, 1, n) <=> \A i \in 1 .. n : t[i] = s[i]
  <2>1. s = [i \in 1 .. n |-> s[i]]
    BY <1>1
  <2> QED
    BY <1>2, <1>3, <1>4, <2>1
<1> QED
  BY <1>4 DEF IsPrefix

\* The segments that are names, not steps.
Dots == {".", ".."}
Plain == Segments \ Dots

\* One segment: where it leads.
LEMMA StepIs ==
    ASSUME NEW v \in Seq(Plain), NEW s \in Segments
    PROVE  /\ Step(v, s) \in Seq(Plain)
           /\ s = "." => Step(v, s) = v
           /\ s = ".." /\ v = <<>> => Step(v, s) = v
           /\ s = ".." /\ v # <<>> =>
                /\ Len(Step(v, s)) = Len(v) - 1
                /\ \A i \in 1 .. Len(v) - 1 : Step(v, s)[i] = v[i]
           /\ s \notin Dots => Step(v, s) = Append(v, s)
<1>1. CASE s = "."
  <2>1. Step(v, s) = v
    BY <1>1 DEF Step
  <2> QED
    BY <1>1, <2>1 DEF Dots
<1>2. CASE s = ".."
  <2>1. Step(v, s) = IF v = <<>> THEN <<>> ELSE Front(v)
    BY <1>2 DEF Step
  <2>2. CASE v = <<>>
    BY <1>2, <2>1, <2>2 DEF Dots
  <2>3. CASE v # <<>>
    <3>1. Step(v, s) = SubSeq(v, 1, Len(v) - 1)
      BY <2>1, <2>3 DEF Front
    <3>2. Len(v) \in Nat /\ Len(v) # 0
      BY <2>3
    <3>3. /\ SubSeq(v, 1, Len(v) - 1) \in Seq(Plain) /\ Len(SubSeq(v, 1, Len(v) - 1)) = Len(v) - 1
          /\ \A i \in 1 .. Len(v) - 1 : SubSeq(v, 1, Len(v) - 1)[i] = v[i]
      <4> DEFINE m == Len(v) - 1
      <4>1. m \in Nat /\ m <= Len(v)
        BY <3>2
      <4> HIDE DEF m
      <4>2. SubSeq(v, 1, m) \in Seq(Plain) /\ Len(SubSeq(v, 1, m)) = m
        BY <4>1
      <4>3. \A i \in 1 .. m : SubSeq(v, 1, m)[i] = v[i]
        BY <4>1
      <4> QED
        BY <4>2, <4>3 DEF m
    <3> QED
      BY <1>2, <2>3, <3>1, <3>3 DEF Dots
  <2> QED
    BY <2>2, <2>3
<1>3. CASE s \notin Dots
  <2>1. s # "." /\ s # ".."
    BY <1>3 DEF Dots
  <2>2. Step(v, s) = Append(v, s)
    BY <2>1 DEF Step
  <2>3. s \in Plain
    BY <1>3 DEF Plain
  <2>4. Append(v, s) \in Seq(Plain)
    BY <2>3
  <2> QED
    BY <1>3, <2>1, <2>2, <2>4
<1> QED
  BY <1>1, <1>2, <1>3 DEF Dots

\* The way of a path, segment by segment.
Walked(w, start, s) ==
    /\ w[0] = start
    /\ \A k \in 0 .. Len(s) : w[k] \in Seq(Plain)
    /\ \A k \in 1 .. Len(s) : w[k] = Step(w[k - 1], s[k])

LEMMA WalkUnfolds ==
    ASSUME NEW root \in Seq(Plain), NEW path,
           path.absolute \in BOOLEAN, path.segments \in Seq(Segments)
    PROVE  \E w : /\ Walked(w, Start(root, path), path.segments)
                  /\ Normalized(root, path) = w[Len(path.segments)]
<1> DEFINE s == path.segments
           n == Len(s)
           V == Seq(Plain)
           a == Start(root, path)
           step == [k \in 1 .. n |-> [v \in V |-> Step(v, s[k])]]
           f == CHOOSE g : g = [k \in 0 .. n |-> IF k = 0 THEN a ELSE Step(g[k - 1], s[k])]
<1>1. n \in Nat /\ a \in V /\ \A k \in 1 .. n : s[k] \in Segments
  BY DEF Start
<1>2. ASSUME NEW k \in 1 .. n, NEW v \in V
      PROVE  Step(v, s[k]) \in V
  BY <1>1, StepIs
<1> HIDE DEF V, n, s
<1>3. /\ step \in [1 .. n -> [V -> V]]
      /\ \A k \in 1 .. n, v \in V : step[k][v] = Step(v, s[k])
  BY <1>2
<1> HIDE DEF step, a
<1>4. PICK g : Recurs(g, n, V, a, step)
  BY <1>1, <1>3, ListRecursion
<1>5. g \in [0 .. n -> V] /\ g[0] = a /\ \A k \in 1 .. n : g[k] = step[k][g[k - 1]]
  BY <1>4 DEF Recurs
<1>6. \A k \in 1 .. n : k - 1 \in 0 .. n /\ g[k] = Step(g[k - 1], s[k])
  <2> TAKE k \in 1 .. n
  <2>1. k - 1 \in 0 .. n
    BY <1>1
  <2>2. g[k - 1] \in V
    BY <1>5, <2>1
  <2> QED
    BY <1>3, <1>5, <2>1, <2>2
<1>7. g = [k \in 0 .. n |-> IF k = 0 THEN a ELSE Step(g[k - 1], s[k])]
  BY <1>5, <1>6
<1>8. f = [k \in 0 .. n |-> IF k = 0 THEN a ELSE Step(f[k - 1], s[k])]
  BY <1>7
<1>9. Normalized(root, path) = f[n]
  BY DEF Normalized, a, s, n
<1> HIDE DEF f
<1>10. f[0] = a /\ \A k \in 1 .. n : f[k] = Step(f[k - 1], s[k])
  BY <1>1, <1>8
<1> DEFINE S == {k \in 0 .. n : f[k] \in V}
<1>11. 0 .. n \subseteq S
  <2>1. 0 \in S
    BY <1>1, <1>10
  <2>2. \A k \in 1 .. n : k - 1 \in S => k \in S
    BY <1>2, <1>10
  <2> HIDE DEF S
  <2> QED
    BY <1>1, <2>1, <2>2, Stepwise
<1>12. \A k \in 0 .. n : f[k] \in V
  BY <1>11
<1> QED
  BY <1>9, <1>10, <1>12 DEF a, s, n, V, Walked

\* Its depth, segment by segment.
Deeper(depth, s) ==
    CASE s = "."  -> depth
      [] s = ".." -> IF depth = 0 THEN 0 ELSE depth - 1
      [] OTHER    -> depth + 1

LEMMA DeeperIs ==
    ASSUME NEW depth \in Nat, NEW s
    PROVE  /\ Deeper(depth, s) \in Nat
           /\ s = "." => Deeper(depth, s) = depth
           /\ s = ".." => Deeper(depth, s) = IF depth = 0 THEN 0 ELSE depth - 1
           /\ s \notin Dots => Deeper(depth, s) = depth + 1
<1>1. CASE s = "."
  <2>1. Deeper(depth, s) = depth
    BY <1>1 DEF Deeper
  <2> QED
    BY <1>1, <2>1 DEF Dots
<1>2. CASE s = ".."
  <2>1. Deeper(depth, s) = IF depth = 0 THEN 0 ELSE depth - 1
    BY <1>2 DEF Deeper
  <2>2. (IF depth = 0 THEN 0 ELSE depth - 1) \in Nat
    OBVIOUS
  <2> QED
    BY <1>2, <2>1, <2>2 DEF Dots
<1>3. CASE s \notin Dots
  <2>1. s # "." /\ s # ".."
    BY <1>3 DEF Dots
  <2>2. Deeper(depth, s) = depth + 1
    BY <2>1 DEF Deeper
  <2> QED
    BY <1>3, <2>1, <2>2
<1> QED
  BY <1>1, <1>2, <1>3 DEF Dots

\* The place a path ends at agrees with the root when depth and entries do.
AgreesWith(depth, start, root, s) ==
    LET entered(d) ==
          LET at == {i \in 1 .. Len(s) : s[i] \notin Dots /\ depth[i] = d}
          IN  IF at = {} THEN start[d]
              ELSE s[CHOOSE i \in at : \A j \in at : j <= i]
    IN  /\ depth[Len(s)] >= Len(root)
        /\ \A d \in 1 .. Len(root) : entered(d) = root[d]

Deepens(depth, start, s) ==
    /\ depth[0] = Len(start)
    /\ \A k \in 0 .. Len(s) : depth[k] \in Nat
    /\ \A k \in 1 .. Len(s) : depth[k] = Deeper(depth[k - 1], s[k])

LEMMA EndsUnfolds ==
    ASSUME NEW root \in Seq(Plain), NEW path,
           path.absolute \in BOOLEAN, path.segments \in Seq(Segments)
    PROVE  \E depth : /\ Deepens(depth, Start(root, path), path.segments)
                      /\ EndsWithin(root, path) <=>
                           AgreesWith(depth, Start(root, path), root, path.segments)
<1> DEFINE s == path.segments
           n == Len(s)
           a == Len(Start(root, path))
           step == [k \in 1 .. n |-> [v \in Nat |-> Deeper(v, s[k])]]
           f == CHOOSE g : g = [i \in 0 .. n |->
                  IF i = 0 THEN a
                  ELSE CASE s[i] = "."  -> g[i - 1]
                         [] s[i] = ".." -> IF g[i - 1] = 0 THEN 0 ELSE g[i - 1] - 1
                         [] OTHER       -> g[i - 1] + 1]
<1>1. n \in Nat /\ a \in Nat
  BY DEF Start
<1>2. EndsWithin(root, path) <=> AgreesWith(f, Start(root, path), root, s)
  BY DEF EndsWithin, AgreesWith, Dots
<1> HIDE DEF n, s
<1>3. /\ step \in [1 .. n -> [Nat -> Nat]]
      /\ \A k \in 1 .. n, v \in Nat : step[k][v] = Deeper(v, s[k])
  BY DeeperIs
<1> HIDE DEF step, a
<1>4. PICK g : Recurs(g, n, Nat, a, step)
  BY <1>1, <1>3, ListRecursion
<1>5. g \in [0 .. n -> Nat] /\ g[0] = a /\ \A k \in 1 .. n : g[k] = step[k][g[k - 1]]
  BY <1>4 DEF Recurs
<1>6. \A k \in 1 .. n : k - 1 \in 0 .. n /\ g[k] = Deeper(g[k - 1], s[k])
  <2> TAKE k \in 1 .. n
  <2>1. k - 1 \in 0 .. n
    BY <1>1
  <2>2. g[k - 1] \in Nat
    BY <1>5, <2>1
  <2> QED
    BY <1>3, <1>5, <2>1, <2>2
<1>7. g = [k \in 0 .. n |-> IF k = 0 THEN a ELSE Deeper(g[k - 1], s[k])]
  BY <1>5, <1>6
<1>8. f = CHOOSE h : h = [k \in 0 .. n |-> IF k = 0 THEN a ELSE Deeper(h[k - 1], s[k])]
  BY DEF Deeper
<1> HIDE DEF f
<1>9. f = [k \in 0 .. n |-> IF k = 0 THEN a ELSE Deeper(f[k - 1], s[k])]
  BY <1>7, <1>8
<1>10. f[0] = a /\ \A k \in 1 .. n : f[k] = Deeper(f[k - 1], s[k])
  BY <1>1, <1>9
<1> DEFINE S == {k \in 0 .. n : f[k] \in Nat}
<1>11. 0 .. n \subseteq S
  <2>1. 0 \in S
    BY <1>1, <1>10
  <2>2. \A k \in 1 .. n : k - 1 \in S => k \in S
    BY <1>10, DeeperIs
  <2> HIDE DEF S
  <2> QED
    BY <1>1, <2>1, <2>2, Stepwise
<1>12. \A k \in 0 .. n : f[k] \in Nat
  BY <1>11
<1> QED
  BY <1>2, <1>10, <1>12 DEF a, s, n, Deepens

\* A set of numbers up to n that is not empty has a greatest one.
LEMMA Greatest ==
    ASSUME NEW n \in Nat, NEW S \in SUBSET (0 .. n), S # {}
    PROVE  \E m \in S : \A k \in S : k <= m
<1> DEFINE T == {n - k : k \in S}
<1>1. T \in SUBSET Nat /\ T # {}
  <2>1. \A k \in S : n - k \in Nat
    OBVIOUS
  <2> QED
    BY <2>1
<1>2. PICK t \in T : \A k \in T : t <= k
  <2> HIDE DEF T
  <2> QED
    BY <1>1, LeastNatural
<1>3. PICK m \in S : t = n - m
  BY <1>2
<1>4. \A k \in S : n - m <= n - k
  BY <1>2, <1>3
<1>5. \A k \in S : k <= m
  <2> TAKE k \in S
  <2>1. k \in Nat /\ m \in Nat /\ n - m <= n - k
    BY <1>4
  <2> QED
    BY <2>1
<1> QED
  BY <1>5

\* The segment of s that was the last to enter depth d, among the first n.
EnteredBy(s, depth, n, d) == {i \in 1 .. n : s[i] \notin Dots /\ depth[i] = d}
At(s, depth, start, n, d, x) ==
    LET at == EnteredBy(s, depth, n, d)
    IN  /\ at = {} => d <= Len(start) /\ x = start[d]
        /\ \A i \in at : (\A j \in at : j <= i) => x = s[i]

LEMMA AtIs ==
    ASSUME NEW s, NEW depth, NEW start, NEW k, NEW m, NEW d, NEW x, NEW y,
           EnteredBy(s, depth, k, d) = EnteredBy(s, depth, m, d), x = y,
           At(s, depth, start, m, d, y)
    PROVE  At(s, depth, start, k, d, x)
BY DEF At

\* A walk is where its segments entered.
LEMMA WalkIsEntered ==
    ASSUME NEW s \in Seq(Segments), NEW start \in Seq(Plain), NEW w, NEW depth,
           Walked(w, start, s), Deepens(depth, start, s)
    PROVE  \A k \in 0 .. Len(s) :
              /\ Len(w[k]) = depth[k]
              /\ \A d \in 1 .. depth[k] : At(s, depth, start, k, d, w[k][d])
<1> DEFINE n == Len(s)
           Fits(k) == /\ Len(w[k]) = depth[k]
                      /\ \A d \in 1 .. depth[k] : At(s, depth, start, k, d, w[k][d])
           S == {k \in 0 .. n : Fits(k)}
<1>1. n \in Nat /\ \A k \in 1 .. n : s[k] \in Segments
  OBVIOUS
<1>9. /\ w[0] = start /\ depth[0] = Len(start)
      /\ \A k \in 0 .. n : w[k] \in Seq(Plain) /\ depth[k] \in Nat
      /\ \A k \in 1 .. n : w[k] = Step(w[k - 1], s[k])
      /\ \A k \in 1 .. n : depth[k] = Deeper(depth[k - 1], s[k])
  BY DEF Walked, Deepens
<1> HIDE DEF n
<1>2. 0 \in S
  <2>1. \A d : EnteredBy(s, depth, 0, d) = {}
    BY DEF EnteredBy
  <2>2. Fits(0)
    BY <1>9, <2>1 DEF At
  <2> QED
    BY <1>1, <2>2
<1>3. ASSUME NEW k \in 1 .. n, k - 1 \in S
      PROVE  k \in S
  <2> DEFINE m == k - 1
             v == w[m]
             now == w[k]
             old == depth[m]
             new == depth[k]
  <2>1. /\ m \in 0 .. n /\ k \in 0 .. n /\ k = m + 1 /\ m \in Nat
        /\ s[k] \in Segments
    BY <1>1
  <2>2. v \in Seq(Plain) /\ now = Step(v, s[k]) /\ new = Deeper(old, s[k]) /\ old \in Nat
    BY <1>9, <2>1
  <2>3. Fits(m)
    BY <1>3
  <2>4. Len(v) = old
    BY <2>3
  <2>5. \A d \in 1 .. old : At(s, depth, start, m, d, v[d])
    BY <2>3
  <2>6. \A d : EnteredBy(s, depth, k, d) =
                 EnteredBy(s, depth, m, d) \cup (IF s[k] \notin Dots /\ new = d THEN {k} ELSE {})
    BY <2>1 DEF EnteredBy
  <2> HIDE DEF Fits, S
  <2> HIDE DEF m, v, now, old, new
  <2>7. Len(now) = new /\ \A d \in 1 .. new : At(s, depth, start, k, d, now[d])
    <3>1. CASE s[k] = "."
      <4>1. now = v /\ new = old /\ s[k] \in Dots
        BY <2>1, <2>2, <3>1, StepIs, DeeperIs DEF Dots
      <4>2. \A d : EnteredBy(s, depth, k, d) = EnteredBy(s, depth, m, d)
        BY <2>6, <4>1
      <4> QED
        BY <2>4, <2>5, <4>1, <4>2, AtIs
    <3>2. CASE s[k] = ".." /\ v = <<>>
      <4>1. now = v /\ new = old /\ s[k] \in Dots
        <5>1. old = 0
          BY <2>4, <3>2
        <5> QED
          BY <2>1, <2>2, <3>2, <5>1, StepIs, DeeperIs DEF Dots
      <4>2. \A d : EnteredBy(s, depth, k, d) = EnteredBy(s, depth, m, d)
        BY <2>6, <4>1
      <4> QED
        BY <2>4, <2>5, <4>1, <4>2, AtIs
    <3>3. CASE s[k] = ".." /\ v # <<>>
      <4>1. old # 0
        BY <2>2, <2>4, <3>3
      <4>2. new = old - 1 /\ s[k] \in Dots
        BY <2>2, <3>3, <4>1, DeeperIs DEF Dots
      <4>3. Len(now) = old - 1 /\ \A i \in 1 .. old - 1 : now[i] = v[i]
        BY <2>1, <2>2, <2>4, <3>3, StepIs
      <4>4. \A d : EnteredBy(s, depth, k, d) = EnteredBy(s, depth, m, d)
        BY <2>6, <4>2
      <4>5. \A d \in 1 .. new : d \in 1 .. old
        BY <2>2, <4>1, <4>2
      <4> QED
        BY <2>5, <4>2, <4>3, <4>4, <4>5, AtIs
    <3>4. CASE s[k] \notin Dots
      <4>1. new = old + 1
        BY <2>2, <3>4, DeeperIs
      <4>2. now = Append(v, s[k])
        BY <2>1, <2>2, <3>4, StepIs
      <4>3. Len(now) = new /\ now[new] = s[k] /\ \A d \in 1 .. old : now[d] = v[d]
        BY <2>1, <2>2, <2>4, <4>1, <4>2
      <4>4. ASSUME NEW d \in 1 .. new
            PROVE  At(s, depth, start, k, d, now[d])
        <5>1. CASE d = new
          <6>1. k \in EnteredBy(s, depth, k, d)
            BY <2>6, <3>4, <5>1
          <6>2. \A i \in EnteredBy(s, depth, k, d) : i \in 1 .. k
            BY DEF EnteredBy
          <6>3. \A i \in EnteredBy(s, depth, k, d) : k <= i => i = k
            BY <2>1, <6>2
          <6> QED
            BY <4>3, <5>1, <6>1, <6>3 DEF At
        <5>2. CASE d # new
          <6>1. d \in 1 .. old
            BY <2>2, <4>1, <5>2
          <6>2. EnteredBy(s, depth, k, d) = EnteredBy(s, depth, m, d)
            BY <2>6, <5>2
          <6> QED
            BY <2>5, <4>3, <6>1, <6>2, AtIs
        <5> QED
          BY <5>1, <5>2
      <4> QED
        BY <4>3, <4>4
    <3> QED
      BY <3>1, <3>2, <3>3, <3>4 DEF Dots
  <2>8. Fits(k)
    BY <2>7 DEF Fits, now, new
  <2> QED
    BY <2>1, <2>8 DEF S
<1>4. 0 .. n \subseteq S
  <2> HIDE DEF S
  <2> QED
    BY <1>1, <1>2, <1>3, Stepwise
<1> QED
  BY <1>4 DEF n

\* Where a path is accepted, and what lies there.
LEMMA WithinIs ==
    ASSUME NEW root \in Seq(Plain), NEW path,
           path.absolute \in BOOLEAN, path.segments \in Seq(Segments)
    PROVE  /\ Normalized(root, path) \in Seq(Plain)
           /\ Within(root, Normalized(root, path)) <=> EndsWithin(root, path)
<1> DEFINE s == path.segments
           n == Len(s)
           start == Start(root, path)
           target == Normalized(root, path)
<1>1. n \in Nat /\ n \in 0 .. n /\ start \in Seq(Plain) /\ Len(root) \in Nat
  BY DEF Start
<1>2. PICK w : Walked(w, start, s) /\ target = w[n]
  BY WalkUnfolds
<1>3. PICK depth : /\ Deepens(depth, start, s)
                   /\ EndsWithin(root, path) <=> AgreesWith(depth, start, root, s)
  BY EndsUnfolds
<1> HIDE DEF start, target
<1>4. /\ Len(w[n]) = depth[n]
      /\ \A d \in 1 .. depth[n] : At(s, depth, start, n, d, w[n][d])
  BY <1>1, <1>2, <1>3, WalkIsEntered
<1>5. target \in Seq(Plain) /\ Len(target) = depth[n] /\ depth[n] \in Nat
  BY <1>1, <1>2, <1>3, <1>4 DEF Walked, Deepens
<1> DEFINE entered(d) ==
             LET at == {i \in 1 .. n : s[i] \notin Dots /\ depth[i] = d}
             IN  IF at = {} THEN start[d] ELSE s[CHOOSE i \in at : \A j \in at : j <= i]
<1>6. ASSUME NEW d \in 1 .. depth[n]
      PROVE  entered(d) = target[d]
  <2> DEFINE at == EnteredBy(s, depth, n, d)
  <2>1. At(s, depth, start, n, d, target[d])
    BY <1>2, <1>4
  <2>2. entered(d) = IF at = {} THEN start[d] ELSE s[CHOOSE i \in at : \A j \in at : j <= i]
    BY DEF EnteredBy
  <2>3. CASE at = {}
    BY <2>1, <2>2, <2>3 DEF At
  <2>4. CASE at # {}
    <3>1. at \in SUBSET (0 .. n)
      BY <1>1 DEF EnteredBy
    <3> HIDE DEF at
    <3>2. \E i \in at : \A j \in at : j <= i
      BY <1>1, <2>4, <3>1, Greatest
    <3> QED
      BY <2>1, <2>2, <2>4, <3>2 DEF At, at
  <2> QED
    BY <2>3, <2>4
<1>7. AgreesWith(depth, start, root, s) <=>
        Len(root) <= depth[n] /\ \A d \in 1 .. Len(root) : entered(d) = root[d]
  BY <1>1, <1>5 DEF AgreesWith
<1> HIDE DEF entered, n, s
<1>8. Within(root, target) <=>
        Len(root) <= depth[n] /\ \A d \in 1 .. Len(root) : target[d] = root[d]
  BY <1>5, PrefixIs DEF Within
<1>9. Len(root) <= depth[n] => \A d \in 1 .. Len(root) : d \in 1 .. depth[n]
  BY <1>1, <1>5
<1> QED
  BY <1>3, <1>5, <1>6, <1>7, <1>8, <1>9 DEF target

\* An upload lies directly below its identifier.
LEMMA UploadIsBelow ==
    ASSUME NEW root \in Seq(Plain), NEW path, path.segments \in Seq(Segments), NEW bad,
           Destination(root, "id", path, bad) # <<>>
    PROVE  LET upload == Destination(root, "id", path, bad)
           IN  /\ IsPrefix(root \o <<"id">>, upload)
               /\ Len(upload) = Len(root) + 2
               /\ Last(upload) \notin {".", "..", Hidden}
<1> DEFINE name == Last(path.segments)
           X == Segments \cup {"id"}
           below == root \o <<"id">>
           upload == Destination(root, "id", path, bad)
<1>1. /\ StoredName(path, bad) # <<>>
      /\ upload = below \o StoredName(path, bad)
  BY DEF Destination
<1>2. /\ StoredName(path, bad) = <<name>>
      /\ path.segments # <<>> /\ name \notin {".", "..", Hidden}
  BY <1>1 DEF StoredName
<1>3. name \in X
  BY <1>2 DEF Last
<1>4. root \in Seq(X) /\ "id" \in X
  <2>1. Plain \subseteq X
    BY DEF Plain
  <2> QED
    BY <2>1
<1> HIDE DEF name, X, upload
<1>5. below \in Seq(X) /\ Len(below) = Len(root) + 1 /\ Len(root) \in Nat
  BY <1>4
<1> HIDE DEF below
<1>6. /\ upload = below \o <<name>> /\ upload \in Seq(X)
      /\ Len(upload) = Len(below) + 1
      /\ \A i \in 1 .. Len(below) : upload[i] = below[i]
      /\ upload[Len(below) + 1] = name
  BY <1>1, <1>2, <1>3, <1>5
<1>7. IsPrefix(below, upload)
  <2>1. Len(below) <= Len(upload)
    BY <1>5, <1>6
  <2>2. below \in Seq(X) /\ upload \in Seq(X)
    BY <1>5, <1>6
  <2>3. IsPrefix(below, upload) <=>
          Len(below) <= Len(upload) /\ \A i \in 1 .. Len(below) : upload[i] = below[i]
    BY <2>2, PrefixIs
  <2> QED
    BY <1>6, <2>1, <2>3
<1>8. Last(upload) = name
  BY <1>5, <1>6 DEF Last
<1> QED
  BY <1>2, <1>5, <1>6, <1>7, <1>8 DEF below, upload

\* connector.py:107-116, policy.py:213-229, loaders.py:68-81, ingest.py:138-160:
\* whatever the path, it is accepted exactly when it ends in the root, and an
\* upload is written where it belongs.
THEOREM ContainmentIsAlwaysReal ==
    ASSUME NEW root \in Seq(Plain), NEW path, NEW bad,
           path.absolute \in BOOLEAN, path.segments \in Seq(Segments)
    PROVE  ContainmentIsReal(root, path, bad)
<1> DEFINE target == Normalized(root, path)
<1>1. root \in Seq(Plain) /\ Plain = Segments \ Dots /\ Dots = {".", ".."}
  BY DEF Plain, Dots
<1>2. target \in Seq(Plain) /\ (Within(root, target) <=> EndsWithin(root, path))
  <2>1. root \in Seq(Plain)
    BY <1>1
  <2> QED
    BY <2>1, WithinIs
<1> HIDE DEF target
<1>3. /\ ContainRemote(root, path) =
            IF Within(root, target) THEN [ok |-> TRUE, place |-> target] ELSE Lost
      /\ ContainWorkspace(root, path) =
            IF path.segments # <<>> /\ root # <<>> /\ target # root /\ Within(root, target)
            THEN [ok |-> TRUE, place |-> target] ELSE Lost
  BY DEF ContainRemote, ContainWorkspace, target
<1>4. ContainRemote(root, path).ok <=> EndsWithin(root, path)
  <2>1. CASE Within(root, target)
    BY <1>2, <1>3, <2>1
  <2>2. CASE ~Within(root, target)
    BY <1>2, <1>3, <2>2 DEF Lost
  <2> QED
    BY <2>1, <2>2
<1>5. ContainRemote(root, path).ok =>
        Within(root, target) /\ ContainRemote(root, path).place = target
  BY <1>3 DEF Lost
<1>6. ContainWorkspace(root, path).ok =>
        /\ ContainRemote(root, path).ok
        /\ ContainWorkspace(root, path).place = ContainRemote(root, path).place
        /\ Len(ContainWorkspace(root, path).place) > Len(root)
  <2> SUFFICES ASSUME ContainWorkspace(root, path).ok
               PROVE  /\ ContainRemote(root, path).ok
                      /\ ContainWorkspace(root, path).place = ContainRemote(root, path).place
                      /\ Len(ContainWorkspace(root, path).place) > Len(root)
    OBVIOUS
  <2>1. /\ target # root /\ Within(root, target)
        /\ ContainWorkspace(root, path).place = target
    BY <1>3 DEF Lost
  <2>2. ContainRemote(root, path) = [ok |-> TRUE, place |-> target]
    BY <1>3, <2>1
  <2>3. Len(root) <= Len(target) /\ \A i \in 1 .. Len(root) : target[i] = root[i]
    BY <1>1, <1>2, <2>1, PrefixIs DEF Within
  <2>4. Len(target) # Len(root)
    <3>1. root = [i \in 1 .. Len(root) |-> root[i]]
      BY <1>1
    <3>2. target = [i \in 1 .. Len(target) |-> target[i]]
      BY <1>2
    <3> QED
      BY <2>1, <2>3, <3>1, <3>2
  <2>5. Len(target) \in Nat /\ Len(root) \in Nat
    BY <1>1, <1>2
  <2> QED
    BY <2>1, <2>2, <2>3, <2>4, <2>5
<1>7. ContainRemote(root, path).ok => {".", ".."} \cap ToSet(ContainRemote(root, path).place) = {}
  <2>1. ToSet(target) \subseteq Plain
    BY <1>2 DEF ToSet
  <2>2. {".", ".."} \cap Plain = {}
    BY <1>1
  <2> QED
    BY <1>5, <2>1, <2>2
<1>8. ResolveWithin(root, path).ok => IsPrefix(root, ResolveWithin(root, path).place)
  BY DEF ResolveWithin, Lost, Within
<1>9. Destination(root, "id", path, bad) # <<>> =>
        /\ IsPrefix(root \o <<"id">>, Destination(root, "id", path, bad))
        /\ Len(Destination(root, "id", path, bad)) = Len(root) + 2
        /\ Last(Destination(root, "id", path, bad)) \notin {".", "..", Hidden}
  BY <1>1, UploadIsBelow
<1> QED
  BY <1>4, <1>6, <1>7, <1>8, <1>9 DEF ContainmentIsReal

-----------------------------------------------------------------------------
(* The chunks of an answer, for every list of them.                        *)

\* The rank is a strict order of the chunks.
LEMMA RankOrders ==
    ASSUME NEW chunks \in Seq(Chunks)
    PROVE  /\ \A i, j \in DOMAIN chunks :
                 /\ i # j => Before(chunks, i, j) \/ Before(chunks, j, i)
                 /\ Before(chunks, i, j) => ~Before(chunks, j, i)
           /\ \A i, j, k \in DOMAIN chunks :
                 Before(chunks, i, j) /\ Before(chunks, j, k) => Before(chunks, i, k)
<1>1. \A i \in DOMAIN chunks :
        /\ i \in Nat /\ chunks[i].distinct \in Nat /\ chunks[i].freq \in Nat
        /\ chunks[i].source \in Nat /\ chunks[i].index \in Nat
  <2>1. \A i \in DOMAIN chunks : i \in Nat /\ chunks[i] \in Chunks
    OBVIOUS
  <2> QED
    BY <2>1 DEF Chunks
<1> DEFINE Lex(a1, a2, a3, a4, a5, b1, b2, b3, b4, b5) ==
             \/ a1 > b1
             \/ a1 = b1 /\ a2 > b2
             \/ a1 = b1 /\ a2 = b2 /\ a3 < b3
             \/ a1 = b1 /\ a2 = b2 /\ a3 = b3 /\ a4 < b4
             \/ a1 = b1 /\ a2 = b2 /\ a3 = b3 /\ a4 = b4 /\ a5 < b5
<1>2. \A i, j : Before(chunks, i, j) <=>
        Lex(chunks[i].distinct, chunks[i].freq, chunks[i].source, chunks[i].index, i,
            chunks[j].distinct, chunks[j].freq, chunks[j].source, chunks[j].index, j)
  BY DEF Before
<1>5. ASSUME NEW i \in DOMAIN chunks, NEW j \in DOMAIN chunks
      PROVE  /\ i # j => Before(chunks, i, j) \/ Before(chunks, j, i)
             /\ Before(chunks, i, j) => ~Before(chunks, j, i)
  <2> DEFINE a1 == chunks[i].distinct
             a2 == chunks[i].freq
             a3 == chunks[i].source
             a4 == chunks[i].index
             b1 == chunks[j].distinct
             b2 == chunks[j].freq
             b3 == chunks[j].source
             b4 == chunks[j].index
  <2>1. /\ i \in Nat /\ a1 \in Nat /\ a2 \in Nat /\ a3 \in Nat /\ a4 \in Nat
        /\ j \in Nat /\ b1 \in Nat /\ b2 \in Nat /\ b3 \in Nat /\ b4 \in Nat
    BY <1>1
  <2>2. /\ Before(chunks, i, j) <=> Lex(a1, a2, a3, a4, i, b1, b2, b3, b4, j)
        /\ Before(chunks, j, i) <=> Lex(b1, b2, b3, b4, j, a1, a2, a3, a4, i)
    BY <1>2
  <2> HIDE DEF a1, a2, a3, a4, b1, b2, b3, b4
  <2> QED
    BY <2>1, <2>2
<1>6. ASSUME NEW i \in DOMAIN chunks, NEW j \in DOMAIN chunks, NEW k \in DOMAIN chunks,
             Before(chunks, i, j), Before(chunks, j, k)
      PROVE  Before(chunks, i, k)
  <2> DEFINE a1 == chunks[i].distinct
             a2 == chunks[i].freq
             a3 == chunks[i].source
             a4 == chunks[i].index
             b1 == chunks[j].distinct
             b2 == chunks[j].freq
             b3 == chunks[j].source
             b4 == chunks[j].index
             c1 == chunks[k].distinct
             c2 == chunks[k].freq
             c3 == chunks[k].source
             c4 == chunks[k].index
  <2>1. /\ i \in Nat /\ a1 \in Nat /\ a2 \in Nat /\ a3 \in Nat /\ a4 \in Nat
        /\ j \in Nat /\ b1 \in Nat /\ b2 \in Nat /\ b3 \in Nat /\ b4 \in Nat
        /\ k \in Nat /\ c1 \in Nat /\ c2 \in Nat /\ c3 \in Nat /\ c4 \in Nat
    BY <1>1
  <2>2. /\ Lex(a1, a2, a3, a4, i, b1, b2, b3, b4, j)
        /\ Lex(b1, b2, b3, b4, j, c1, c2, c3, c4, k)
        /\ Before(chunks, i, k) <=> Lex(a1, a2, a3, a4, i, c1, c2, c3, c4, k)
    BY <1>2, <1>6
  <2> HIDE DEF a1, a2, a3, a4, b1, b2, b3, b4, c1, c2, c3, c4
  <2> QED
    BY <2>1, <2>2
<1> QED
  BY <1>5, <1>6

\* The matching chunks, best first.
LEMMA RankedIs ==
    ASSUME NEW chunks \in Seq(Chunks)
    PROVE  LET count == Cardinality(Matching(chunks))
               rank == Ranked(chunks)
           IN  /\ count \in Nat /\ Matching(chunks) \subseteq DOMAIN chunks
               /\ rank \in [1 .. count -> Matching(chunks)]
               /\ \A i \in Matching(chunks) : \E n \in 1 .. count : rank[n] = i
               /\ \A m, n \in 1 .. count : m < n => Before(chunks, rank[m], rank[n])
<1> DEFINE S == Matching(chunks)
           R == {p \in S \X S : Before(chunks, p[1], p[2])}
<1>1. S \subseteq DOMAIN chunks /\ IsFiniteSet(S)
  <2>1. S \subseteq 1 .. Len(chunks) /\ Len(chunks) \in Nat
    BY DEF Matching
  <2>2. IsFiniteSet(1 .. Len(chunks))
    BY <2>1, FS_Interval
  <2> QED
    BY <2>1, <2>2, FS_Subset
<1> HIDE DEF S
<1>2. \A i, j \in S : <<i, j>> \in R <=> Before(chunks, i, j)
  OBVIOUS
<1> HIDE DEF R
<1>3. StrictOrder(S, R)
  BY <1>1, <1>2, RankOrders DEF StrictOrder
<1>4. Sorts(InOrder(S, R), S, R)
  BY <1>1, <1>3, InOrderSorts
<1>5. Ranked(chunks) = InOrder(S, R)
  BY DEF Ranked, S, R
<1>6. Cardinality(S) \in Nat
  BY <1>1, FS_CardinalityType
<1> DEFINE rank == Ranked(chunks)
           count == Cardinality(S)
<1>7. /\ rank \in [1 .. count -> S]
      /\ \A i \in S : \E n \in DOMAIN rank : rank[n] = i
      /\ \A m, n \in DOMAIN rank : m < n => <<rank[m], rank[n]>> \in R
  BY <1>4, <1>5 DEF Sorts
<1> HIDE DEF rank, count
<1>8. DOMAIN rank = 1 .. count
  BY <1>7
<1>9. \A m, n \in 1 .. count : m < n => Before(chunks, rank[m], rank[n])
  BY <1>2, <1>7, <1>8
<1> QED
  BY <1>1, <1>6, <1>7, <1>8, <1>9 DEF S, rank, count

\* What some chunks have in size.
ChunkSizes(chunks, picked) == Total([n \in DOMAIN picked |-> chunks[picked[n]].size])

LEMMA SizesGrow ==
    ASSUME NEW chunks \in Seq(Chunks), NEW picked \in Seq(DOMAIN chunks), NEW i \in DOMAIN chunks
    PROVE  /\ ChunkSizes(chunks, <<>>) = 0 /\ ChunkSizes(chunks, picked) \in Nat
           /\ ChunkSizes(chunks, Append(picked, i)) = ChunkSizes(chunks, picked) + chunks[i].size
<1> DEFINE n == Len(picked)
           more == Append(picked, i)
           t == [k \in 1 .. n + 1 |-> chunks[more[k]].size]
<1>1. \A k \in DOMAIN chunks : chunks[k].size \in Nat
  <2>1. \A k \in DOMAIN chunks : chunks[k] \in Chunks
    OBVIOUS
  <2> QED
    BY <2>1 DEF Chunks
<1>2. /\ n \in Nat /\ n + 1 \in Nat /\ DOMAIN picked = 1 .. n /\ DOMAIN more = 1 .. n + 1
      /\ more[n + 1] = i /\ \A k \in 1 .. n : more[k] = picked[k] /\ picked[k] \in DOMAIN chunks
  OBVIOUS
<1> HIDE DEF n, more
<1>3. t \in [1 .. n + 1 -> Nat]
  <2>1. \A k \in 1 .. n + 1 : more[k] \in DOMAIN chunks
    <3> TAKE k \in 1 .. n + 1
    <3>1. k = n + 1 \/ k \in 1 .. n
      BY <1>2
    <3> QED
      BY <1>2, <3>1
  <2> QED
    BY <1>1, <2>1
<1>4. t[n + 1] = chunks[i].size
  BY <1>2
<1>5. [k \in 1 .. n |-> t[k]] = [k \in DOMAIN picked |-> chunks[picked[k]].size]
  BY <1>2
<1>6. t = [k \in DOMAIN more |-> chunks[more[k]].size]
  BY <1>2
<1> HIDE DEF t
<1> DEFINE T(k) == Total([j \in 1 .. k |-> t[j]])
<1>7. /\ T(0) = 0 /\ T(n + 1) = Total(t)
      /\ \A k \in 0 .. n + 1 : T(k) \in Nat
      /\ \A k \in 1 .. n + 1 : T(k) = T(k - 1) + t[k]
  BY <1>2, <1>3, TotalsGrow
<1>8. T(n) = ChunkSizes(chunks, picked) /\ Total(t) = ChunkSizes(chunks, more)
  BY <1>5, <1>6 DEF ChunkSizes
<1>9. T(0) = ChunkSizes(chunks, <<>>)
  <2>1. [j \in 1 .. 0 |-> t[j]] = [k \in DOMAIN <<>> |-> chunks[<<>>[k]].size]
    <3>1. 1 .. 0 = {} /\ DOMAIN <<>> = {}
      OBVIOUS
    <3> QED
      BY <3>1
  <2> QED
    BY <2>1 DEF ChunkSizes
<1> HIDE DEF T
<1>10. n \in 0 .. n + 1 /\ n + 1 \in 1 .. n + 1 /\ (n + 1) - 1 = n
  BY <1>2
<1> QED
  BY <1>4, <1>7, <1>8, <1>9, <1>10 DEF more

\* The choice, chunk by chunk.
LEMMA ChoiceUnfolds ==
    ASSUME NEW chunks \in Seq(Chunks), NEW limits
    PROVE  LET count == Cardinality(Matching(chunks))
           IN  \E f : /\ f[0] = [picked |-> <<>>, used |-> 0, stop |-> FALSE]
                      /\ \A k \in 0 .. count : f[k] \in [picked : Seq(DOMAIN chunks), used : Int,
                                                         stop : BOOLEAN]
                      /\ \A k \in 1 .. count :
                            f[k] = Chosen(chunks, limits, f[k - 1], Ranked(chunks)[k])
                      /\ SelectChunks(chunks, limits) = f[count].picked
<1> DEFINE n == Cardinality(Matching(chunks))
           rank == Ranked(chunks)
           V == [picked : Seq(DOMAIN chunks), used : Int, stop : BOOLEAN]
           a == [picked |-> <<>>, used |-> 0, stop |-> FALSE]
           step == [k \in 1 .. n |-> [v \in V |-> Chosen(chunks, limits, v, rank[k])]]
           f == CHOOSE g : g = [k \in 0 .. n |->
                  IF k = 0 THEN a ELSE Chosen(chunks, limits, g[k - 1], rank[k])]
<1>1. n \in Nat /\ \A k \in 1 .. n : rank[k] \in DOMAIN chunks
  BY RankedIs
<1>2. a \in V
  OBVIOUS
<1> HIDE DEF n, rank
<1>3. ASSUME NEW k \in 1 .. n, NEW v \in V
      PROVE  Chosen(chunks, limits, v, rank[k]) \in V
  <2> DEFINE i == rank[k]
  <2>1. i \in DOMAIN chunks /\ chunks[i].size \in Nat
    <3>1. chunks[i] \in Chunks
      BY <1>1
    <3> QED
      BY <1>1, <3>1 DEF Chunks
  <2> HIDE DEF i
  <2>2. [v EXCEPT !.picked = Append(@, i), !.used = @ + chunks[i].size] \in V
    <3>1. v.picked \in Seq(DOMAIN chunks) /\ v.used \in Int
      OBVIOUS
    <3>2. Append(v.picked, i) \in Seq(DOMAIN chunks) /\ v.used + chunks[i].size \in Int
      BY <2>1, <3>1
    <3> QED
      BY <3>2
  <2>3. Chosen(chunks, limits, v, i) \in {v, [v EXCEPT !.picked = Append(@, i),
                                                     !.used = @ + chunks[i].size]}
    BY DEF Chosen
  <2> QED
    BY <2>2, <2>3 DEF i
<1> HIDE DEF V
<1>4. /\ step \in [1 .. n -> [V -> V]]
      /\ \A k \in 1 .. n, v \in V : step[k][v] = Chosen(chunks, limits, v, rank[k])
  BY <1>3
<1> HIDE DEF step, a
<1>5. PICK g : Recurs(g, n, V, a, step)
  BY <1>1, <1>2, <1>4, ListRecursion
<1>6. g \in [0 .. n -> V] /\ g[0] = a /\ \A k \in 1 .. n : g[k] = step[k][g[k - 1]]
  BY <1>5 DEF Recurs
<1>7. \A k \in 1 .. n : k - 1 \in 0 .. n /\ g[k] = Chosen(chunks, limits, g[k - 1], rank[k])
  <2> TAKE k \in 1 .. n
  <2>1. k - 1 \in 0 .. n
    BY <1>1
  <2>2. g[k - 1] \in V
    BY <1>6, <2>1
  <2> QED
    BY <1>4, <1>6, <2>1, <2>2
<1>8. g = [k \in 0 .. n |-> IF k = 0 THEN a ELSE Chosen(chunks, limits, g[k - 1], rank[k])]
  BY <1>6, <1>7
<1>9. f = [k \in 0 .. n |-> IF k = 0 THEN a ELSE Chosen(chunks, limits, f[k - 1], rank[k])]
  BY <1>8
<1>10. SelectChunks(chunks, limits) = f[n].picked
  BY DEF SelectChunks, a, n, rank
<1> HIDE DEF f
<1>11. f[0] = a /\ \A k \in 1 .. n : f[k] = Chosen(chunks, limits, f[k - 1], rank[k])
  BY <1>1, <1>9
<1> DEFINE S == {k \in 0 .. n : f[k] \in V}
<1>12. 0 .. n \subseteq S
  <2>1. 0 \in S
    BY <1>1, <1>2, <1>11
  <2>2. \A k \in 1 .. n : k - 1 \in S => k \in S
    BY <1>3, <1>11
  <2> HIDE DEF S
  <2> QED
    BY <1>1, <2>1, <2>2, Stepwise
<1>13. \A k \in 0 .. n : f[k] \in V
  BY <1>12
<1> QED
  BY <1>10, <1>11, <1>13 DEF a, n, rank, V

\* What the choice has come to after the k best chunks.
ChosenWell(chunks, limits, k, r) ==
    LET rank == Ranked(chunks)
    IN  /\ Len(r.picked) <= limits.topK
        /\ \A n \in 1 .. Len(r.picked) : \E j \in 1 .. k : r.picked[n] = rank[j]
        /\ \A n \in 2 .. Len(r.picked) : Before(chunks, r.picked[n - 1], r.picked[n])
        /\ r.used = ChunkSizes(chunks, r.picked)
        /\ r.used > limits.maxContext => Len(r.picked) = 1
        /\ k >= 1 => r.picked # <<>> /\ r.picked[1] = rank[1]
        /\ \A j \in 1 .. k : \/ \E n \in 1 .. Len(r.picked) : r.picked[n] = rank[j]
                            \/ Len(r.picked) = limits.topK
                            \/ r.used + chunks[rank[j]].size > limits.maxContext

LEMMA ChosenStaysWell ==
    ASSUME NEW chunks \in Seq(Chunks), NEW limits,
           limits.topK \in Nat \ {0}, limits.maxContext \in Nat,
           NEW k \in 1 .. Cardinality(Matching(chunks)),
           NEW r \in [picked : Seq(DOMAIN chunks), used : Int, stop : BOOLEAN],
           ChosenWell(chunks, limits, k - 1, r)
    PROVE  ChosenWell(chunks, limits, k, Chosen(chunks, limits, r, Ranked(chunks)[k]))
<1> DEFINE rank == Ranked(chunks)
           count == Cardinality(Matching(chunks))
           i == rank[k]
           len == Len(r.picked)
           now == Chosen(chunks, limits, r, i)
           size(j) == chunks[j].size
<1>1. /\ count \in Nat /\ Matching(chunks) \subseteq DOMAIN chunks
      /\ \A j \in 1 .. count : rank[j] \in DOMAIN chunks
      /\ \A m, n \in 1 .. count : m < n => Before(chunks, rank[m], rank[n])
  BY RankedIs
<1>2. k \in 1 .. count /\ k - 1 \in Nat
  <2>1. k \in 1 .. count
    OBVIOUS
  <2> QED
    BY <1>1, <2>1
<1> HIDE DEF count, rank
<1>3. \A j \in DOMAIN chunks : size(j) \in Nat
  <2>1. \A j \in DOMAIN chunks : chunks[j] \in Chunks
    OBVIOUS
  <2> QED
    BY <2>1 DEF Chunks
<1>4. i \in DOMAIN chunks /\ size(i) \in Nat
  BY <1>1, <1>2, <1>3
<1>5. len \in Nat /\ r.picked \in Seq(DOMAIN chunks) /\ r.used \in Int
  OBVIOUS
<1>6. /\ len <= limits.topK
      /\ \A n \in 1 .. len : \E j \in 1 .. k - 1 : r.picked[n] = rank[j]
      /\ \A n \in 2 .. len : Before(chunks, r.picked[n - 1], r.picked[n])
      /\ r.used = ChunkSizes(chunks, r.picked)
      /\ r.used > limits.maxContext => len = 1
      /\ k - 1 >= 1 => r.picked # <<>> /\ r.picked[1] = rank[1]
      /\ \A j \in 1 .. k - 1 : \/ \E n \in 1 .. len : r.picked[n] = rank[j]
                              \/ len = limits.topK
                              \/ r.used + size(rank[j]) > limits.maxContext
  BY DEF ChosenWell, rank
<1>7. k - 1 < 1 => len = 0
  <2>1. k - 1 < 1 => 1 .. k - 1 = {}
    BY <1>2
  <2> QED
    BY <1>5, <1>6, <2>1
<1>8. \A j \in 1 .. k : j = k \/ j \in 1 .. k - 1
  BY <1>2
<1>9. \A j \in 1 .. k - 1 : j \in 1 .. k /\ j \in 1 .. count /\ size(rank[j]) \in Nat
  BY <1>1, <1>2, <1>3
<1>10. r.used \in Nat
  BY <1>4, <1>5, <1>6, SizesGrow
<1> HIDE DEF size, i, len
<1>11. CASE len >= limits.topK
  <2>1. now = r
    BY <1>11 DEF Chosen, len
  <2>2. len = limits.topK /\ k - 1 >= 1
    BY <1>2, <1>5, <1>6, <1>7, <1>11
  <2>3. \A n \in 1 .. len : \E j \in 1 .. k : r.picked[n] = rank[j]
    BY <1>6, <1>9
  <2>4. ChosenWell(chunks, limits, k, r)
    BY <1>6, <2>2, <2>3 DEF ChosenWell, len, rank
  <2> QED
    BY <2>1, <2>4 DEF i, rank
<1>12. CASE len < limits.topK /\ r.picked # <<>> /\ r.used + size(i) > limits.maxContext
  <2>1. now = r
    BY <1>5, <1>12 DEF Chosen, len, size
  <2>2. k - 1 >= 1
    <3>1. len # 0
      BY <1>5, <1>12 DEF len
    <3> QED
      BY <1>2, <1>7, <3>1
  <2>3. \A n \in 1 .. len : \E j \in 1 .. k : r.picked[n] = rank[j]
    BY <1>6, <1>9
  <2>4. \A j \in 1 .. k : \/ \E n \in 1 .. len : r.picked[n] = rank[j]
                          \/ len = limits.topK
                          \/ r.used + size(rank[j]) > limits.maxContext
    BY <1>6, <1>8, <1>12 DEF i
  <2>5. ChosenWell(chunks, limits, k, r)
    BY <1>6, <2>2, <2>3, <2>4 DEF ChosenWell, len, rank, size
  <2> QED
    BY <2>1, <2>5 DEF i, rank
<1>13. CASE len < limits.topK /\ ~(r.picked # <<>> /\ r.used + size(i) > limits.maxContext)
  <2> DEFINE p == Append(r.picked, i)
             u == r.used + size(i)
  <2>1. now = [r EXCEPT !.picked = p, !.used = u]
    BY <1>5, <1>13 DEF Chosen, len, size
  <2>2. now.picked = p /\ now.used = u
    BY <2>1
  <2>3. /\ p \in Seq(DOMAIN chunks) /\ Len(p) = len + 1
        /\ \A n \in 1 .. len : p[n] = r.picked[n]
        /\ p[len + 1] = i
    BY <1>4, <1>5 DEF len
  <2>4. u = ChunkSizes(chunks, p)
    BY <1>4, <1>5, <1>6, SizesGrow DEF size
  <2>5. u \in Nat /\ u >= r.used
    BY <1>4, <1>10
  <2> HIDE DEF p, u, now
  <2>6. \A n \in 1 .. Len(p) : n \in 1 .. len \/ n = len + 1
    BY <1>5, <2>3
  <2>7. \A n \in 1 .. len : n \in 1 .. Len(p)
    BY <1>5, <2>3
  <2>8. Len(p) <= limits.topK
    BY <1>5, <1>13, <2>3
  <2>9. \A n \in 1 .. Len(p) : \E j \in 1 .. k : p[n] = rank[j]
    <3> TAKE n \in 1 .. Len(p)
    <3>1. CASE n \in 1 .. len
      BY <1>6, <1>9, <2>3, <3>1
    <3>2. CASE n = len + 1
      <4>1. k \in 1 .. k /\ p[n] = rank[k]
        BY <1>2, <2>3, <3>2 DEF i
      <4> QED
        BY <4>1
    <3> QED
      BY <2>6, <3>1, <3>2
  <2>10. \A n \in 2 .. Len(p) : Before(chunks, p[n - 1], p[n])
    <3> TAKE n \in 2 .. Len(p)
    <3>1. n - 1 \in 1 .. len /\ n \in 1 .. Len(p)
      <4> DEFINE q == Len(p)
      <4>1. len \in Nat /\ q = len + 1 /\ n \in 2 .. q
        BY <1>5, <2>3
      <4> HIDE DEF q
      <4>2. n - 1 \in 1 .. len /\ n \in 1 .. q
        BY <4>1
      <4> QED
        BY <4>2 DEF q
    <3>2. CASE n \in 1 .. len
      <4>1. n \in 2 .. len
        BY <3>1, <3>2
      <4> QED
        BY <1>6, <2>3, <3>1, <3>2, <4>1
    <3>3. CASE n = len + 1
      <4>1. PICK j \in 1 .. k - 1 : r.picked[n - 1] = rank[j]
        BY <1>6, <3>1
      <4>2. j \in 1 .. count /\ j < k
        BY <1>2, <1>9
      <4>3. Before(chunks, rank[j], rank[k])
        BY <1>1, <1>2, <4>2
      <4> QED
        BY <2>3, <3>1, <3>3, <4>1, <4>3 DEF i
    <3> QED
      BY <2>6, <3>1, <3>2, <3>3
  <2>11. u > limits.maxContext => Len(p) = 1
    <3> SUFFICES ASSUME u > limits.maxContext
                 PROVE  Len(p) = 1
      OBVIOUS
    <3>1. r.picked = <<>>
      BY <1>13 DEF u
    <3>2. len = 0
      BY <3>1 DEF len
    <3> QED
      BY <2>3, <3>2
  <2>12. p # <<>> /\ p[1] = rank[1]
    <3>1. p # <<>>
      BY <1>5, <2>3
    <3>2. CASE k - 1 >= 1
      <4>1. len # 0 /\ r.picked[1] = rank[1]
        BY <1>5, <1>6, <3>2 DEF len
      <4>2. 1 \in 1 .. len
        BY <1>5, <4>1
      <4> QED
        BY <2>3, <3>1, <4>1, <4>2
    <3>3. CASE ~(k - 1 >= 1)
      <4>1. k = 1 /\ len = 0
        BY <1>2, <1>7, <3>3
      <4> QED
        BY <2>3, <3>1, <4>1 DEF i
    <3> QED
      BY <3>2, <3>3
  <2>13. \A j \in 1 .. k : \/ \E n \in 1 .. Len(p) : p[n] = rank[j]
                           \/ Len(p) = limits.topK
                           \/ u + size(rank[j]) > limits.maxContext
    <3> TAKE j \in 1 .. k
    <3>1. CASE j = k
      <4>1. len + 1 \in 1 .. Len(p) /\ p[len + 1] = rank[j]
        BY <1>5, <2>3, <3>1 DEF i
      <4> QED
        BY <4>1
    <3>2. CASE j \in 1 .. k - 1
      <4>1. \/ \E n \in 1 .. len : r.picked[n] = rank[j]
            \/ r.used + size(rank[j]) > limits.maxContext
        BY <1>5, <1>6, <1>13, <3>2
      <4>2. CASE \E n \in 1 .. len : r.picked[n] = rank[j]
        BY <2>3, <2>7, <4>2
      <4>3. CASE r.used + size(rank[j]) > limits.maxContext
        <5>1. size(rank[j]) \in Nat
          BY <1>9, <3>2
        <5> QED
          BY <1>10, <2>5, <4>3, <5>1
      <4> QED
        BY <4>1, <4>2, <4>3
    <3> QED
      BY <1>8, <3>1, <3>2
  <2>14. ChosenWell(chunks, limits, k, now)
    BY <2>2, <2>4, <2>8, <2>9, <2>10, <2>11, <2>12, <2>13 DEF ChosenWell, rank, size
  <2> QED
    BY <2>14 DEF now, i, rank
<1> QED
  BY <1>5, <1>11, <1>12, <1>13

\* docqa/qa.py:89-123: the chunks of an answer are the best that fit, and its
\* citations name them, whatever the chunks, the limits and the reply.
THEOREM ChunksAreAlwaysBest ==
    ASSUME NEW chunks \in Seq(Chunks), NEW limits, NEW reply,
           limits.topK \in Nat \ {0}, limits.maxContext \in Nat
    PROVE  ChunksAreBest(chunks, limits, reply)
<1> DEFINE rank == Ranked(chunks)
           count == Cardinality(Matching(chunks))
           V == [picked : Seq(DOMAIN chunks), used : Int, stop : BOOLEAN]
           picked == SelectChunks(chunks, limits)
<1>1. /\ count \in Nat /\ Matching(chunks) \subseteq DOMAIN chunks
      /\ \A j \in 1 .. count : rank[j] \in Matching(chunks)
      /\ \A i \in Matching(chunks) : \E j \in 1 .. count : rank[j] = i
      /\ \A m, n \in 1 .. count : m < n => Before(chunks, rank[m], rank[n])
  BY RankedIs
<1>2. PICK f : /\ f[0] = [picked |-> <<>>, used |-> 0, stop |-> FALSE]
               /\ \A k \in 0 .. count : f[k] \in V
               /\ \A k \in 1 .. count : f[k] = Chosen(chunks, limits, f[k - 1], rank[k])
               /\ picked = f[count].picked
  BY ChoiceUnfolds
<1> DEFINE S == {k \in 0 .. count : ChosenWell(chunks, limits, k, f[k])}
<1>3. 0 \in S
  <2>1. f[0].picked = <<>> /\ f[0].used = 0
    BY <1>2
  <2>2. ChunkSizes(chunks, <<>>) = 0
    <3>1. [j \in 1 .. 0 |-> 0] = [k \in DOMAIN <<>> |-> chunks[<<>>[k]].size]
      <4>1. 1 .. 0 = {} /\ DOMAIN <<>> = {}
        OBVIOUS
      <4> QED
        BY <4>1
    <3>2. [j \in 1 .. 0 |-> 0] = [j \in 1 .. 0 |-> <<>>[j]]
      <4>1. 1 .. 0 = {}
        OBVIOUS
      <4> QED
        BY <4>1
    <3>3. Total([j \in 1 .. 0 |-> <<>>[j]]) = 0
      <4>1. 0 \in Nat /\ <<>> \in [1 .. 0 -> Nat]
        OBVIOUS
      <4> QED
        BY <4>1, TotalsGrow
    <3> QED
      BY <3>1, <3>2, <3>3 DEF ChunkSizes
  <2>3. /\ Len(<<>>) = 0 /\ 1 .. 0 = {} /\ 2 .. 0 = {} /\ ~(0 >= 1) /\ ~(0 > limits.maxContext)
        /\ 0 <= limits.topK
    OBVIOUS
  <2>4. ChosenWell(chunks, limits, 0, f[0])
    BY <2>1, <2>2, <2>3 DEF ChosenWell
  <2> QED
    BY <1>1, <2>4
<1>4. ASSUME NEW k \in 1 .. count, k - 1 \in S
      PROVE  k \in S
  <2>1. k - 1 \in 0 .. count /\ k \in 0 .. count
    BY <1>1
  <2>2. f[k - 1] \in V /\ ChosenWell(chunks, limits, k - 1, f[k - 1])
    BY <1>2, <1>4, <2>1
  <2>3. f[k] = Chosen(chunks, limits, f[k - 1], rank[k])
    BY <1>2
  <2>4. ChosenWell(chunks, limits, k, f[k])
    BY <2>2, <2>3, ChosenStaysWell
  <2> QED
    BY <2>1, <2>4
<1>5. ChosenWell(chunks, limits, count, f[count]) /\ f[count] \in V
  <2>1. 0 .. count \subseteq S
    <3> HIDE DEF S
    <3> QED
      BY <1>1, <1>3, <1>4, Stepwise
  <2>2. count \in 0 .. count
    BY <1>1
  <2> QED
    BY <1>2, <2>1, <2>2
<1> DEFINE used == ChunkSizes(chunks, picked)
<1>6. picked \in Seq(DOMAIN chunks) /\ Len(picked) \in Nat /\ DOMAIN picked = 1 .. Len(picked)
  BY <1>2, <1>5
<1> HIDE DEF rank, count, picked
<1>7. /\ Len(picked) <= limits.topK
      /\ \A n \in 1 .. Len(picked) : \E j \in 1 .. count : picked[n] = rank[j]
      /\ \A n \in 2 .. Len(picked) : Before(chunks, picked[n - 1], picked[n])
      /\ used > limits.maxContext => Len(picked) = 1
      /\ count >= 1 => picked # <<>> /\ picked[1] = rank[1]
      /\ \A j \in 1 .. count : \/ \E n \in 1 .. Len(picked) : picked[n] = rank[j]
                              \/ Len(picked) = limits.topK
                              \/ used + chunks[rank[j]].size > limits.maxContext
  BY <1>2, <1>5 DEF ChosenWell, rank
<1>8. used = Total([n \in DOMAIN picked |-> chunks[picked[n]].size])
  BY DEF ChunkSizes
<1> HIDE DEF used
<1>9. ASSUME NEW i \in Matching(chunks)
      PROVE  /\ picked # <<>> /\ ~Before(chunks, i, picked[1])
             /\ i \notin ToSet(picked) =>
                  Len(picked) = limits.topK \/ used + chunks[i].size > limits.maxContext
  <2>1. PICK j \in 1 .. count : rank[j] = i
    BY <1>1
  <2>2. count >= 1 /\ 1 \in 1 .. count
    BY <1>1, <2>1
  <2>3. i \in DOMAIN chunks /\ rank[1] \in DOMAIN chunks
    BY <1>1, <2>2
  <2>4. picked # <<>> /\ picked[1] = rank[1]
    BY <1>7, <2>2
  <2>5. ~Before(chunks, i, rank[1])
    <3>1. CASE j = 1
      BY <2>1, <2>3, <3>1, RankOrders
    <3>2. CASE j # 1
      <4>1. 1 < j
        BY <1>1, <3>2
      <4>2. Before(chunks, rank[1], i)
        BY <1>1, <2>1, <2>2, <4>1
      <4> QED
        BY <2>3, <4>2, RankOrders
    <3> QED
      BY <3>1, <3>2
  <2>6. i \notin ToSet(picked) =>
          Len(picked) = limits.topK \/ used + chunks[i].size > limits.maxContext
    BY <1>6, <1>7, <2>1 DEF ToSet
  <2> QED
    BY <2>4, <2>5, <2>6
<1>10. ToSet(picked) \subseteq Matching(chunks)
  <2>1. \A n \in 1 .. Len(picked) : picked[n] \in Matching(chunks)
    BY <1>1, <1>7
  <2> QED
    BY <1>6, <2>1 DEF ToSet
<1> DEFINE answer == AnswerQuestion(chunks, limits, reply)
<1>11. /\ answer.citations \in {<<>>, picked}
       /\ answer.citations # <<>> <=> answer.outcome = "answered"
  <2>1. CASE picked = <<>> \/ reply = "NO_ANSWER"
    <3>1. answer = [outcome |-> "not_found", citations |-> <<>>]
      BY <2>1 DEF AnswerQuestion, picked
    <3> QED
      BY <3>1
  <2>2. CASE picked # <<>> /\ reply # "NO_ANSWER"
    <3>1. answer = CASE reply = "not_ready" -> [outcome |-> "unavailable", citations |-> <<>>]
                     [] reply \in {"fails", "odd"} -> [outcome |-> "failed", citations |-> <<>>]
                     [] OTHER -> [outcome |-> "answered", citations |-> picked]
      BY <2>2 DEF AnswerQuestion, picked
    <3> HIDE DEF answer
    <3>2. CASE reply = "not_ready"
      <4>1. answer = [outcome |-> "unavailable", citations |-> <<>>]
        BY <3>1, <3>2
      <4> QED
        BY <4>1
    <3>3. CASE reply \in {"fails", "odd"}
      <4>1. answer = [outcome |-> "failed", citations |-> <<>>]
        BY <3>1, <3>3
      <4> QED
        BY <4>1
    <3>4. CASE reply # "not_ready" /\ reply \notin {"fails", "odd"}
      <4>1. answer = [outcome |-> "answered", citations |-> picked]
        BY <3>1, <3>4
      <4> QED
        BY <2>2, <4>1
    <3> QED
      BY <3>2, <3>3, <3>4
  <2> QED
    BY <2>1, <2>2
<1> HIDE DEF answer
<1>12. /\ \A n \in 2 .. Len(picked) : Before(chunks, picked[n - 1], picked[n])
       /\ \A i \in Matching(chunks) : picked # <<>> /\ ~Before(chunks, i, picked[1])
       /\ Len(picked) <= limits.topK
       /\ used > limits.maxContext => Len(picked) = 1
       /\ \A i \in Matching(chunks) \ ToSet(picked) :
             Len(picked) = limits.topK \/ used + chunks[i].size > limits.maxContext
  BY <1>7, <1>9
<1> QED
  BY <1>8, <1>10, <1>11, <1>12 DEF ChunksAreBest, picked, answer

-----------------------------------------------------------------------------
(* A directory query, for every tree.                                      *)

\* The documents of a directory, in the order of their places.
LeadsTo(tree, p) == tree[p].leads

LEMMA DocumentsAre ==
    ASSUME NEW tree, IsTree(tree)
    PROVE  LET docs == ListDocuments(tree)
           IN  /\ docs \in Seq(Nat)
               /\ \A m, n \in 1 .. Len(docs) : m <= n => docs[m] <= docs[n]
<1> DEFINE named == {p \in DOMAIN tree : ~tree[p].hidden /\ tree[p].supported /\ tree[p].leads # 0}
           order == {p \in named \X named :
                       \/ LeadsTo(tree, p[1]) < LeadsTo(tree, p[2])
                       \/ LeadsTo(tree, p[1]) = LeadsTo(tree, p[2]) /\ p[1] < p[2]}
           len == Cardinality(named)
           s == InOrder(named, order)
           docs == [i \in 1 .. len |-> LeadsTo(tree, s[i])]
<1>1. IsFiniteSet(named) /\ named \subseteq Nat /\ \A p \in named : LeadsTo(tree, p) \in Nat
  <2>1. IsFiniteSet(DOMAIN tree) /\ named \subseteq DOMAIN tree /\ named \subseteq Nat
    BY DEF IsTree
  <2>2. \A p \in named : LeadsTo(tree, p) \in Nat
    BY DEF IsTree, Files, LeadsTo
  <2> QED
    BY <2>1, <2>2, FS_Subset
<1>2. ListDocuments(tree) = docs
  BY DEF ListDocuments, LeadsTo
<1> HIDE DEF named
<1>3. ASSUME NEW p \in named, NEW q \in named
      PROVE  <<p, q>> \in order <=> \/ LeadsTo(tree, p) < LeadsTo(tree, q)
                                    \/ LeadsTo(tree, p) = LeadsTo(tree, q) /\ p < q
  <2>1. <<p, q>> \in named \X named /\ <<p, q>>[1] = p /\ <<p, q>>[2] = q
    OBVIOUS
  <2> QED
    BY <2>1
<1> HIDE DEF order
<1>4. StrictOrder(named, order)
  <2>1. ASSUME NEW p \in named, NEW q \in named, p # q
        PROVE  <<p, q>> \in order \/ <<q, p>> \in order
    <3>1. p \in Nat /\ q \in Nat /\ LeadsTo(tree, p) \in Nat /\ LeadsTo(tree, q) \in Nat
      BY <1>1
    <3> DEFINE a == LeadsTo(tree, p)
               b == LeadsTo(tree, q)
    <3>2. a < b \/ b < a \/ (a = b /\ (p < q \/ q < p))
      <4> HIDE DEF a, b
      <4>1. a \in Nat /\ b \in Nat /\ p \in Nat /\ q \in Nat
        BY <3>1 DEF a, b
      <4> QED
        BY <2>1, <4>1
    <3> QED
      BY <1>3, <3>2
  <2>2. ASSUME NEW p \in named, NEW q \in named, NEW r \in named,
               <<p, q>> \in order, <<q, r>> \in order
        PROVE  <<p, r>> \in order
    <3>1. /\ p \in Nat /\ q \in Nat /\ r \in Nat
          /\ LeadsTo(tree, p) \in Nat /\ LeadsTo(tree, q) \in Nat /\ LeadsTo(tree, r) \in Nat
      BY <1>1
    <3> QED
      BY <1>3, <2>2, <3>1
  <2> QED
    BY <2>1, <2>2 DEF StrictOrder
<1>5. Sorts(s, named, order)
  BY <1>1, <1>4, InOrderSorts
<1>6. len \in Nat
  BY <1>1, FS_CardinalityType
<1>7. /\ s \in [1 .. len -> named]
      /\ \A m, n \in 1 .. len : m < n => <<s[m], s[n]>> \in order
  <2>1. s \in [1 .. len -> named] /\ DOMAIN s = 1 .. len
    BY <1>5 DEF Sorts
  <2> QED
    BY <1>5, <2>1 DEF Sorts
<1> HIDE DEF s, len
<1>8. \A i \in 1 .. len : docs[i] = LeadsTo(tree, s[i]) /\ s[i] \in named /\ LeadsTo(tree, s[i]) \in Nat
  BY <1>1, <1>7
<1>9. docs \in Seq(Nat) /\ Len(docs) = len
  BY <1>6, <1>8
<1> HIDE DEF docs
<1>10. ASSUME NEW m \in 1 .. len, NEW n \in 1 .. len, m <= n
       PROVE  docs[m] <= docs[n]
  <2>1. CASE m = n
    BY <1>8, <2>1
  <2>2. CASE m # n
    <3>1. m < n
      BY <1>6, <1>10, <2>2
    <3>2. <<s[m], s[n]>> \in order
      BY <1>7, <3>1
    <3> QED
      BY <1>3, <1>8, <3>2
  <2> QED
    BY <2>1, <2>2
<1> QED
  BY <1>2, <1>9, <1>10

\* The chunks of each document, and the sums of the first of them.
ChunksOf(tree, p) == IF p \in DOMAIN tree THEN tree[p].chunks ELSE 0
Sums(T, tree, docs, n) ==
    /\ T \in [0 .. n -> Nat] /\ T[0] = 0
    /\ \A k \in 1 .. n : T[k] = T[k - 1] + ChunksOf(tree, docs[k])

\* What has been gathered from the first k documents.
Loads(tree, limits, p) == LoadDocument(tree, p, limits.maxBytes) = "ok"
Orderly(out) ==
    \A n \in 2 .. Len(out) :
       \/ out[n][1] = out[n - 1][1] /\ out[n][2] = out[n - 1][2] + 1
       \/ out[n - 1][1] <= out[n][1] /\ out[n][2] = 1

GatheredWell(tree, limits, docs, T, k, r) ==
    /\ r.failed <=> \E i \in 1 .. k : T[i - 1] <= limits.maxTotal /\ ~Loads(tree, limits, docs[i])
    /\ ~r.failed =>
         /\ r.full <=> T[k] > limits.maxTotal
         /\ Len(r.out) = Least(T[k], limits.maxTotal)
         /\ Orderly(r.out)
         /\ \A n \in 1 .. Len(r.out) : \E i \in 1 .. k : r.out[n][1] = docs[i]
         /\ r.truncated <=> \/ Len(docs) > limits.maxDocs
                            \/ T[k] > limits.maxTotal
                            \/ \E i \in 1 .. k : T[i - 1] <= limits.maxTotal /\ tree[docs[i]].cut

Gatherings == [out : Seq(Nat \X Nat), truncated : BOOLEAN, failed : BOOLEAN, full : BOOLEAN]

\* One document, when it is read.
LEMMA GatheredIs ==
    ASSUME NEW tree, IsTree(tree), NEW limits, limits.maxTotal \in Nat,
           NEW r \in Gatherings, NEW p \in Nat
    PROVE  LET now == Gathered(tree, limits, r, p)
               more == Least(ChunksOf(tree, p), Room(r.out, limits))
           IN  /\ now \in Gatherings
               /\ r.failed \/ r.full => now = r
               /\ ~r.failed /\ ~r.full /\ ~Loads(tree, limits, p) => now.failed
               /\ ~r.failed /\ ~r.full /\ Loads(tree, limits, p) =>
                    /\ p \in DOMAIN tree /\ tree[p].cut \in BOOLEAN
                    /\ ~now.failed
                    /\ now.out = r.out \o [i \in 1 .. more |-> <<p, i>>]
                    /\ now.full <=> ChunksOf(tree, p) > Room(r.out, limits)
                    /\ now.truncated <=> \/ r.truncated \/ tree[p].cut
                                         \/ ChunksOf(tree, p) > Room(r.out, limits)
<1> DEFINE now == Gathered(tree, limits, r, p)
           n == ChunksOf(tree, p)
           room == Room(r.out, limits)
           added == [i \in 1 .. Least(n, room) |-> <<p, i>>]
<1>1. CASE r.failed \/ r.full
  <2>1. now = r
    BY <1>1 DEF Gathered
  <2> QED
    BY <1>1, <2>1
<1>2. CASE ~r.failed /\ ~r.full /\ ~Loads(tree, limits, p)
  <2>1. now = [r EXCEPT !.failed = TRUE]
    BY <1>2 DEF Gathered, Loads
  <2>2. now \in Gatherings /\ now.failed
    BY <2>1 DEF Gatherings
  <2> QED
    BY <1>2, <2>2
<1>3. CASE ~r.failed /\ ~r.full /\ Loads(tree, limits, p)
  <2>1. p \in DOMAIN tree
    <3>1. CASE p \notin DOMAIN tree
      <4>1. LoadDocument(tree, p, limits.maxBytes) = "not_found"
        BY <3>1 DEF LoadDocument
      <4> QED
        BY <1>3, <4>1 DEF Loads
    <3> QED
      BY <3>1
  <2>2. tree[p].cut \in BOOLEAN /\ tree[p].chunks \in Nat
    <3>1. tree[p] \in Files
      BY <2>1 DEF IsTree
    <3> QED
      BY <3>1 DEF Files
  <2>3. n = tree[p].chunks /\ n \in Nat /\ room \in Int
    <3>1. Len(r.out) \in Nat
      BY DEF Gatherings
    <3> QED
      BY <2>1, <2>2, <3>1 DEF ChunksOf, Room
  <2>4. now = [r EXCEPT !.out = @ \o added,
                        !.truncated = @ \/ tree[p].cut \/ n > room,
                        !.full = n > room]
    BY <1>3, <2>3 DEF Gathered, Loads
  <2>5. added \in Seq(Nat \X Nat)
    <3>1. Least(n, room) \in Int
      BY <2>3 DEF Least
    <3> DEFINE m == Least(n, room)
               k == IF m < 0 THEN 0 ELSE m
    <3>2. 1 .. m = 1 .. k /\ k \in Nat
      BY <3>1
    <3> HIDE DEF m
    <3>3. \A i \in 1 .. k : <<p, i>> \in Nat \X Nat
      BY <3>2
    <3> HIDE DEF k
    <3>4. [i \in 1 .. k |-> <<p, i>>] \in Seq(Nat \X Nat)
      BY <3>2, <3>3
    <3> QED
      BY <3>2, <3>4 DEF m
  <2> HIDE DEF n, room, added, now
  <2>6. r.out \o added \in Seq(Nat \X Nat) /\ r \in Gatherings
    BY <2>5 DEF Gatherings
  <2>7. /\ now.out = r.out \o added /\ now.full = (n > room)
        /\ now.truncated = (r.truncated \/ tree[p].cut \/ n > room)
        /\ now.failed = r.failed
    BY <2>4 DEF Gatherings
  <2>8. now \in Gatherings
    <3>1. (n > room) \in BOOLEAN /\ (r.truncated \/ tree[p].cut \/ n > room) \in BOOLEAN
      OBVIOUS
    <3> QED
      BY <2>4, <2>6, <3>1 DEF Gatherings
  <2>9. now.full <=> n > room
    BY <2>7
  <2>10. now.truncated <=> r.truncated \/ tree[p].cut \/ n > room
    BY <2>7
  <2>11. ~now.failed
    BY <1>3, <2>7
  <2> QED
    BY <1>3, <2>1, <2>2, <2>7, <2>8, <2>9, <2>10, <2>11 DEF n, room, added, now
<1> QED
  BY <1>1, <1>2, <1>3

\* Chunks stay in order when those of the next document are added.
Joined(out, added, p, m) ==
    /\ Len(out \o added) = Len(out) + m
    /\ \A n \in 1 .. Len(out \o added) :
          \/ n \in 1 .. Len(out) /\ (out \o added)[n] = out[n]
          \/ n \notin 1 .. Len(out) /\ (out \o added)[n][1] = p
    /\ Orderly(out \o added)

LEMMA OrderlyGrows ==
    ASSUME NEW out \in Seq(Nat \X Nat), NEW p \in Nat, NEW m \in Nat, Orderly(out),
           \A n \in 1 .. Len(out) : out[n][1] <= p
    PROVE  Joined(out, [i \in 1 .. m |-> <<p, i>>], p, m)
<1> DEFINE added == [i \in 1 .. m |-> <<p, i>>]
           more == out \o added
           len == Len(out)
<1>1. /\ added \in Seq(Nat \X Nat) /\ Len(added) = m
      /\ \A i \in 1 .. m : added[i] = <<p, i>>
  OBVIOUS
<1> HIDE DEF added
<1>2. /\ len \in Nat /\ Len(more) = len + m
      /\ \A n \in 1 .. len : more[n] = out[n]
      /\ \A n \in len + 1 .. len + m : more[n] = added[n - len]
  <2>1. len \in Nat /\ Len(more) = len + m
    <3>1. Len(out \o added) = Len(out) + Len(added)
      BY <1>1, ConcatProperties
    <3>2. Len(out) \in Nat
      OBVIOUS
    <3> QED
      BY <1>1, <3>1, <3>2
  <2>2. /\ \A n \in 1 .. len : more[n] = out[n]
        /\ \A n \in len + 1 .. len + m : more[n] = added[n - len]
    BY <1>1, <2>1, ConcatProperties
  <2> HIDE DEF more, len
  <2> QED
    BY <2>1, <2>2
<1> HIDE DEF more
<1>3. \A n \in len + 1 .. len + m : n - len \in 1 .. m /\ more[n] = <<p, n - len>>
  <2> TAKE n \in len + 1 .. len + m
  <2>1. n - len \in 1 .. m
    BY <1>2
  <2> QED
    BY <1>1, <1>2, <2>1
<1>4. \A n \in 1 .. Len(more) : n \in 1 .. len \/ (n \in len + 1 .. len + m /\ n \notin 1 .. len)
  BY <1>2
<1>5. \A n \in 1 .. Len(more) : \/ n \in 1 .. len /\ more[n] = out[n]
                                \/ n \notin 1 .. len /\ more[n][1] = p
  <2> TAKE n \in 1 .. Len(more)
  <2>1. CASE n \in 1 .. len
    BY <1>2, <2>1
  <2>2. CASE n \in len + 1 .. len + m /\ n \notin 1 .. len
    <3>1. more[n] = <<p, n - len>>
      BY <1>3, <2>2
    <3> QED
      BY <2>2, <3>1
  <2> QED
    BY <1>4, <2>1, <2>2
<1>6. Orderly(more)
  <2> SUFFICES ASSUME NEW n \in 2 .. Len(more)
               PROVE  \/ more[n][1] = more[n - 1][1] /\ more[n][2] = more[n - 1][2] + 1
                      \/ more[n - 1][1] <= more[n][1] /\ more[n][2] = 1
    BY DEF Orderly
  <2>1. n \in 1 .. Len(more) /\ n \in Nat
    BY <1>2
  <2>2. CASE n \in 1 .. len
    <3>1. n \in 2 .. len /\ n - 1 \in 1 .. len
      BY <1>2, <2>2
    <3>2. more[n] = out[n] /\ more[n - 1] = out[n - 1]
      BY <1>2, <2>2, <3>1
    <3> QED
      BY <3>1, <3>2 DEF Orderly
  <2>3. CASE n = len + 1
    <3>1. n - 1 \in 1 .. len /\ n \in len + 1 .. len + m /\ n - len = 1
      BY <1>2, <2>3
    <3>2. more[n] = <<p, 1>> /\ more[n - 1] = out[n - 1]
      BY <1>2, <1>3, <3>1
    <3> QED
      BY <3>1, <3>2
  <2>4. CASE n \in len + 2 .. len + m
    <3>1. /\ n - 1 \in len + 1 .. len + m /\ n \in len + 1 .. len + m
          /\ n - len = ((n - 1) - len) + 1
      BY <1>2, <2>4
    <3>2. more[n] = <<p, n - len>> /\ more[n - 1] = <<p, (n - 1) - len>>
      BY <1>3, <3>1
    <3> QED
      BY <3>1, <3>2
  <2> QED
    BY <1>2, <1>4, <2>1, <2>2, <2>3, <2>4
<1>7. /\ Len(more) = Len(out) + m
      /\ \A n \in 1 .. Len(more) : \/ n \in 1 .. Len(out) /\ more[n] = out[n]
                                   \/ n \notin 1 .. Len(out) /\ more[n][1] = p
      /\ Orderly(more)
  BY <1>2, <1>5, <1>6
<1> QED
  BY <1>7 DEF Joined, more, added

LEMMA GatheredStaysWell ==
    ASSUME NEW tree, IsTree(tree), NEW limits, limits.maxTotal \in Nat \ {0},
           NEW docs \in Seq(Nat), \A m, n \in 1 .. Len(docs) : m <= n => docs[m] <= docs[n],
           NEW last \in Nat, last <= Len(docs), NEW T, Sums(T, tree, docs, last),
           NEW k \in 1 .. last, NEW r \in Gatherings,
           GatheredWell(tree, limits, docs, T, k - 1, r)
    PROVE  GatheredWell(tree, limits, docs, T, k, Gathered(tree, limits, r, docs[k]))
<1> DEFINE p == docs[k]
           now == Gathered(tree, limits, r, p)
           max == limits.maxTotal
           n == ChunksOf(tree, p)
           before == T[k - 1]
           room == Room(r.out, limits)
           open(i) == T[i - 1] <= max
           loads(i) == Loads(tree, limits, docs[i])
           cut(i) == tree[docs[i]].cut
           missing == {i \in 1 .. k : open(i) /\ ~loads(i)}
           cuts == {i \in 1 .. k : open(i) /\ cut(i)}
           Missed(m) == \E i \in 1 .. m : open(i) /\ ~loads(i)
           Cut(m) == \E i \in 1 .. m : open(i) /\ cut(i)
<1>1. /\ p \in Nat /\ max \in Nat /\ k - 1 \in Nat /\ k - 1 \in 0 .. last /\ k \in 0 .. last
      /\ T[k] = before + n /\ before \in Nat /\ T[k] \in Nat
      /\ k \in 1 .. Len(docs)
  BY DEF Sums
<1>2. n \in Nat
  <2>1. CASE p \in DOMAIN tree
    <3>1. tree[p] \in Files
      BY <2>1 DEF IsTree
    <3> QED
      BY <2>1, <3>1 DEF ChunksOf, Files
  <2>2. CASE p \notin DOMAIN tree
    BY <2>2 DEF ChunksOf
  <2> QED
    BY <2>1, <2>2
<1>3. /\ r.failed <=> Missed(k - 1)
      /\ ~r.failed =>
           /\ r.full <=> before > max
           /\ Len(r.out) = Least(before, max)
           /\ Orderly(r.out)
           /\ \A m \in 1 .. Len(r.out) : \E i \in 1 .. k - 1 : r.out[m][1] = docs[i]
           /\ r.truncated <=> Len(docs) > limits.maxDocs \/ before > max \/ Cut(k - 1)
  BY DEF GatheredWell
<1>4. \A i : i \in 1 .. k <=> i \in 1 .. k - 1 \/ i = k
  BY <1>1
<1>5. Missed(k) <=> Missed(k - 1) \/ (open(k) /\ ~loads(k))
  <2>1. k \in 1 .. k
    BY <1>4
  <2>2. /\ Missed(k) <=> \E i \in 1 .. k : i \in missing
        /\ Missed(k - 1) <=> \E i \in 1 .. k - 1 : i \in missing
        /\ open(k) /\ ~loads(k) <=> k \in missing
    BY <1>4, <2>1
  <2> HIDE DEF missing
  <2>3. (\E i \in 1 .. k : i \in missing) <=> (\E i \in 1 .. k - 1 : i \in missing) \/ k \in missing
    BY <1>4
  <2> HIDE DEF Missed, open, loads
  <2> QED
    BY <2>2, <2>3
<1>6. Cut(k) <=> Cut(k - 1) \/ (open(k) /\ cut(k))
  <2>1. k \in 1 .. k
    BY <1>4
  <2>2. /\ Cut(k) <=> \E i \in 1 .. k : i \in cuts
        /\ Cut(k - 1) <=> \E i \in 1 .. k - 1 : i \in cuts
        /\ open(k) /\ cut(k) <=> k \in cuts
    BY <1>4, <2>1
  <2> HIDE DEF cuts
  <2>3. (\E i \in 1 .. k : i \in cuts) <=> (\E i \in 1 .. k - 1 : i \in cuts) \/ k \in cuts
    BY <1>4
  <2> HIDE DEF Cut, open, cut
  <2> QED
    BY <2>2, <2>3
<1>7. /\ now \in Gatherings
      /\ r.failed \/ r.full => now = r
      /\ ~r.failed /\ ~r.full /\ ~loads(k) => now.failed
      /\ ~r.failed /\ ~r.full /\ loads(k) =>
           /\ p \in DOMAIN tree /\ tree[p].cut \in BOOLEAN
           /\ ~now.failed
           /\ now.out = r.out \o [i \in 1 .. Least(n, room) |-> <<p, i>>]
           /\ now.full <=> n > room
           /\ now.truncated <=> r.truncated \/ tree[p].cut \/ n > room
  BY <1>1, GatheredIs
<1>8. /\ open(k) <=> before <= max
      /\ cut(k) <=> tree[p].cut
  OBVIOUS
<1> HIDE DEF Missed, Cut, loads, open, cut, now, room, n, before, p
<1>9. SUFFICES /\ now.failed <=> Missed(k)
               /\ ~now.failed =>
                    /\ now.full <=> T[k] > max
                    /\ Len(now.out) = Least(T[k], max)
                    /\ Orderly(now.out)
                    /\ \A m \in 1 .. Len(now.out) : \E i \in 1 .. k : now.out[m][1] = docs[i]
                    /\ now.truncated <=> Len(docs) > limits.maxDocs \/ T[k] > max \/ Cut(k)
  BY DEF GatheredWell, Missed, Cut, loads, open, cut, now, p
<1>10. CASE r.failed
  <2>1. now = r
    BY <1>7, <1>10
  <2>2. Missed(k)
    BY <1>3, <1>5, <1>10
  <2> QED
    BY <1>10, <2>1, <2>2
<1>11. CASE ~r.failed /\ r.full
  <2>1. now = r /\ before > max
    BY <1>3, <1>7, <1>11
  <2>2. ~open(k) /\ T[k] > max /\ Least(T[k], max) = Least(before, max)
    BY <1>1, <1>2, <1>8, <2>1 DEF Least
  <2>3. \A m \in 1 .. Len(r.out) : \E i \in 1 .. k : r.out[m][1] = docs[i]
    BY <1>3, <1>4, <1>11
  <2> QED
    BY <1>3, <1>5, <1>6, <1>11, <2>1, <2>2, <2>3
<1>12. CASE ~r.failed /\ ~r.full /\ ~loads(k)
  <2>1. now.failed /\ ~(before > max)
    BY <1>3, <1>7, <1>12
  <2>2. open(k)
    BY <1>1, <1>8, <2>1
  <2> QED
    BY <1>5, <1>12, <2>1, <2>2
<1>13. CASE ~r.failed /\ ~r.full /\ loads(k)
  <2> DEFINE m == Least(n, room)
             out == r.out
             added == [i \in 1 .. m |-> <<p, i>>]
  <2>1. ~(before > max) /\ before <= max
    BY <1>1, <1>3, <1>13
  <2>2. Len(out) = before /\ room = max - before /\ room \in Nat
    <3>1. Len(out) = Least(before, max)
      BY <1>3, <1>13
    <3>2. Least(before, max) = before
      BY <1>1, <2>1 DEF Least
    <3>3. room = max - Len(out)
      BY DEF Room, room
    <3> QED
      BY <1>1, <2>1, <3>1, <3>2, <3>3
  <2>3. m \in Nat /\ (n > room <=> T[k] > max) /\ before + m = Least(T[k], max)
    <3> DEFINE t == T[k]
    <3>1. /\ t = before + n /\ n \in Nat /\ before \in Nat /\ max \in Nat
          /\ room = max - before /\ room \in Nat
      BY <1>1, <1>2, <2>2
    <3> HIDE DEF t, max, added, out
    <3>2. CASE n > room
      <4>1. m = room /\ t > max /\ Least(t, max) = max
        <5>1. t > max /\ ~(n < room) /\ ~(t < max)
          BY <3>1, <3>2
        <5> QED
          BY <5>1 DEF Least
      <4> QED
        BY <3>1, <3>2, <4>1 DEF t
    <3>3. CASE ~(n > room)
      <4>1. m = n /\ ~(t > max) /\ Least(t, max) = t
        <5>1. ~(t > max) /\ (n < room \/ n = room) /\ (t < max \/ t = max)
          BY <3>1, <3>3
        <5> QED
          BY <5>1 DEF Least
      <4> QED
        BY <3>1, <3>3, <4>1 DEF t
    <3> QED
      BY <3>2, <3>3
  <2>4. out \in Seq(Nat \X Nat) /\ Orderly(out)
    BY <1>3, <1>13 DEF Gatherings
  <2>5. \A j \in 1 .. Len(out) : out[j][1] <= p
    <3> TAKE j \in 1 .. Len(out)
    <3>1. PICK i \in 1 .. k - 1 : out[j][1] = docs[i]
      BY <1>3, <1>13
    <3>2. i \in 1 .. Len(docs) /\ i <= k
      BY <1>1
    <3>3. docs[i] <= docs[k]
      BY <1>1, <3>2
    <3> QED
      BY <3>1, <3>3 DEF p
  <2> HIDE DEF m, out
  <2>6. /\ Len(out \o added) = Len(out) + m
        /\ \A j \in 1 .. Len(out \o added) :
              \/ j \in 1 .. Len(out) /\ (out \o added)[j] = out[j]
              \/ j \notin 1 .. Len(out) /\ (out \o added)[j][1] = p
        /\ Orderly(out \o added)
    <3>1. p \in Nat
      BY <1>1 DEF p
    <3>2. m \in Nat
      BY <2>3
    <3>3. Joined(out, added, p, m)
      BY <2>4, <2>5, <3>1, <3>2, OrderlyGrows
    <3> HIDE DEF added
    <3> QED
      BY <3>3 DEF Joined
  <2> HIDE DEF added
  <2>7. now.out = out \o added
    BY <1>7, <1>13 DEF m, out, added
  <2>8. Len(now.out) = Least(T[k], max) /\ Orderly(now.out)
    BY <2>2, <2>3, <2>6, <2>7
  <2>9. \A j \in 1 .. Len(now.out) : \E i \in 1 .. k : now.out[j][1] = docs[i]
    <3> TAKE j \in 1 .. Len(now.out)
    <3>1. CASE j \in 1 .. Len(out) /\ now.out[j] = out[j]
      <4>1. PICK i \in 1 .. k - 1 : out[j][1] = docs[i]
        BY <1>3, <1>13, <3>1 DEF out
      <4> QED
        BY <1>4, <3>1, <4>1
    <3>2. CASE now.out[j][1] = p
      BY <1>4, <3>2 DEF p
    <3> QED
      BY <2>6, <2>7, <3>1, <3>2
  <2>10. ~now.failed /\ (now.full <=> T[k] > max)
    BY <1>7, <1>13, <2>3
  <2>11. now.truncated <=> Len(docs) > limits.maxDocs \/ T[k] > max \/ Cut(k)
    <3>1. open(k) /\ (cut(k) <=> tree[p].cut)
      BY <1>8, <2>1
    <3>2. now.truncated <=> r.truncated \/ tree[p].cut \/ n > room
      BY <1>7, <1>13
    <3>3. r.truncated <=> Len(docs) > limits.maxDocs \/ Cut(k - 1)
      BY <1>3, <1>13, <2>1
    <3>4. Cut(k) <=> Cut(k - 1) \/ tree[p].cut
      BY <1>6, <3>1
    <3> QED
      BY <2>3, <3>2, <3>3, <3>4
  <2>12. ~Missed(k)
    BY <1>3, <1>5, <1>13
  <2> QED
    BY <2>8, <2>9, <2>10, <2>11, <2>12
<1> QED
  BY <1>10, <1>11, <1>12, <1>13

\* The gathering, document by document.
LEMMA GatherUnfolds ==
    ASSUME NEW tree, IsTree(tree), NEW limits,
           limits.maxTotal \in Nat \ {0}, limits.maxDocs \in Nat \ {0}
    PROVE  LET docs == ListDocuments(tree)
               kept == Least(Len(docs), limits.maxDocs)
           IN  \E f : /\ f[0] = [out |-> <<>>, truncated |-> Len(docs) > limits.maxDocs,
                                 failed |-> FALSE, full |-> FALSE]
                      /\ \A k \in 0 .. kept : f[k] \in Gatherings
                      /\ \A k \in 1 .. kept : f[k] = Gathered(tree, limits, f[k - 1], docs[k])
                      /\ Gather(tree, limits) = f[kept]
<1> DEFINE docs == ListDocuments(tree)
           n == Least(Len(docs), limits.maxDocs)
           a == [out |-> <<>>, truncated |-> Len(docs) > limits.maxDocs,
                 failed |-> FALSE, full |-> FALSE]
           step == [k \in 1 .. n |-> [v \in Gatherings |-> Gathered(tree, limits, v, docs[k])]]
           f == CHOOSE g : g = [k \in 0 .. n |->
                  IF k = 0 THEN a ELSE Gathered(tree, limits, g[k - 1], docs[k])]
<1>1. docs \in Seq(Nat)
  BY DocumentsAre
<1>2. Gather(tree, limits) = f[n]
  BY DEF Gather
<1> HIDE DEF docs
<1>3. n \in Nat /\ \A k \in 1 .. n : docs[k] \in Nat
  <2>1. n \in Nat /\ n <= Len(docs)
    BY <1>1 DEF Least
  <2>2. \A k \in 1 .. n : k \in 1 .. Len(docs)
    BY <1>1, <2>1
  <2> QED
    BY <1>1, <2>1, <2>2
<1>4. a \in Gatherings
  <2>1. (Len(docs) > limits.maxDocs) \in BOOLEAN
    OBVIOUS
  <2> QED
    BY <2>1 DEF Gatherings
<1> HIDE DEF n
<1>5. ASSUME NEW k \in 1 .. n, NEW v \in Gatherings
      PROVE  Gathered(tree, limits, v, docs[k]) \in Gatherings
  BY <1>3, GatheredIs
<1>6. /\ step \in [1 .. n -> [Gatherings -> Gatherings]]
      /\ \A k \in 1 .. n, v \in Gatherings : step[k][v] = Gathered(tree, limits, v, docs[k])
  BY <1>5
<1> HIDE DEF step, a
<1>7. PICK g : Recurs(g, n, Gatherings, a, step)
  BY <1>3, <1>4, <1>6, ListRecursion
<1>8. g \in [0 .. n -> Gatherings] /\ g[0] = a /\ \A k \in 1 .. n : g[k] = step[k][g[k - 1]]
  BY <1>7 DEF Recurs
<1>9. \A k \in 1 .. n : k - 1 \in 0 .. n /\ g[k] = Gathered(tree, limits, g[k - 1], docs[k])
  <2> TAKE k \in 1 .. n
  <2>1. k - 1 \in 0 .. n
    BY <1>3
  <2>2. g[k - 1] \in Gatherings
    BY <1>8, <2>1
  <2> QED
    BY <1>6, <1>8, <2>1, <2>2
<1>10. g = [k \in 0 .. n |-> IF k = 0 THEN a ELSE Gathered(tree, limits, g[k - 1], docs[k])]
  BY <1>8, <1>9
<1>11. f = [k \in 0 .. n |-> IF k = 0 THEN a ELSE Gathered(tree, limits, f[k - 1], docs[k])]
  BY <1>10
<1> HIDE DEF f
<1>12. f[0] = a /\ \A k \in 1 .. n : f[k] = Gathered(tree, limits, f[k - 1], docs[k])
  BY <1>3, <1>11
<1> DEFINE S == {k \in 0 .. n : f[k] \in Gatherings}
<1>13. 0 .. n \subseteq S
  <2>1. 0 \in S
    BY <1>3, <1>4, <1>12
  <2>2. \A k \in 1 .. n : k - 1 \in S => k \in S
    BY <1>5, <1>12
  <2> HIDE DEF S
  <2> QED
    BY <1>3, <2>1, <2>2, Stepwise
<1>14. \A k \in 0 .. n : f[k] \in Gatherings
  BY <1>13
<1> QED
  BY <1>2, <1>12, <1>14 DEF docs, n, a

\* docqa/tools.py:107-123: what a query over a directory leaves out it says,
\* and what it has to open and cannot it fails on, whatever the tree.
THEOREM GatheringIsAlwaysHonest ==
    ASSUME NEW tree, IsTree(tree), NEW limits,
           limits.maxTotal \in Nat \ {0}, limits.maxDocs \in Nat \ {0}
    PROVE  GatheringIsHonest(tree, limits)
<1> DEFINE docs == ListDocuments(tree)
           seen == Least(Len(docs), limits.maxDocs)
           max == limits.maxTotal
           result == Gather(tree, limits)
           chunksOf(i) == IF docs[i] \in DOMAIN tree THEN tree[docs[i]].chunks ELSE 0
           before(i) == Total([j \in 1 .. i - 1 |-> chunksOf(j)])
           opened == {i \in 1 .. seen : before(i) <= max}
           s == [j \in 1 .. seen |-> ChunksOf(tree, docs[j])]
           T == [k \in 0 .. seen |-> Total([j \in 1 .. k |-> s[j]])]
<1>1. docs \in Seq(Nat) /\ \A m, n \in 1 .. Len(docs) : m <= n => docs[m] <= docs[n]
  BY DocumentsAre
<1>2. PICK f : /\ f[0] = [out |-> <<>>, truncated |-> Len(docs) > limits.maxDocs,
                          failed |-> FALSE, full |-> FALSE]
               /\ \A k \in 0 .. seen : f[k] \in Gatherings
               /\ \A k \in 1 .. seen : f[k] = Gathered(tree, limits, f[k - 1], docs[k])
               /\ result = f[seen]
  BY GatherUnfolds
<1>3. SUFFICES
        /\ result.failed <=> \E i \in opened : LoadDocument(tree, docs[i], limits.maxBytes) # "ok"
        /\ ~result.failed =>
             /\ Len(result.out) = Least(before(seen + 1), max)
             /\ Orderly(result.out)
             /\ result.truncated <=> \/ Len(docs) > limits.maxDocs
                                     \/ before(seen + 1) > max
                                     \/ \E i \in opened : tree[docs[i]].cut
  BY DEF GatheringIsHonest, Orderly
<1> HIDE DEF docs, result
<1>4. seen \in Nat /\ seen <= Len(docs) /\ max \in Nat \ {0}
  BY <1>1 DEF Least
<1> HIDE DEF seen
<1>5. s \in [1 .. seen -> Nat] /\ \A j \in 1 .. seen : s[j] = ChunksOf(tree, docs[j])
  <2>1. ASSUME NEW p
        PROVE  ChunksOf(tree, p) \in Nat
    <3>1. p \in DOMAIN tree => tree[p] \in Files
      BY DEF IsTree
    <3> QED
      BY <3>1 DEF ChunksOf, Files
  <2> QED
    BY <2>1
<1>6. ASSUME NEW i \in 1 .. seen + 1
      PROVE  i - 1 \in 0 .. seen /\ before(i) = T[i - 1]
  <2>1. i - 1 \in 0 .. seen /\ i - 1 \in Nat
    BY <1>4
  <2>2. \A j \in 1 .. i - 1 : j \in 1 .. seen
    BY <1>4
  <2>3. \A j \in 1 .. i - 1 : chunksOf(j) = s[j]
    BY <1>5, <2>2 DEF ChunksOf
  <2> HIDE DEF chunksOf, s
  <2>4. [j \in 1 .. i - 1 |-> chunksOf(j)] = [j \in 1 .. i - 1 |-> s[j]]
    BY <2>3
  <2> QED
    BY <2>1, <2>4
<1> HIDE DEF s, chunksOf
<1>7. Sums(T, tree, docs, seen)
  <2> DEFINE Sum(k) == Total([j \in 1 .. k |-> s[j]])
  <2>1. /\ Sum(0) = 0 /\ \A k \in 0 .. seen : Sum(k) \in Nat
        /\ \A k \in 1 .. seen : Sum(k) = Sum(k - 1) + s[k]
    BY <1>4, <1>5, TotalsGrow
  <2>2. \A k \in 0 .. seen : T[k] = Sum(k)
    OBVIOUS
  <2>3. T \in [0 .. seen -> Nat]
    BY <2>1
  <2> HIDE DEF T, Sum
  <2>4. 0 \in 0 .. seen /\ \A k \in 1 .. seen : k \in 0 .. seen /\ k - 1 \in 0 .. seen
    BY <1>4
  <2> QED
    BY <1>5, <2>1, <2>2, <2>3, <2>4 DEF Sums
<1> HIDE DEF T, before
<1> DEFINE S == {k \in 0 .. seen : GatheredWell(tree, limits, docs, T, k, f[k])}
<1>8. 0 \in S
  <2>1. /\ f[0].out = <<>> /\ f[0].failed = FALSE /\ f[0].full = FALSE
        /\ f[0].truncated = (Len(docs) > limits.maxDocs)
    BY <1>2
  <2>2. T[0] = 0 /\ ~(0 > max) /\ Least(0, max) = 0 /\ 0 \in 0 .. seen
    BY <1>4, <1>7 DEF Sums, Least
  <2>3. Len(<<>>) = 0 /\ 1 .. 0 = {} /\ 2 .. 0 = {} /\ Orderly(<<>>)
    BY DEF Orderly
  <2>4. GatheredWell(tree, limits, docs, T, 0, f[0])
    BY <2>1, <2>2, <2>3 DEF GatheredWell
  <2> QED
    BY <2>2, <2>4
<1>9. ASSUME NEW k \in 1 .. seen, k - 1 \in S
      PROVE  k \in S
  <2>1. k - 1 \in 0 .. seen /\ k \in 0 .. seen
    BY <1>4
  <2>2. f[k - 1] \in Gatherings /\ GatheredWell(tree, limits, docs, T, k - 1, f[k - 1])
    BY <1>2, <1>9, <2>1
  <2>3. f[k] = Gathered(tree, limits, f[k - 1], docs[k])
    BY <1>2
  <2>4. GatheredWell(tree, limits, docs, T, k, f[k])
    BY <1>1, <1>4, <1>7, <2>2, <2>3, GatheredStaysWell
  <2> QED
    BY <2>1, <2>4
<1>10. GatheredWell(tree, limits, docs, T, seen, result)
  <2>1. 0 .. seen \subseteq S
    <3> HIDE DEF S
    <3> QED
      BY <1>4, <1>8, <1>9, Stepwise
  <2>2. seen \in 0 .. seen
    BY <1>4
  <2> QED
    BY <1>2, <2>1, <2>2
<1>11. /\ before(seen + 1) = T[seen]
       /\ \A i \in 1 .. seen : before(i) = T[i - 1]
  <2>1. seen + 1 \in 1 .. seen + 1 /\ (seen + 1) - 1 = seen
    BY <1>4
  <2>2. \A i \in 1 .. seen : i \in 1 .. seen + 1
    BY <1>4
  <2> QED
    BY <1>6, <2>1, <2>2
<1>12. \A i : i \in opened <=> i \in 1 .. seen /\ T[i - 1] <= max
  BY <1>11
<1>13. (\E i \in opened : LoadDocument(tree, docs[i], limits.maxBytes) # "ok") <=>
          \E i \in 1 .. seen : T[i - 1] <= max /\ ~Loads(tree, limits, docs[i])
  BY <1>12 DEF Loads
<1>14. (\E i \in opened : tree[docs[i]].cut) <=>
          \E i \in 1 .. seen : T[i - 1] <= max /\ tree[docs[i]].cut
  BY <1>12
<1> HIDE DEF opened
<1> QED
  BY <1>10, <1>11, <1>13, <1>14 DEF GatheredWell

-----------------------------------------------------------------------------
(* The parameters of a chat, for every list of settings.                   *)

\* Parameters no chat may go beyond, with values in X.
Params(X, ceiling) ==
    {d \in UNION {[D -> X] : D \in SUBSET ParamKeys} :
        "max_tokens" \in DOMAIN d => d["max_tokens"] \in Int /\ d["max_tokens"] <= ceiling}

\* The j-th setting is the last of the first i that has k.
LastGiven(settings, i, j, k) ==
    k \in DOMAIN settings[j] /\ \A m \in 1 .. i : k \in DOMAIN settings[m] => m <= j

LEMMA ParamsAre ==
    ASSUME NEW X, NEW ceiling \in Int, NEW d
    PROVE  d \in Params(X, ceiling) <=>
             /\ DOMAIN d \subseteq ParamKeys /\ d \in [DOMAIN d -> X]
             /\ "max_tokens" \in DOMAIN d => d["max_tokens"] \in Int /\ d["max_tokens"] <= ceiling
<1>1. d \in UNION {[D -> X] : D \in SUBSET ParamKeys} <=>
        DOMAIN d \subseteq ParamKeys /\ d \in [DOMAIN d -> X]
  OBVIOUS
<1> QED
  BY <1>1 DEF Params

\* The parameters of p that are known, clamped, over d.
LEMMA OverIs ==
    ASSUME NEW p, NEW d, NEW ceiling \in Int, DOMAIN d \subseteq ParamKeys,
           "max_tokens" \in DOMAIN p => p["max_tokens"] \in Int
    PROVE  LET now == Over(Restricted(Clamped(p, ceiling), ParamKeys), d)
           IN  /\ DOMAIN now = (DOMAIN p \cap ParamKeys) \cup DOMAIN d
               /\ now = [k \in DOMAIN now |-> now[k]]
               /\ \A k \in DOMAIN now : k \notin DOMAIN p => now[k] = d[k]
               /\ \A k \in DOMAIN p \cap ParamKeys : k # "max_tokens" => now[k] = p[k]
               /\ "max_tokens" \in DOMAIN p =>
                    /\ now["max_tokens"] \in Int /\ now["max_tokens"] <= ceiling
                    /\ now["max_tokens"] \in {p["max_tokens"], ceiling}
<1> DEFINE c == Clamped(p, ceiling)
           q == Restricted(c, ParamKeys)
           now == Over(q, d)
<1>1. /\ DOMAIN c = DOMAIN p
      /\ \A k \in DOMAIN p : c[k] = IF k = "max_tokens" /\ p[k] > ceiling THEN ceiling ELSE p[k]
  BY DEF Clamped
<1> HIDE DEF c
<1>2. DOMAIN q = DOMAIN p \cap ParamKeys /\ \A k \in DOMAIN q : q[k] = c[k]
  BY <1>1 DEF Restricted
<1> HIDE DEF q
<1>3. /\ DOMAIN now = DOMAIN q \cup DOMAIN d
      /\ \A k \in DOMAIN now : now[k] = IF k \in DOMAIN q THEN q[k] ELSE d[k]
      /\ now = [k \in DOMAIN now |-> now[k]]
  BY DEF Over
<1> HIDE DEF now
<1>4. \A k \in DOMAIN p \cap ParamKeys : now[k] = c[k]
  BY <1>2, <1>3
<1>5. "max_tokens" \in ParamKeys
  BY DEF ParamKeys
<1>6. "max_tokens" \in DOMAIN p =>
        /\ now["max_tokens"] \in Int /\ now["max_tokens"] <= ceiling
        /\ now["max_tokens"] \in {p["max_tokens"], ceiling}
  BY <1>1, <1>4, <1>5
<1> QED
  BY <1>1, <1>2, <1>3, <1>4, <1>6 DEF now, q, c

\* The defaults after all settings: within the ceiling, and each other parameter
\* as the last setting that has it says.
LEMMA DefaultsUnfold ==
    ASSUME NEW settings, NEW ceiling \in Int, settings \in Seq(ToSet(settings)),
           \A p \in ToSet(settings) : "max_tokens" \in DOMAIN p => p["max_tokens"] \in Int
    PROVE  LET last == Defaulted(settings, ceiling)
           IN  /\ DOMAIN last \subseteq ParamKeys
               /\ "max_tokens" \in DOMAIN last =>
                    last["max_tokens"] \in Int /\ last["max_tokens"] <= ceiling
               /\ \A j \in 1 .. Len(settings), k \in ParamKeys \ {"max_tokens"} :
                    LastGiven(settings, Len(settings), j, k) =>
                      k \in DOMAIN last /\ last[k] = settings[j][k]
<1> DEFINE n == Len(settings)
           U == UNION {{p[k] : k \in DOMAIN p} : p \in ToSet(settings)}
           X == U \cup {ceiling}
           V == Params(X, ceiling)
           a == [k \in {} |-> 0]
           G(v, k) == SetDefaultParams(v, Clamped(settings[k], ceiling))
           step == [k \in 1 .. n |-> [v \in V |-> G(v, k)]]
           f == CHOOSE g : g = [k \in 0 .. n |-> IF k = 0 THEN a ELSE G(g[k - 1], k)]
<1>1. n \in Nat /\ \A k \in 1 .. n : settings[k] \in ToSet(settings)
  BY DEF ToSet
<1>2. ceiling \in X /\ \A p \in ToSet(settings) : \A k \in DOMAIN p : p[k] \in X
  <2>1. ASSUME NEW p \in ToSet(settings), NEW k \in DOMAIN p
        PROVE  p[k] \in U
    <3>1. p[k] \in {p[j] : j \in DOMAIN p}
      OBVIOUS
    <3> QED
      BY <3>1
  <2> HIDE DEF U
  <2> QED
    BY <2>1
<1> HIDE DEF X
<1>3. a \in V
  <2>1. DOMAIN a = {} /\ a = [k \in DOMAIN a |-> a[k]]
    OBVIOUS
  <2> HIDE DEF a
  <2>2. a \in [DOMAIN a -> X]
    BY <2>1
  <2> QED
    BY <2>1, <2>2, ParamsAre
<1>4. ASSUME NEW k \in 1 .. n, NEW v \in V
      PROVE  G(v, k) \in V
  <2> DEFINE p == settings[k]
             now == Over(Restricted(Clamped(p, ceiling), ParamKeys), v)
  <2>1. p \in ToSet(settings) /\ ("max_tokens" \in DOMAIN p => p["max_tokens"] \in Int)
    BY <1>1
  <2>2. /\ DOMAIN v \subseteq ParamKeys /\ v \in [DOMAIN v -> X]
        /\ "max_tokens" \in DOMAIN v => v["max_tokens"] \in Int /\ v["max_tokens"] <= ceiling
    BY ParamsAre
  <2>3. now = G(v, k)
    BY DEF SetDefaultParams
  <2> HIDE DEF p
  <2>4. /\ DOMAIN now = (DOMAIN p \cap ParamKeys) \cup DOMAIN v
        /\ now = [j \in DOMAIN now |-> now[j]]
        /\ \A j \in DOMAIN now : j \notin DOMAIN p => now[j] = v[j]
        /\ \A j \in DOMAIN p \cap ParamKeys : j # "max_tokens" => now[j] = p[j]
        /\ "max_tokens" \in DOMAIN p =>
             /\ now["max_tokens"] \in Int /\ now["max_tokens"] <= ceiling
             /\ now["max_tokens"] \in {p["max_tokens"], ceiling}
    BY <2>1, <2>2, OverIs
  <2> HIDE DEF now
  <2>5. DOMAIN now \subseteq ParamKeys
    BY <2>2, <2>4
  <2>6. ASSUME NEW j \in DOMAIN now
        PROVE  now[j] \in X
    <3>1. CASE j \notin DOMAIN p
      <4>1. j \in DOMAIN v /\ now[j] = v[j]
        BY <2>4, <3>1
      <4> QED
        BY <2>2, <4>1
    <3>2. CASE j \in DOMAIN p /\ j # "max_tokens"
      <4>1. now[j] = p[j]
        BY <2>4, <2>5, <3>2
      <4> QED
        BY <1>2, <2>1, <3>2, <4>1
    <3>3. CASE j \in DOMAIN p /\ j = "max_tokens"
      BY <1>2, <2>1, <2>4, <3>3
    <3> QED
      BY <3>1, <3>2, <3>3
  <2>7. now \in [DOMAIN now -> X]
    BY <2>4, <2>6
  <2>8. "max_tokens" \in DOMAIN now => now["max_tokens"] \in Int /\ now["max_tokens"] <= ceiling
    BY <2>2, <2>4
  <2>9. now \in V
    BY <2>5, <2>7, <2>8, ParamsAre
  <2> QED
    BY <2>3, <2>9
<1> HIDE DEF V, G
<1>5. /\ step \in [1 .. n -> [V -> V]]
      /\ \A k \in 1 .. n, v \in V : step[k][v] = G(v, k)
  BY <1>4
<1> HIDE DEF step, a
<1>6. PICK g : Recurs(g, n, V, a, step)
  BY <1>1, <1>3, <1>5, ListRecursion
<1>7. g \in [0 .. n -> V] /\ g[0] = a /\ \A k \in 1 .. n : g[k] = step[k][g[k - 1]]
  BY <1>6 DEF Recurs
<1>8. \A k \in 1 .. n : k - 1 \in 0 .. n /\ g[k] = G(g[k - 1], k)
  <2> TAKE k \in 1 .. n
  <2>1. k - 1 \in 0 .. n
    BY <1>1
  <2>2. g[k - 1] \in V
    BY <1>7, <2>1
  <2> QED
    BY <1>5, <1>7, <2>1, <2>2
<1>9. g = [k \in 0 .. n |-> IF k = 0 THEN a ELSE G(g[k - 1], k)]
  BY <1>7, <1>8
<1>10. f = [k \in 0 .. n |-> IF k = 0 THEN a ELSE G(f[k - 1], k)]
  BY <1>9
<1> HIDE DEF f
<1>11. f[0] = a /\ \A k \in 1 .. n : f[k] = G(f[k - 1], k)
  BY <1>1, <1>10
<1> DEFINE Told(i) == \A j \in 1 .. i, k \in ParamKeys \ {"max_tokens"} :
                        LastGiven(settings, i, j, k) =>
                          k \in DOMAIN f[i] /\ f[i][k] = settings[j][k]
           S == {i \in 0 .. n : f[i] \in V /\ Told(i)}
<1>12. 0 .. n \subseteq S
  <2>1. 0 \in S
    <3>1. Told(0)
      OBVIOUS
    <3> QED
      BY <1>1, <1>3, <1>11, <3>1
  <2>2. ASSUME NEW i \in 1 .. n, i - 1 \in S
        PROVE  i \in S
    <3> DEFINE p == settings[i]
               d == f[i - 1]
               now == f[i]
    <3>1. d \in V /\ Told(i - 1) /\ now = G(d, i)
      BY <1>11, <2>2
    <3>2. now \in V
      BY <1>4, <3>1
    <3>3. now = Over(Restricted(Clamped(p, ceiling), ParamKeys), d)
      BY <3>1 DEF SetDefaultParams, G
    <3>4. DOMAIN d \subseteq ParamKeys
      BY <3>1, ParamsAre DEF V
    <3>5. "max_tokens" \in DOMAIN p => p["max_tokens"] \in Int
      BY <1>1
    <3>6. /\ DOMAIN now = (DOMAIN p \cap ParamKeys) \cup DOMAIN d
          /\ \A k \in DOMAIN now : k \notin DOMAIN p => now[k] = d[k]
          /\ \A k \in DOMAIN p \cap ParamKeys : k # "max_tokens" => now[k] = p[k]
      <4> DEFINE o == Over(Restricted(Clamped(p, ceiling), ParamKeys), d)
      <4> HIDE DEF p, d, now
      <4>1. /\ DOMAIN o = (DOMAIN p \cap ParamKeys) \cup DOMAIN d
            /\ o = [k \in DOMAIN o |-> o[k]]
            /\ \A k \in DOMAIN o : k \notin DOMAIN p => o[k] = d[k]
            /\ \A k \in DOMAIN p \cap ParamKeys : k # "max_tokens" => o[k] = p[k]
            /\ "max_tokens" \in DOMAIN p =>
                 /\ o["max_tokens"] \in Int /\ o["max_tokens"] <= ceiling
                 /\ o["max_tokens"] \in {p["max_tokens"], ceiling}
        BY <3>4, <3>5, OverIs
      <4>2. o = now
        BY <3>3
      <4> HIDE DEF o
      <4> QED
        BY <4>1, <4>2
    <3>7. ASSUME NEW j \in 1 .. i, NEW k \in ParamKeys \ {"max_tokens"},
                 LastGiven(settings, i, j, k)
          PROVE  k \in DOMAIN now /\ now[k] = settings[j][k]
      <4>1. CASE j = i
        <5>1. k \in DOMAIN p
          BY <3>7, <4>1 DEF LastGiven
        <5> QED
          BY <3>6, <4>1, <5>1
      <4>2. CASE j # i
        <5>1. i \in 1 .. i /\ j \in 1 .. i - 1
          BY <1>1, <4>2
        <5>2. k \notin DOMAIN p
          BY <3>7, <4>2, <5>1 DEF LastGiven
        <5>3. LastGiven(settings, i - 1, j, k)
          BY <1>1, <3>7 DEF LastGiven
        <5>4. k \in DOMAIN d /\ d[k] = settings[j][k]
          BY <3>1, <5>1, <5>3
        <5> HIDE DEF p, d, now
        <5> QED
          BY <3>6, <5>2, <5>4
      <4> QED
        BY <4>1, <4>2
    <3>8. Told(i)
      BY <3>7
    <3> HIDE DEF Told
    <3> QED
      BY <3>2, <3>8
  <2> HIDE DEF S
  <2> QED
    BY <1>1, <2>1, <2>2, Stepwise
<1>13. f[n] \in V /\ Told(n)
  <2> HIDE DEF Told
  <2> QED
    BY <1>1, <1>12
<1> DEFINE last == f[n]
<1>14. /\ DOMAIN last \subseteq ParamKeys
       /\ "max_tokens" \in DOMAIN last => last["max_tokens"] \in Int /\ last["max_tokens"] <= ceiling
       /\ \A j \in 1 .. n, k \in ParamKeys \ {"max_tokens"} :
            LastGiven(settings, n, j, k) => k \in DOMAIN last /\ last[k] = settings[j][k]
  <2>1. /\ DOMAIN last \subseteq ParamKeys
        /\ "max_tokens" \in DOMAIN last => last["max_tokens"] \in Int /\ last["max_tokens"] <= ceiling
    BY <1>13, ParamsAre DEF V
  <2> QED
    BY <1>13, <2>1
<1>15. last = Defaulted(settings, ceiling)
  BY DEF Defaulted, f, n, G, a
<1> HIDE DEF last
<1> QED
  BY <1>14, <1>15 DEF n

\* The parameters that a caller gives, over defaults: the clamped ones of a
\* request, none, or a number of tokens.
LEMMA GivenOver ==
    ASSUME NEW caller \in Callers, NEW own, NEW size \in Int, NEW ceiling \in Int,
           "max_tokens" \in DOMAIN own => own["max_tokens"] \in Int,
           NEW last, DOMAIN last \subseteq ParamKeys,
           "max_tokens" \in DOMAIN last =>
              last["max_tokens"] \in Int /\ last["max_tokens"] <= ceiling
    PROVE  LET given == ParamsOf(caller, own, size, ceiling)
               payload == Over(Restricted(given, ParamKeys), last)
           IN  /\ DOMAIN payload = (DOMAIN given \cap ParamKeys) \cup DOMAIN last
               /\ \A k \in DOMAIN payload : k \notin DOMAIN given => payload[k] = last[k]
               /\ \A k \in DOMAIN given \cap ParamKeys : k # "max_tokens" => payload[k] = own[k]
               /\ IF caller = "documents" THEN payload["max_tokens"] = size
                  ELSE "max_tokens" \in DOMAIN payload => payload["max_tokens"] <= ceiling
<1> DEFINE given == ParamsOf(caller, own, size, ceiling)
           payload == Over(Restricted(given, ParamKeys), last)
<1>1. "max_tokens" \in ParamKeys
  BY DEF ParamKeys
<1>2. CASE caller = "chat"
  <2>1. given = Clamped(own, ceiling) /\ DOMAIN given = DOMAIN own
    BY <1>2 DEF ParamsOf, Clamped
  <2> DEFINE now == Over(Restricted(Clamped(own, ceiling), ParamKeys), last)
  <2>2. now = payload
    BY <2>1
  <2>3. /\ DOMAIN now = (DOMAIN own \cap ParamKeys) \cup DOMAIN last
        /\ now = [k \in DOMAIN now |-> now[k]]
        /\ \A k \in DOMAIN now : k \notin DOMAIN own => now[k] = last[k]
        /\ \A k \in DOMAIN own \cap ParamKeys : k # "max_tokens" => now[k] = own[k]
        /\ "max_tokens" \in DOMAIN own =>
             /\ now["max_tokens"] \in Int /\ now["max_tokens"] <= ceiling
             /\ now["max_tokens"] \in {own["max_tokens"], ceiling}
    BY OverIs
  <2> HIDE DEF now
  <2>4. "max_tokens" \in DOMAIN now => now["max_tokens"] <= ceiling
    BY <2>3
  <2> HIDE DEF given, payload
  <2>5. /\ DOMAIN payload = (DOMAIN given \cap ParamKeys) \cup DOMAIN last
        /\ \A k \in DOMAIN payload : k \notin DOMAIN given => payload[k] = last[k]
        /\ \A k \in DOMAIN given \cap ParamKeys : k # "max_tokens" => payload[k] = own[k]
        /\ "max_tokens" \in DOMAIN payload => payload["max_tokens"] <= ceiling
    BY <2>1, <2>2, <2>3, <2>4
  <2> QED
    BY <1>2, <2>5 DEF given, payload
<1>3. CASE caller # "chat"
  <2> DEFINE asked == IF caller = "documents" THEN {"max_tokens"} ELSE {}
  <2>1. given = [k \in asked |-> IF caller = "documents" THEN size ELSE 0]
    BY <1>3 DEF ParamsOf, Callers
  <2> HIDE DEF given
  <2>2. DOMAIN given = asked /\ (caller = "documents" => given["max_tokens"] = size)
    BY <2>1
  <2> HIDE DEF payload
  <2>3. /\ DOMAIN payload = (DOMAIN given \cap ParamKeys) \cup DOMAIN last
        /\ \A k \in DOMAIN payload :
              payload[k] = IF k \in DOMAIN given \cap ParamKeys THEN given[k] ELSE last[k]
    BY DEF payload, Over, Restricted
  <2>4. DOMAIN given \subseteq ParamKeys
    BY <1>1, <2>2
  <2>5. /\ DOMAIN payload = (DOMAIN given \cap ParamKeys) \cup DOMAIN last
        /\ \A k \in DOMAIN payload : k \notin DOMAIN given => payload[k] = last[k]
        /\ \A k \in DOMAIN given \cap ParamKeys : k = "max_tokens"
        /\ caller = "documents" => payload["max_tokens"] = size
        /\ caller # "documents" /\ "max_tokens" \in DOMAIN payload =>
             payload["max_tokens"] <= ceiling
    BY <1>1, <2>2, <2>3, <2>4
  <2> QED
    BY <2>5 DEF given, payload
<1> QED
  BY <1>2, <1>3

\* gateway.py:321-364, llm_serving.py:201-217: no chat of a request or the agent
\* asks for more tokens than the ceiling, whatever defaults were set before it;
\* the tools on documents ask for their own; other parameters are the last given.
THEOREM TokensAreAlwaysClamped ==
    ASSUME NEW settings, NEW caller \in Callers, NEW own, NEW size \in Int, NEW ceiling \in Int,
           settings \in Seq(ToSet(settings)),
           \A p \in ToSet(settings) \cup {own} :
              "max_tokens" \in DOMAIN p => p["max_tokens"] \in Int
    PROVE  TokensAreClamped(settings, caller, own, size, ceiling)
<1> DEFINE given == ParamsOf(caller, own, size, ceiling)
           last == Defaulted(settings, ceiling)
           payload == Over(Restricted(given, ParamKeys), last)
           givenBy(k) == {n \in DOMAIN settings : k \in DOMAIN settings[n]}
<1>1. /\ DOMAIN last \subseteq ParamKeys
      /\ "max_tokens" \in DOMAIN last =>
           last["max_tokens"] \in Int /\ last["max_tokens"] <= ceiling
      /\ \A j \in 1 .. Len(settings), k \in ParamKeys \ {"max_tokens"} :
           LastGiven(settings, Len(settings), j, k) =>
             k \in DOMAIN last /\ last[k] = settings[j][k]
  BY DefaultsUnfold
<1>2. payload = BuildPayload(last, given, <<>>).params
  BY DEF BuildPayload
<1> HIDE DEF last
<1>3. "max_tokens" \in DOMAIN own => own["max_tokens"] \in Int
  OBVIOUS
<1>4. /\ DOMAIN payload = (DOMAIN given \cap ParamKeys) \cup DOMAIN last
      /\ \A k \in DOMAIN payload : k \notin DOMAIN given => payload[k] = last[k]
      /\ \A k \in DOMAIN given \cap ParamKeys : k # "max_tokens" => payload[k] = own[k]
      /\ IF caller = "documents" THEN payload["max_tokens"] = size
         ELSE "max_tokens" \in DOMAIN payload => payload["max_tokens"] <= ceiling
  BY <1>1, <1>3, GivenOver
<1> HIDE DEF payload, given
<1>5. DOMAIN payload \subseteq ParamKeys
  BY <1>1, <1>4
<1>6. ASSUME NEW k \in ParamKeys \ {"max_tokens"}
      PROVE  IF k \in DOMAIN given THEN payload[k] = own[k]
             ELSE \A n \in givenBy(k) :
                    (\A m \in givenBy(k) : m <= n) => payload[k] = settings[n][k]
  <2>1. CASE k \in DOMAIN given
    BY <1>4, <2>1
  <2>2. CASE k \notin DOMAIN given
    <3>1. SUFFICES ASSUME NEW n \in givenBy(k), \A m \in givenBy(k) : m <= n
                   PROVE  payload[k] = settings[n][k]
      BY <2>2
    <3>2. DOMAIN settings = 1 .. Len(settings)
      OBVIOUS
    <3>3. n \in 1 .. Len(settings) /\ LastGiven(settings, Len(settings), n, k)
      BY <3>1, <3>2 DEF LastGiven
    <3>4. k \in DOMAIN last /\ last[k] = settings[n][k]
      BY <1>1, <3>3
    <3> QED
      BY <1>4, <2>2, <3>4
  <2> QED
    BY <2>1, <2>2
<1> HIDE DEF givenBy
<1> QED
  BY <1>2, <1>4, <1>5, <1>6 DEF TokensAreClamped, payload, given, last, givenBy

-----------------------------------------------------------------------------
(* The response of a model, for every stream.                              *)

\* What texts are: lists of pieces.
PieceTexts == Seq(Pieces)
CallNames(sent) == {""} \cup {sent[i].name : i \in DOMAIN sent}
CallIds(sent) == {""} \cup {sent[i].id : i \in DOMAIN sent}
SlotRecords(sent) == [id : CallIds(sent), name : CallNames(sent), args : PieceTexts]
SlotsOf(sent) == UNION {[D -> SlotRecords(sent)] : D \in SUBSET DOMAIN sent}
IsFragment(sent, f) ==
    /\ f.index \in DOMAIN sent /\ f.id \in {"", sent[f.index].id}
    /\ f.name \in {"", sent[f.index].name} /\ f.args \in PieceTexts

\* What a slot holds of a call: its identifier and its name once they arrived.
Held(sent, got, arrived, given, i) ==
    [id |-> IF i \in given THEN sent[i].id ELSE "",
     name |-> IF i \in arrived THEN sent[i].name ELSE "", args |-> got[i]]

\* The slots hold what was received of each call.
Tracks(sent, slots, got, arrived, given) ==
    /\ DOMAIN slots \subseteq DOMAIN sent
    /\ \A i \in DOMAIN sent :
          /\ i \notin DOMAIN slots => got[i] = <<>> /\ i \notin arrived /\ i \notin given
          /\ i \in DOMAIN slots => slots[i] = Held(sent, got, arrived, given, i)

LEMMA TextsJoin ==
    ASSUME NEW s \in PieceTexts, NEW t \in PieceTexts
    PROVE  s \o t \in PieceTexts
BY DEF PieceTexts

\* One fragment.
LEMMA FragmentTracks ==
    ASSUME NEW sent, NEW f, IsFragment(sent, f), NEW slots, NEW got, NEW arrived, NEW given,
           Tracks(sent, slots, got, arrived, given), NEW got2, NEW arrived2, NEW given2,
           \A i \in DOMAIN sent : got2[i] = IF f.index = i THEN got[i] \o f.args ELSE got[i],
           \A i \in DOMAIN sent : i \in arrived2 <=> i \in arrived \/ (f.name # "" /\ f.index = i),
           \A i \in DOMAIN sent : i \in given2 <=> i \in given \/ (f.id # "" /\ f.index = i)
    PROVE  Tracks(sent, Folded(slots, f), got2, arrived2, given2)
<1> DEFINE x == f.index
           slot == IF x \in DOMAIN slots THEN slots[x] ELSE Slot
           now == Folded(slots, f)
           new == [id |-> Kept(f.id, slot.id), name |-> Kept(f.name, slot.name),
                   args |-> slot.args \o f.args]
<1>1. /\ x \in DOMAIN sent /\ f.id \in {"", sent[x].id} /\ f.name \in {"", sent[x].name}
      /\ f.args \in PieceTexts
  BY DEF IsFragment
<1>2. /\ DOMAIN now = DOMAIN slots \cup {x}
      /\ now[x] = new
      /\ \A i \in DOMAIN slots : i # x => now[i] = slots[i]
  BY DEF Folded
<1> HIDE DEF now
<1>3. /\ slot.args = got[x]
      /\ slot.id = IF x \in given THEN sent[x].id ELSE ""
      /\ slot.name = IF x \in arrived THEN sent[x].name ELSE ""
  <2>1. CASE x \in DOMAIN slots
    <3>1. slot = [id |-> IF x \in given THEN sent[x].id ELSE "",
                  name |-> IF x \in arrived THEN sent[x].name ELSE "", args |-> got[x]]
      BY <1>1, <2>1 DEF Tracks, Held
    <3> HIDE DEF slot
    <3> QED
      BY <3>1
  <2>2. CASE x \notin DOMAIN slots
    <3>1. /\ slot = [id |-> "", name |-> "", args |-> <<>>]
          /\ got[x] = <<>> /\ x \notin arrived /\ x \notin given
      BY <1>1, <2>2 DEF Tracks, Slot
    <3> HIDE DEF slot
    <3> QED
      BY <3>1
  <2> QED
    BY <2>1, <2>2
<1> HIDE DEF slot
<1>4. new = Held(sent, got2, arrived2, given2, x)
  <2>1. Kept(f.id, slot.id) = IF x \in given2 THEN sent[x].id ELSE ""
    <3>1. CASE f.id # ""
      <4>1. x \in given2 /\ f.id = sent[x].id
        BY <1>1, <3>1
      <4> QED
        BY <3>1, <4>1 DEF Kept
    <3>2. CASE f.id = ""
      <4>1. x \in given2 <=> x \in given
        BY <1>1, <3>2
      <4> QED
        BY <1>3, <3>2, <4>1 DEF Kept
    <3> QED
      BY <3>1, <3>2
  <2>2. Kept(f.name, slot.name) = IF x \in arrived2 THEN sent[x].name ELSE ""
    <3>1. CASE f.name # ""
      <4>1. x \in arrived2 /\ f.name = sent[x].name
        BY <1>1, <3>1
      <4> QED
        BY <3>1, <4>1 DEF Kept
    <3>2. CASE f.name = ""
      <4>1. x \in arrived2 <=> x \in arrived
        BY <1>1, <3>2
      <4> QED
        BY <1>3, <3>2, <4>1 DEF Kept
    <3> QED
      BY <3>1, <3>2
  <2>3. slot.args \o f.args = got2[x]
    BY <1>1, <1>3
  <2> QED
    BY <2>1, <2>2, <2>3 DEF Held
<1> HIDE DEF new
<1>5. DOMAIN now \subseteq DOMAIN sent
  BY <1>1, <1>2 DEF Tracks
<1>6. ASSUME NEW i \in DOMAIN sent
      PROVE  /\ i \notin DOMAIN now => got2[i] = <<>> /\ i \notin arrived2 /\ i \notin given2
             /\ i \in DOMAIN now => now[i] = Held(sent, got2, arrived2, given2, i)
  <2>1. CASE i = x
    BY <1>2, <1>4, <2>1
  <2>2. CASE i # x
    <3>1. got2[i] = got[i] /\ (i \in arrived2 <=> i \in arrived) /\ (i \in given2 <=> i \in given)
      BY <2>2
    <3>2. i \in DOMAIN now <=> i \in DOMAIN slots
      BY <1>2, <2>2
    <3>3. i \in DOMAIN slots => now[i] = slots[i]
      BY <1>2, <2>2
    <3>4. Held(sent, got2, arrived2, given2, i) = Held(sent, got, arrived, given, i)
      BY <3>1 DEF Held
    <3> QED
      BY <3>1, <3>2, <3>3, <3>4 DEF Tracks
  <2> QED
    BY <2>1, <2>2
<1> QED
  BY <1>5, <1>6 DEF Tracks, now

LEMMA SlotsAre ==
    ASSUME NEW sent, NEW v
    PROVE  v \in SlotsOf(sent) <=>
             DOMAIN v \subseteq DOMAIN sent /\ v \in [DOMAIN v -> SlotRecords(sent)]
<1> DEFINE R == SlotRecords(sent)
<1> HIDE DEF R
<1>1. v \in UNION {[D -> R] : D \in SUBSET DOMAIN sent} <=>
        DOMAIN v \subseteq DOMAIN sent /\ v \in [DOMAIN v -> R]
  OBVIOUS
<1> QED
  BY <1>1 DEF SlotsOf, R

LEMMA FoldedIsSlots ==
    ASSUME NEW sent, NEW f, IsFragment(sent, f), NEW v \in SlotsOf(sent)
    PROVE  Folded(v, f) \in SlotsOf(sent)
<1> DEFINE R == SlotRecords(sent)
           x == f.index
           slot == IF x \in DOMAIN v THEN v[x] ELSE Slot
           now == Folded(v, f)
           new == [id |-> Kept(f.id, slot.id), name |-> Kept(f.name, slot.name),
                   args |-> slot.args \o f.args]
<1>1. /\ x \in DOMAIN sent /\ f.id \in CallIds(sent) /\ f.name \in CallNames(sent)
      /\ f.args \in PieceTexts
  BY DEF IsFragment, CallNames, CallIds
<1>2. DOMAIN v \subseteq DOMAIN sent /\ v \in [DOMAIN v -> R]
  BY SlotsAre
<1>3. slot \in R
  <2>1. Slot \in R
    <3>1. <<>> \in PieceTexts
      BY DEF PieceTexts
    <3> QED
      BY <3>1 DEF Slot, CallNames, CallIds, SlotRecords
  <2> QED
    BY <1>2, <2>1
<1>4. slot.id \in CallIds(sent) /\ slot.name \in CallNames(sent) /\ slot.args \in PieceTexts
  BY <1>3 DEF SlotRecords
<1> HIDE DEF slot
<1>5. new \in R
  <2>1. Kept(f.id, slot.id) \in CallIds(sent) /\ Kept(f.name, slot.name) \in CallNames(sent)
    BY <1>1, <1>4 DEF Kept
  <2>2. slot.args \o f.args \in PieceTexts
    BY <1>1, <1>4, TextsJoin
  <2> QED
    BY <2>1, <2>2 DEF SlotRecords
<1>6. now = [i \in DOMAIN v \cup {x} |-> IF i = x THEN new ELSE v[i]]
  BY DEF Folded, slot
<1> HIDE DEF new, R, now
<1>7. DOMAIN now \subseteq DOMAIN sent /\ now \in [DOMAIN now -> R]
  <2>1. DOMAIN now = DOMAIN v \cup {x}
    BY <1>6
  <2>2. \A i \in DOMAIN v \cup {x} : (IF i = x THEN new ELSE v[i]) \in R
    BY <1>2, <1>5
  <2> QED
    BY <1>1, <1>2, <1>6, <2>1, <2>2
<1> QED
  BY <1>7, SlotsAre DEF now, R

\* The fragments of a chunk.
AreFragments(sent, calls) ==
    /\ calls \in Seq(ToSet(calls))
    /\ \A f \in ToSet(calls) : f # Odd => IsFragment(sent, f)

\* What is computed from one number to the next, within V, stays as it is defined.
Goes(f, n, V, a) == f[0] = a /\ \A k \in 0 .. n : f[k] \in V

LEMMA FoldUnfolds ==
    ASSUME NEW sent, NEW slots \in SlotsOf(sent), NEW calls, AreFragments(sent, calls)
    PROVE  \E f : /\ Goes(f, Len(calls), SlotsOf(sent), slots)
                  /\ \A k \in 1 .. Len(calls) :
                        f[k] = IF calls[k] = Odd THEN f[k - 1] ELSE Folded(f[k - 1], calls[k])
                  /\ AllFolded(slots, calls) = f[Len(calls)]
<1> DEFINE n == Len(calls)
           V == SlotsOf(sent)
           G(v, k) == IF calls[k] = Odd THEN v ELSE Folded(v, calls[k])
           step == [k \in 1 .. n |-> [v \in V |-> G(v, k)]]
           f == CHOOSE g : g = [k \in 0 .. n |->
                  IF k = 0 THEN slots
                  ELSE IF calls[k] = Odd THEN g[k - 1] ELSE Folded(g[k - 1], calls[k])]
<1>1. n \in Nat /\ \A k \in 1 .. n : calls[k] \in ToSet(calls)
  BY DEF AreFragments, ToSet
<1>2. ASSUME NEW k \in 1 .. n, NEW v \in V
      PROVE  G(v, k) \in V
  <2>1. calls[k] # Odd => IsFragment(sent, calls[k])
    BY <1>1 DEF AreFragments
  <2> HIDE DEF V
  <2>2. calls[k] # Odd => Folded(v, calls[k]) \in V
    BY <2>1, FoldedIsSlots DEF V
  <2> QED
    BY <2>2
<1>3. AllFolded(slots, calls) = f[n]
  BY DEF AllFolded
<1>4. f = CHOOSE g : g = [k \in 0 .. n |-> IF k = 0 THEN slots ELSE G(g[k - 1], k)]
  OBVIOUS
<1> HIDE DEF V, n, f, G
<1>5. /\ step \in [1 .. n -> [V -> V]]
      /\ \A k \in 1 .. n, v \in V : step[k][v] = G(v, k)
  BY <1>2
<1>6. slots \in V
  BY DEF V
<1> HIDE DEF step
<1>7. PICK g : Recurs(g, n, V, slots, step)
  BY <1>1, <1>5, <1>6, ListRecursion
<1>8. g \in [0 .. n -> V] /\ g[0] = slots /\ \A k \in 1 .. n : g[k] = step[k][g[k - 1]]
  BY <1>7 DEF Recurs
<1>9. \A k \in 1 .. n : k - 1 \in 0 .. n /\ g[k] = G(g[k - 1], k)
  <2> TAKE k \in 1 .. n
  <2>1. k - 1 \in 0 .. n
    BY <1>1
  <2>2. g[k - 1] \in V
    BY <1>8, <2>1
  <2> QED
    BY <1>5, <1>8, <2>1, <2>2
<1>10. g = [k \in 0 .. n |-> IF k = 0 THEN slots ELSE G(g[k - 1], k)]
  BY <1>8, <1>9
<1>11. f = [k \in 0 .. n |-> IF k = 0 THEN slots ELSE G(f[k - 1], k)]
  BY <1>4, <1>10
<1>12. f[0] = slots /\ \A k \in 1 .. n : f[k] = G(f[k - 1], k)
  BY <1>1, <1>11
<1> DEFINE S == {k \in 0 .. n : f[k] \in V}
<1>13. 0 .. n \subseteq S
  <2>1. 0 \in S
    BY <1>1, <1>6, <1>12
  <2>2. \A k \in 1 .. n : k - 1 \in S => k \in S
    BY <1>2, <1>12
  <2> HIDE DEF S
  <2> QED
    BY <1>1, <2>1, <2>2, Stepwise
<1>14. Goes(f, n, V, slots)
  BY <1>12, <1>13 DEF Goes
<1> QED
  BY <1>3, <1>12, <1>14 DEF n, V, G

Receives(f, args, calls, i) ==
    /\ Goes(f, Len(calls), PieceTexts, args)
    /\ \A k \in 1 .. Len(calls) :
          f[k] = IF calls[k] = Odd THEN f[k - 1]
                 ELSE IF calls[k].index = i THEN f[k - 1] \o calls[k].args ELSE f[k - 1]
    /\ ReceivedIn(args, calls, i) = f[Len(calls)]

LEMMA ReceivedInUnfolds ==
    ASSUME NEW sent, NEW args \in PieceTexts, NEW calls, AreFragments(sent, calls), NEW i
    PROVE  \E f : Receives(f, args, calls, i)
<1> DEFINE n == Len(calls)
           G(v, k) == IF calls[k] = Odd THEN v
                      ELSE IF calls[k].index = i THEN v \o calls[k].args ELSE v
           step == [k \in 1 .. n |-> [v \in PieceTexts |-> G(v, k)]]
           f == CHOOSE g : g = [k \in 0 .. n |->
                  IF k = 0 THEN args
                  ELSE IF calls[k] = Odd THEN g[k - 1]
                  ELSE IF calls[k].index = i THEN g[k - 1] \o calls[k].args ELSE g[k - 1]]
<1>1. n \in Nat /\ \A k \in 1 .. n : calls[k] \in ToSet(calls)
  BY DEF AreFragments, ToSet
<1>2. ASSUME NEW k \in 1 .. n, NEW v \in PieceTexts
      PROVE  G(v, k) \in PieceTexts
  <2>1. calls[k] # Odd => calls[k].args \in PieceTexts
    BY <1>1 DEF AreFragments, IsFragment
  <2>2. calls[k] # Odd => v \o calls[k].args \in PieceTexts
    BY <2>1, TextsJoin
  <2> QED
    BY <2>2
<1>3. ReceivedIn(args, calls, i) = f[n]
  BY DEF ReceivedIn
<1>4. f = CHOOSE g : g = [k \in 0 .. n |-> IF k = 0 THEN args ELSE G(g[k - 1], k)]
  OBVIOUS
<1> HIDE DEF n, f, G
<1>5. /\ step \in [1 .. n -> [PieceTexts -> PieceTexts]]
      /\ \A k \in 1 .. n, v \in PieceTexts : step[k][v] = G(v, k)
  BY <1>2
<1> HIDE DEF step
<1>6. PICK g : Recurs(g, n, PieceTexts, args, step)
  BY <1>1, <1>5, ListRecursion
<1>7. g \in [0 .. n -> PieceTexts] /\ g[0] = args /\ \A k \in 1 .. n : g[k] = step[k][g[k - 1]]
  BY <1>6 DEF Recurs
<1>8. \A k \in 1 .. n : k - 1 \in 0 .. n /\ g[k] = G(g[k - 1], k)
  <2> TAKE k \in 1 .. n
  <2>1. k - 1 \in 0 .. n
    BY <1>1
  <2>2. g[k - 1] \in PieceTexts
    BY <1>7, <2>1
  <2> QED
    BY <1>5, <1>7, <2>1, <2>2
<1>9. g = [k \in 0 .. n |-> IF k = 0 THEN args ELSE G(g[k - 1], k)]
  BY <1>7, <1>8
<1>10. f = [k \in 0 .. n |-> IF k = 0 THEN args ELSE G(f[k - 1], k)]
  BY <1>4, <1>9
<1>11. f[0] = args /\ \A k \in 1 .. n : f[k] = G(f[k - 1], k)
  BY <1>1, <1>10
<1> DEFINE S == {k \in 0 .. n : f[k] \in PieceTexts}
<1>12. 0 .. n \subseteq S
  <2>1. 0 \in S
    BY <1>1, <1>11
  <2>2. \A k \in 1 .. n : k - 1 \in S => k \in S
    BY <1>2, <1>11
  <2> HIDE DEF S
  <2> QED
    BY <1>1, <2>1, <2>2, Stepwise
<1>13. Goes(f, n, PieceTexts, args)
  BY <1>11, <1>12 DEF Goes
<1>14. Receives(f, args, calls, i)
  BY <1>3, <1>11, <1>13 DEF n, G, Receives
<1> QED
  BY <1>14

\* The calls among the first k fragments that have one of G.
IndexesIn(calls, G, k) == {calls[j].index : j \in {m \in 1 .. k : calls[m] \in G}}

LEMMA IndexesGrow ==
    ASSUME NEW calls, NEW G, NEW n \in Nat
    PROVE  /\ IndexesIn(calls, G, 0) = {}
           /\ \A k \in 1 .. n : \A i : i \in IndexesIn(calls, G, k) <=>
                 i \in IndexesIn(calls, G, k - 1) \/ (calls[k] \in G /\ calls[k].index = i)
<1>1. ASSUME NEW k \in 1 .. n, NEW i
      PROVE  i \in IndexesIn(calls, G, k) <=>
               i \in IndexesIn(calls, G, k - 1) \/ (calls[k] \in G /\ calls[k].index = i)
  <2> DEFINE old == {m \in 1 .. k - 1 : calls[m] \in G}
             all == {m \in 1 .. k : calls[m] \in G}
  <2>1. /\ i \in IndexesIn(calls, G, k) <=> \E j \in all : i = calls[j].index
        /\ i \in IndexesIn(calls, G, k - 1) <=> \E j \in old : i = calls[j].index
    BY DEF IndexesIn
  <2>2. \A j : j \in all <=> j \in old \/ (j = k /\ calls[k] \in G)
    <3>1. \A m : m \in 1 .. k <=> m \in 1 .. k - 1 \/ m = k
      OBVIOUS
    <3> QED
      BY <3>1
  <2> HIDE DEF all, old
  <2> QED
    BY <2>1, <2>2
<1>2. IndexesIn(calls, G, 0) = {}
  <2>1. 1 .. 0 = {}
    OBVIOUS
  <2> QED
    BY <2>1 DEF IndexesIn
<1> QED
  BY <1>1, <1>2

\* N are the fragments with a name, I those with an identifier.
Marks(calls, N, I) ==
    \A f \in ToSet(calls) : /\ f \in N <=> f # Odd /\ f.name # ""
                            /\ f \in I <=> f # Odd /\ f.id # ""

\* One chunk: the slots still hold what was received.
LEMMA ChunkTracks ==
    ASSUME NEW sent, NEW slots \in SlotsOf(sent), NEW calls, AreFragments(sent, calls),
           NEW got, \A i \in DOMAIN sent : got[i] \in PieceTexts, NEW arrived, NEW given,
           Tracks(sent, slots, got, arrived, given), NEW N, NEW I, Marks(calls, N, I)
    PROVE  LET now == [i \in DOMAIN sent |-> ReceivedIn(got[i], calls, i)]
           IN  /\ AllFolded(slots, calls) \in SlotsOf(sent)
               /\ \A i \in DOMAIN sent : now[i] \in PieceTexts
               /\ Tracks(sent, AllFolded(slots, calls), now,
                         arrived \cup IndexesIn(calls, N, Len(calls)),
                         given \cup IndexesIn(calls, I, Len(calls)))
<1> DEFINE n == Len(calls)
           R(i) == CHOOSE r : Receives(r, got[i], calls, i)
           gotBy(k) == [i \in DOMAIN sent |-> R(i)[k]]
           namedBy(k) == arrived \cup IndexesIn(calls, N, k)
           givenBy(k) == given \cup IndexesIn(calls, I, k)
<1>1. /\ n \in Nat /\ n \in 0 .. n /\ 0 \in 0 .. n
      /\ \A k \in 1 .. n : k \in 0 .. n
      /\ \A k \in 1 .. n : calls[k] # Odd => IsFragment(sent, calls[k])
  <2>1. n \in Nat /\ \A k \in 1 .. n : calls[k] \in ToSet(calls)
    BY DEF AreFragments, ToSet
  <2> QED
    BY <2>1 DEF AreFragments
<1>11. \A k \in 1 .. n : /\ calls[k] \in N <=> calls[k] # Odd /\ calls[k].name # ""
                         /\ calls[k] \in I <=> calls[k] # Odd /\ calls[k].id # ""
  <2>1. \A k \in 1 .. n : calls[k] \in ToSet(calls)
    BY DEF AreFragments, ToSet
  <2> HIDE DEF n
  <2> QED
    BY <2>1, Zenon DEF Marks
<1>2. PICK f : /\ Goes(f, n, SlotsOf(sent), slots)
               /\ \A k \in 1 .. n :
                     f[k] = IF calls[k] = Odd THEN f[k - 1] ELSE Folded(f[k - 1], calls[k])
               /\ AllFolded(slots, calls) = f[n]
  BY FoldUnfolds
<1>3. ASSUME NEW i \in DOMAIN sent
      PROVE  Receives(R(i), got[i], calls, i)
  <2>1. got[i] \in PieceTexts
    OBVIOUS
  <2>2. \E r : Receives(r, got[i], calls, i)
    BY <2>1, ReceivedInUnfolds
  <2> QED
    BY <2>2
<1> HIDE DEF R
<1>4. /\ gotBy(0) = [i \in DOMAIN sent |-> got[i]]
      /\ \A k \in 0 .. n, i \in DOMAIN sent : gotBy(k)[i] \in PieceTexts
      /\ \A k \in 1 .. n, i \in DOMAIN sent :
            gotBy(k)[i] = IF calls[k] = Odd THEN gotBy(k - 1)[i]
                          ELSE IF calls[k].index = i THEN gotBy(k - 1)[i] \o calls[k].args
                          ELSE gotBy(k - 1)[i]
      /\ gotBy(n) = [i \in DOMAIN sent |-> ReceivedIn(got[i], calls, i)]
  <2>1. \A i \in DOMAIN sent : R(i)[0] = got[i] /\ \A k \in 0 .. n : R(i)[k] \in PieceTexts
    BY <1>3 DEF Receives, Goes
  <2>2. ASSUME NEW k \in 1 .. n, NEW i \in DOMAIN sent
        PROVE  R(i)[k] = IF calls[k] = Odd THEN R(i)[k - 1]
                         ELSE IF calls[k].index = i THEN R(i)[k - 1] \o calls[k].args
                         ELSE R(i)[k - 1]
    BY <1>3 DEF Receives
  <2>3. \A i \in DOMAIN sent : ReceivedIn(got[i], calls, i) = R(i)[n]
    BY <1>3 DEF Receives
  <2> QED
    BY <2>1, <2>2, <2>3
<1> HIDE DEF gotBy
<1>5. /\ \A i : (i \in namedBy(0) <=> i \in arrived) /\ (i \in givenBy(0) <=> i \in given)
      /\ \A k \in 1 .. n : \A i :
            /\ i \in namedBy(k) <=>
                 i \in namedBy(k - 1) \/ (calls[k] \in N /\ calls[k].index = i)
            /\ i \in givenBy(k) <=>
                 i \in givenBy(k - 1) \/ (calls[k] \in I /\ calls[k].index = i)
  <2>1. /\ IndexesIn(calls, N, 0) = {}
        /\ \A k \in 1 .. n : \A i : i \in IndexesIn(calls, N, k) <=>
              i \in IndexesIn(calls, N, k - 1) \/ (calls[k] \in N /\ calls[k].index = i)
    BY <1>1, IndexesGrow
  <2>2. /\ IndexesIn(calls, I, 0) = {}
        /\ \A k \in 1 .. n : \A i : i \in IndexesIn(calls, I, k) <=>
              i \in IndexesIn(calls, I, k - 1) \/ (calls[k] \in I /\ calls[k].index = i)
    BY <1>1, IndexesGrow
  <2> HIDE DEF n
  <2> QED
    BY <2>1, <2>2
<1> HIDE DEF namedBy, givenBy, n
<1> DEFINE S == {k \in 0 .. n : Tracks(sent, f[k], gotBy(k), namedBy(k), givenBy(k))}
<1>6. 0 \in S
  <2>1. f[0] = slots /\ 0 \in 0 .. n
    BY <1>1, <1>2 DEF Goes
  <2>2. Tracks(sent, slots, gotBy(0), namedBy(0), givenBy(0))
    <3>1. \A i \in DOMAIN sent : /\ gotBy(0)[i] = got[i]
                                 /\ (i \in namedBy(0) <=> i \in arrived)
                                 /\ (i \in givenBy(0) <=> i \in given)
      BY <1>4, <1>5
    <3> QED
      BY <3>1 DEF Tracks, Held
  <2> QED
    BY <2>1, <2>2
<1>7. ASSUME NEW k \in 1 .. n, k - 1 \in S
      PROVE  k \in S
  <2>1. k \in 0 .. n /\ Tracks(sent, f[k - 1], gotBy(k - 1), namedBy(k - 1), givenBy(k - 1))
    BY <1>1, <1>7
  <2>2. CASE calls[k] = Odd
    <3>1. f[k] = f[k - 1]
      BY <1>2, <2>2
    <3>2. \A i \in DOMAIN sent : gotBy(k)[i] = gotBy(k - 1)[i]
      BY <1>4, <2>2
    <3>3. \A i : /\ i \in namedBy(k) <=> i \in namedBy(k - 1)
                 /\ i \in givenBy(k) <=> i \in givenBy(k - 1)
      BY <1>5, <1>11, <2>2
    <3>4. Tracks(sent, f[k], gotBy(k), namedBy(k), givenBy(k))
      BY <2>1, <3>1, <3>2, <3>3 DEF Tracks, Held
    <3> QED
      BY <2>1, <3>4
  <2>3. CASE calls[k] # Odd
    <3>1. f[k] = Folded(f[k - 1], calls[k]) /\ IsFragment(sent, calls[k])
      BY <1>1, <1>2, <2>3
    <3>2. \A i \in DOMAIN sent :
            gotBy(k)[i] = IF calls[k].index = i THEN gotBy(k - 1)[i] \o calls[k].args
                          ELSE gotBy(k - 1)[i]
      BY <1>4, <2>3
    <3>3. \A i \in DOMAIN sent : i \in namedBy(k) <=>
            i \in namedBy(k - 1) \/ (calls[k].name # "" /\ calls[k].index = i)
      BY <1>5, <1>11, <2>3
    <3>5. \A i \in DOMAIN sent : i \in givenBy(k) <=>
            i \in givenBy(k - 1) \/ (calls[k].id # "" /\ calls[k].index = i)
      BY <1>5, <1>11, <2>3
    <3>4. Tracks(sent, f[k], gotBy(k), namedBy(k), givenBy(k))
      <4> DEFINE old == f[k - 1]
                 oldGot == gotBy(k - 1)
                 oldNamed == namedBy(k - 1)
                 oldGiven == givenBy(k - 1)
                 call == calls[k]
                 newGot == gotBy(k)
                 newNamed == namedBy(k)
                 newGiven == givenBy(k)
      <4>1. Tracks(sent, old, oldGot, oldNamed, oldGiven) /\ IsFragment(sent, call)
        BY <2>1, <3>1
      <4>2. \A i \in DOMAIN sent :
              newGot[i] = IF call.index = i THEN oldGot[i] \o call.args ELSE oldGot[i]
        BY <3>2
      <4>3. \A i \in DOMAIN sent :
              i \in newNamed <=> i \in oldNamed \/ (call.name # "" /\ call.index = i)
        BY <3>3
      <4>4. \A i \in DOMAIN sent :
              i \in newGiven <=> i \in oldGiven \/ (call.id # "" /\ call.index = i)
        BY <3>5
      <4> HIDE DEF old, oldGot, oldNamed, oldGiven, call, newGot, newNamed, newGiven
      <4>5. Tracks(sent, Folded(old, call), newGot, newNamed, newGiven)
        BY <4>1, <4>2, <4>3, <4>4, FragmentTracks
      <4> QED
        BY <3>1, <4>5 DEF old, call, newGot, newNamed, newGiven
    <3> QED
      BY <2>1, <3>4
  <2> QED
    BY <2>2, <2>3
<1>8. Tracks(sent, f[n], gotBy(n), namedBy(n), givenBy(n))
  <2>1. 0 .. n \subseteq S
    <3> HIDE DEF S
    <3> QED
      BY <1>1, <1>6, <1>7, Stepwise
  <2> QED
    BY <1>1, <2>1
<1>9. f[n] \in SlotsOf(sent)
  BY <1>1, <1>2 DEF Goes
<1>10. \A i \in DOMAIN sent : ReceivedIn(got[i], calls, i) \in PieceTexts
  BY <1>1, <1>4
<1> QED
  BY <1>2, <1>4, <1>8, <1>9, <1>10 DEF n, namedBy, givenBy

\* The chunks of a stream.
IsChunk(sent, c) == c.text \in PieceTexts /\ AreFragments(sent, c.calls)

LEMMA StreamIs ==
    ASSUME NEW sent, NEW chunks, IsStream(sent, chunks)
    PROVE  /\ Len(chunks) \in Nat /\ DOMAIN chunks = 1 .. Len(chunks)
           /\ \A k \in 1 .. Len(chunks) : chunks[k] # Odd => IsChunk(sent, chunks[k])
<1>1. chunks \in Seq(ToSet(chunks))
  BY DEF IsStream
<1>2. /\ Len(chunks) \in Nat /\ DOMAIN chunks = 1 .. Len(chunks)
      /\ \A k \in 1 .. Len(chunks) : chunks[k] \in ToSet(chunks)
  BY <1>1 DEF ToSet
<1>3. ASSUME NEW c \in ToSet(chunks), c # Odd
      PROVE  IsChunk(sent, c)
  <2>1. /\ c.text \in Seq(Pieces) /\ c.calls \in Seq(ToSet(c.calls))
        /\ \A f \in ToSet(c.calls) : f # Odd =>
             /\ f.index \in DOMAIN sent /\ f.id \in {"", sent[f.index].id}
             /\ f.name \in {"", sent[f.index].name} /\ f.args \in Seq(Pieces)
    BY <1>3 DEF IsStream
  <2> QED
    BY <2>1 DEF IsChunk, AreFragments, IsFragment, PieceTexts
<1> QED
  BY <1>2, <1>3

LEMMA FoldsToSlots ==
    ASSUME NEW sent, NEW slots \in SlotsOf(sent), NEW calls, AreFragments(sent, calls)
    PROVE  AllFolded(slots, calls) \in SlotsOf(sent)
<1>1. PICK f : Goes(f, Len(calls), SlotsOf(sent), slots) /\ AllFolded(slots, calls) = f[Len(calls)]
  BY FoldUnfolds
<1>2. Len(calls) \in 0 .. Len(calls)
  BY DEF AreFragments
<1> QED
  BY <1>1, <1>2 DEF Goes

LEMMA ReceivesTexts ==
    ASSUME NEW sent, NEW args \in PieceTexts, NEW calls, AreFragments(sent, calls), NEW i
    PROVE  ReceivedIn(args, calls, i) \in PieceTexts
<1>1. PICK f : Receives(f, args, calls, i)
  BY ReceivedInUnfolds
<1>2. Len(calls) \in 0 .. Len(calls)
  BY DEF AreFragments
<1> QED
  BY <1>1, <1>2 DEF Receives, Goes

Accums(sent) == [content : PieceTexts, slots : SlotsOf(sent)]
Adds(f, sent, chunks) ==
    /\ Goes(f, Len(chunks), Accums(sent), EmptyAccum)
    /\ \A k \in 1 .. Len(chunks) : f[k] = Add(f[k - 1], chunks[k])
    /\ Streamed(chunks) = Response(f[Len(chunks)])

LEMMA AddUnfolds ==
    ASSUME NEW sent, NEW chunks, IsStream(sent, chunks)
    PROVE  \E f : Adds(f, sent, chunks)
<1> DEFINE n == Len(chunks)
           V == Accums(sent)
           G(v, k) == Add(v, chunks[k])
           step == [k \in 1 .. n |-> [v \in V |-> G(v, k)]]
           f == CHOOSE g : g = [k \in 0 .. n |->
                  IF k = 0 THEN EmptyAccum
                  ELSE Add(g[k - 1], chunks[k])]
<1>1. n \in Nat /\ \A k \in 1 .. n : chunks[k] # Odd => IsChunk(sent, chunks[k])
  BY StreamIs
<1>2. ASSUME NEW k \in 1 .. n, NEW v \in V
      PROVE  G(v, k) \in V
  <2> DEFINE c == chunks[k]
  <2>1. CASE c = Odd
    BY <2>1 DEF Add
  <2>2. CASE c # Odd
    <3>1. c.text \in PieceTexts /\ AreFragments(sent, c.calls)
      BY <1>1, <2>2 DEF IsChunk
    <3>2. v.content \in PieceTexts /\ v.slots \in SlotsOf(sent)
      BY DEF Accums
    <3> HIDE DEF c
    <3>3. v.content \o c.text \in PieceTexts /\ AllFolded(v.slots, c.calls) \in SlotsOf(sent)
      BY <3>1, <3>2, TextsJoin, FoldsToSlots
    <3> QED
      BY <2>2, <3>3 DEF Add, Accums, c
  <2> QED
    BY <2>1, <2>2
<1>3. Streamed(chunks) = Response(f[n])
  BY DEF Streamed
<1>4. f = CHOOSE g : g = [k \in 0 .. n |-> IF k = 0 THEN EmptyAccum ELSE G(g[k - 1], k)]
  OBVIOUS
<1>5. EmptyAccum \in V
  <2>1. EmptyAccum.slots = [i \in {} |-> Slot] /\ EmptyAccum = [content |-> <<>>, slots |-> EmptyAccum.slots]
    BY DEF EmptyAccum
  <2>2. EmptyAccum.slots \in SlotsOf(sent)
    <3> DEFINE none == [i \in {} |-> Slot]
               R == SlotRecords(sent)
    <3>1. DOMAIN none \subseteq DOMAIN sent /\ none \in [DOMAIN none -> R]
      OBVIOUS
    <3> HIDE DEF none
    <3>2. none \in SlotsOf(sent)
      BY <3>1, SlotsAre
    <3> QED
      BY <2>1, <3>2 DEF none
  <2>3. <<>> \in PieceTexts
    BY DEF PieceTexts
  <2> HIDE DEF V
  <2>4. [content |-> <<>>, slots |-> EmptyAccum.slots] \in Accums(sent)
    BY <2>2, <2>3 DEF Accums
  <2> QED
    BY <2>1, <2>4 DEF V
<1> HIDE DEF n, f, G, V
<1>6. /\ step \in [1 .. n -> [V -> V]]
      /\ \A k \in 1 .. n, v \in V : step[k][v] = G(v, k)
  BY <1>2
<1> HIDE DEF step
<1>7. PICK g : Recurs(g, n, V, EmptyAccum, step)
  BY <1>1, <1>5, <1>6, ListRecursion
<1>8. g \in [0 .. n -> V] /\ g[0] = EmptyAccum /\ \A k \in 1 .. n : g[k] = step[k][g[k - 1]]
  BY <1>7 DEF Recurs
<1>9. \A k \in 1 .. n : k - 1 \in 0 .. n /\ g[k] = G(g[k - 1], k)
  <2> TAKE k \in 1 .. n
  <2>1. k - 1 \in 0 .. n
    BY <1>1
  <2>2. g[k - 1] \in V
    BY <1>8, <2>1
  <2> QED
    BY <1>6, <1>8, <2>1, <2>2
<1>10. g = [k \in 0 .. n |-> IF k = 0 THEN EmptyAccum ELSE G(g[k - 1], k)]
  BY <1>8, <1>9
<1>11. f = [k \in 0 .. n |-> IF k = 0 THEN EmptyAccum ELSE G(f[k - 1], k)]
  BY <1>4, <1>10
<1>12. f[0] = EmptyAccum /\ \A k \in 1 .. n : f[k] = G(f[k - 1], k)
  BY <1>1, <1>11
<1> DEFINE S == {k \in 0 .. n : f[k] \in V}
<1>13. 0 .. n \subseteq S
  <2>1. 0 \in S
    BY <1>1, <1>5, <1>12
  <2>2. \A k \in 1 .. n : k - 1 \in S => k \in S
    BY <1>2, <1>12
  <2> HIDE DEF S
  <2> QED
    BY <1>1, <2>1, <2>2, Stepwise
<1>14. Goes(f, n, V, EmptyAccum)
  BY <1>12, <1>13 DEF Goes
<1>15. Adds(f, sent, chunks)
  BY <1>3, <1>12, <1>14 DEF n, G, V, Adds
<1> QED
  BY <1>15

Tells(f, chunks) ==
    /\ Goes(f, Len(chunks), PieceTexts, <<>>)
    /\ \A k \in 1 .. Len(chunks) :
          f[k] = IF chunks[k] = Odd THEN f[k - 1] ELSE f[k - 1] \o Delta(chunks[k])
    /\ TextOf(chunks) = f[Len(chunks)]

LEMMA TextUnfolds ==
    ASSUME NEW sent, NEW chunks, IsStream(sent, chunks)
    PROVE  \E f : Tells(f, chunks)
<1> DEFINE n == Len(chunks)
           V == PieceTexts
           G(v, k) == IF chunks[k] = Odd THEN v ELSE v \o Delta(chunks[k])
           step == [k \in 1 .. n |-> [v \in V |-> G(v, k)]]
           f == CHOOSE g : g = [k \in 0 .. n |->
                  IF k = 0 THEN <<>>
                  ELSE IF chunks[k] = Odd THEN g[k - 1] ELSE g[k - 1] \o Delta(chunks[k])]
<1>1. n \in Nat /\ \A k \in 1 .. n : chunks[k] # Odd => IsChunk(sent, chunks[k])
  BY StreamIs
<1>2. ASSUME NEW k \in 1 .. n, NEW v \in V
      PROVE  G(v, k) \in V
  <2>1. CASE chunks[k] = Odd
    BY <2>1
  <2>2. CASE chunks[k] # Odd
    <3>1. Delta(chunks[k]) \in PieceTexts
      BY <1>1, <2>2 DEF IsChunk, Delta
    <3> QED
      BY <2>2, <3>1, TextsJoin
  <2> QED
    BY <2>1, <2>2
<1>3. TextOf(chunks) = f[n]
  BY DEF TextOf
<1>4. f = CHOOSE g : g = [k \in 0 .. n |-> IF k = 0 THEN <<>> ELSE G(g[k - 1], k)]
  OBVIOUS
<1>5. <<>> \in V
  BY DEF PieceTexts
<1> HIDE DEF n, f, G, V
<1>6. /\ step \in [1 .. n -> [V -> V]]
      /\ \A k \in 1 .. n, v \in V : step[k][v] = G(v, k)
  BY <1>2
<1> HIDE DEF step
<1>7. PICK g : Recurs(g, n, V, <<>>, step)
  BY <1>1, <1>5, <1>6, ListRecursion
<1>8. g \in [0 .. n -> V] /\ g[0] = <<>> /\ \A k \in 1 .. n : g[k] = step[k][g[k - 1]]
  BY <1>7 DEF Recurs
<1>9. \A k \in 1 .. n : k - 1 \in 0 .. n /\ g[k] = G(g[k - 1], k)
  <2> TAKE k \in 1 .. n
  <2>1. k - 1 \in 0 .. n
    BY <1>1
  <2>2. g[k - 1] \in V
    BY <1>8, <2>1
  <2> QED
    BY <1>6, <1>8, <2>1, <2>2
<1>10. g = [k \in 0 .. n |-> IF k = 0 THEN <<>> ELSE G(g[k - 1], k)]
  BY <1>8, <1>9
<1>11. f = [k \in 0 .. n |-> IF k = 0 THEN <<>> ELSE G(f[k - 1], k)]
  BY <1>4, <1>10
<1>12. f[0] = <<>> /\ \A k \in 1 .. n : f[k] = G(f[k - 1], k)
  BY <1>1, <1>11
<1> DEFINE S == {k \in 0 .. n : f[k] \in V}
<1>13. 0 .. n \subseteq S
  <2>1. 0 \in S
    BY <1>1, <1>5, <1>12
  <2>2. \A k \in 1 .. n : k - 1 \in S => k \in S
    BY <1>2, <1>12
  <2> HIDE DEF S
  <2> QED
    BY <1>1, <2>1, <2>2, Stepwise
<1>14. Goes(f, n, V, <<>>)
  BY <1>12, <1>13 DEF Goes
<1>15. Tells(f, chunks)
  BY <1>3, <1>12, <1>14 DEF n, G, V, Tells
<1> QED
  BY <1>15

ReceivesAll(f, chunks, i) ==
    /\ Goes(f, Len(chunks), PieceTexts, <<>>)
    /\ \A k \in 1 .. Len(chunks) :
          f[k] = IF chunks[k] = Odd THEN f[k - 1] ELSE ReceivedIn(f[k - 1], chunks[k].calls, i)
    /\ Received(chunks, i) = f[Len(chunks)]

LEMMA ReceivedUnfolds ==
    ASSUME NEW sent, NEW chunks, IsStream(sent, chunks), NEW i
    PROVE  \E f : ReceivesAll(f, chunks, i)
<1> DEFINE n == Len(chunks)
           V == PieceTexts
           G(v, k) == IF chunks[k] = Odd THEN v ELSE ReceivedIn(v, chunks[k].calls, i)
           step == [k \in 1 .. n |-> [v \in V |-> G(v, k)]]
           f == CHOOSE g : g = [k \in 0 .. n |->
                  IF k = 0 THEN <<>>
                  ELSE IF chunks[k] = Odd THEN g[k - 1] ELSE ReceivedIn(g[k - 1], chunks[k].calls, i)]
<1>1. n \in Nat /\ \A k \in 1 .. n : chunks[k] # Odd => IsChunk(sent, chunks[k])
  BY StreamIs
<1>2. ASSUME NEW k \in 1 .. n, NEW v \in V
      PROVE  G(v, k) \in V
  <2>1. CASE chunks[k] = Odd
    BY <2>1
  <2>2. CASE chunks[k] # Odd
    <3>1. AreFragments(sent, chunks[k].calls)
      BY <1>1, <2>2 DEF IsChunk
    <3>2. ReceivedIn(v, chunks[k].calls, i) \in PieceTexts
      BY <3>1, ReceivesTexts
    <3> QED
      BY <2>2, <3>2
  <2> QED
    BY <2>1, <2>2
<1>3. Received(chunks, i) = f[n]
  BY DEF Received
<1>4. f = CHOOSE g : g = [k \in 0 .. n |-> IF k = 0 THEN <<>> ELSE G(g[k - 1], k)]
  OBVIOUS
<1>5. <<>> \in V
  BY DEF PieceTexts
<1> HIDE DEF n, f, G, V
<1>6. /\ step \in [1 .. n -> [V -> V]]
      /\ \A k \in 1 .. n, v \in V : step[k][v] = G(v, k)
  BY <1>2
<1> HIDE DEF step
<1>7. PICK g : Recurs(g, n, V, <<>>, step)
  BY <1>1, <1>5, <1>6, ListRecursion
<1>8. g \in [0 .. n -> V] /\ g[0] = <<>> /\ \A k \in 1 .. n : g[k] = step[k][g[k - 1]]
  BY <1>7 DEF Recurs
<1>9. \A k \in 1 .. n : k - 1 \in 0 .. n /\ g[k] = G(g[k - 1], k)
  <2> TAKE k \in 1 .. n
  <2>1. k - 1 \in 0 .. n
    BY <1>1
  <2>2. g[k - 1] \in V
    BY <1>8, <2>1
  <2> QED
    BY <1>6, <1>8, <2>1, <2>2
<1>10. g = [k \in 0 .. n |-> IF k = 0 THEN <<>> ELSE G(g[k - 1], k)]
  BY <1>8, <1>9
<1>11. f = [k \in 0 .. n |-> IF k = 0 THEN <<>> ELSE G(f[k - 1], k)]
  BY <1>4, <1>10
<1>12. f[0] = <<>> /\ \A k \in 1 .. n : f[k] = G(f[k - 1], k)
  BY <1>1, <1>11
<1> DEFINE S == {k \in 0 .. n : f[k] \in V}
<1>13. 0 .. n \subseteq S
  <2>1. 0 \in S
    BY <1>1, <1>5, <1>12
  <2>2. \A k \in 1 .. n : k - 1 \in S => k \in S
    BY <1>2, <1>12
  <2> HIDE DEF S
  <2> QED
    BY <1>1, <2>1, <2>2, Stepwise
<1>14. Goes(f, n, V, <<>>)
  BY <1>12, <1>13 DEF Goes
<1>15. ReceivesAll(f, chunks, i)
  BY <1>3, <1>12, <1>14 DEF n, G, V, ReceivesAll
<1> QED
  BY <1>15

\* The fragments of a stream, those with a name and those with an identifier;
\* and the calls among its first k chunks that have a fragment in G.
FragmentsOf(chunks) == (UNION {ToSet(c.calls) : c \in ToSet(chunks) \ {Odd}}) \ {Odd}
NamedOf(chunks) == {f \in FragmentsOf(chunks) : f.name # ""}
IdentifiedOf(chunks) == {f \in FragmentsOf(chunks) : f.id # ""}
ArrivedBy(sent, chunks, G, k) ==
    {i \in DOMAIN sent :
        \E j \in 1 .. k : chunks[j] # Odd
                          /\ i \in IndexesIn(chunks[j].calls, G, Len(chunks[j].calls))}

LEMMA ArrivedGrows ==
    ASSUME NEW sent, NEW chunks, NEW G, NEW n \in Nat
    PROVE  /\ \A i : i \notin ArrivedBy(sent, chunks, G, 0)
           /\ \A k \in 1 .. n : \A i \in DOMAIN sent : i \in ArrivedBy(sent, chunks, G, k) <=>
                 \/ i \in ArrivedBy(sent, chunks, G, k - 1)
                 \/ chunks[k] # Odd
                    /\ i \in IndexesIn(chunks[k].calls, G, Len(chunks[k].calls))
<1> DEFINE by(k) == ArrivedBy(sent, chunks, G, k)
           Has(j, i) == chunks[j] # Odd
                        /\ i \in IndexesIn(chunks[j].calls, G, Len(chunks[j].calls))
<1>1. 1 .. 0 = {}
  OBVIOUS
<1>2. \A k \in 1 .. n : \A j : j \in 1 .. k <=> j \in 1 .. k - 1 \/ j = k
  OBVIOUS
<1>3. \A k, i : i \in by(k) <=> i \in DOMAIN sent /\ \E j \in 1 .. k : Has(j, i)
  BY DEF ArrivedBy
<1> HIDE DEF by, Has
<1>4. \A i : i \notin by(0)
  BY <1>1, <1>3
<1>5. \A k \in 1 .. n : \A i \in DOMAIN sent : i \in by(k) <=> i \in by(k - 1) \/ Has(k, i)
  BY <1>2, <1>3
<1> QED
  BY <1>4, <1>5, Zenon DEF by, Has

\* The fragments of a chunk are among those of the stream.
LEMMA ChunkMarks ==
    ASSUME NEW sent, NEW chunks, IsStream(sent, chunks), NEW k \in 1 .. Len(chunks),
           chunks[k] # Odd
    PROVE  Marks(chunks[k].calls, NamedOf(chunks), IdentifiedOf(chunks))
<1> DEFINE c == chunks[k]
<1>1. c \in ToSet(chunks) \ {Odd}
  BY StreamIs DEF ToSet
<1> HIDE DEF c
<1>2. \A f \in ToSet(c.calls) : f \in FragmentsOf(chunks) <=> f # Odd
  BY <1>1 DEF FragmentsOf
<1> QED
  BY <1>2 DEF Marks, NamedOf, IdentifiedOf, c

\* The whole stream: the text is told, and the slots hold what was received.
LEMMA StreamTracks ==
    ASSUME NEW sent, NEW chunks, IsStream(sent, chunks)
    PROVE  \E accum : /\ Streamed(chunks) = Response(accum)
                      /\ accum \in Accums(sent) /\ accum.content = TextOf(chunks)
                      /\ Tracks(sent, accum.slots, [i \in DOMAIN sent |-> Received(chunks, i)],
                                ArrivedBy(sent, chunks, NamedOf(chunks), Len(chunks)),
                                ArrivedBy(sent, chunks, IdentifiedOf(chunks), Len(chunks)))
<1> DEFINE n == Len(chunks)
           R(i) == CHOOSE r : ReceivesAll(r, chunks, i)
           gotBy(k) == [i \in DOMAIN sent |-> R(i)[k]]
           N == NamedOf(chunks)
           I == IdentifiedOf(chunks)
           namedBy(k) == ArrivedBy(sent, chunks, N, k)
           givenBy(k) == ArrivedBy(sent, chunks, I, k)
<1>1. n \in Nat /\ n \in 0 .. n /\ \A k \in 1 .. n : chunks[k] # Odd => IsChunk(sent, chunks[k])
  BY StreamIs
<1>2. PICK f : Adds(f, sent, chunks)
  BY AddUnfolds
<1>3. PICK t : Tells(t, chunks)
  BY TextUnfolds
<1>4. \A i : ReceivesAll(R(i), chunks, i)
  BY ReceivedUnfolds
<1> HIDE DEF R
<1>5. /\ \A i \in DOMAIN sent : gotBy(0)[i] = <<>>
      /\ \A k \in 0 .. n : \A i \in DOMAIN sent : gotBy(k)[i] \in PieceTexts
      /\ \A k \in 1 .. n : \A i \in DOMAIN sent :
            gotBy(k)[i] = IF chunks[k] = Odd THEN gotBy(k - 1)[i]
                          ELSE ReceivedIn(gotBy(k - 1)[i], chunks[k].calls, i)
      /\ gotBy(n) = [i \in DOMAIN sent |-> Received(chunks, i)]
  <2>1. \A i : R(i)[0] = <<>> /\ \A k \in 0 .. n : R(i)[k] \in PieceTexts
    BY <1>4 DEF ReceivesAll, Goes
  <2>2. ASSUME NEW k \in 1 .. n, NEW i
        PROVE  R(i)[k] = IF chunks[k] = Odd THEN R(i)[k - 1]
                         ELSE ReceivedIn(R(i)[k - 1], chunks[k].calls, i)
    BY <1>4 DEF ReceivesAll
  <2>3. \A i : Received(chunks, i) = R(i)[n]
    BY <1>4 DEF ReceivesAll
  <2> QED
    BY <2>1, <2>2, <2>3
<1> HIDE DEF gotBy
<1> HIDE DEF N, I
<1>6. /\ \A i : i \notin namedBy(0) /\ i \notin givenBy(0)
      /\ \A k \in 1 .. n : \A i \in DOMAIN sent :
            /\ i \in namedBy(k) <=>
                  \/ i \in namedBy(k - 1)
                  \/ chunks[k] # Odd /\ i \in IndexesIn(chunks[k].calls, N, Len(chunks[k].calls))
            /\ i \in givenBy(k) <=>
                  \/ i \in givenBy(k - 1)
                  \/ chunks[k] # Odd /\ i \in IndexesIn(chunks[k].calls, I, Len(chunks[k].calls))
  BY <1>1, ArrivedGrows
<1>13. \A k \in 1 .. n : chunks[k] # Odd => Marks(chunks[k].calls, N, I)
  BY ChunkMarks DEF N, I
<1>7. /\ f[0] = EmptyAccum /\ \A k \in 0 .. n : f[k] \in Accums(sent)
      /\ \A k \in 1 .. n : f[k] = Add(f[k - 1], chunks[k])
      /\ Streamed(chunks) = Response(f[n])
  BY <1>2 DEF Adds, Goes
<1>8. /\ t[0] = <<>>
      /\ \A k \in 1 .. n :
            t[k] = IF chunks[k] = Odd THEN t[k - 1] ELSE t[k - 1] \o chunks[k].text
      /\ TextOf(chunks) = t[n]
  BY <1>3 DEF Tells, Goes, Delta
<1> HIDE DEF namedBy, givenBy, n
<1> DEFINE Fits(k) == /\ f[k].content = t[k]
                      /\ Tracks(sent, f[k].slots, gotBy(k), namedBy(k), givenBy(k))
           S == {k \in 0 .. n : Fits(k)}
<1>9. 0 \in S
  <2>1. /\ f[0].content = <<>> /\ f[0].slots = [i \in {} |-> Slot]
    BY <1>7 DEF EmptyAccum
  <2>2. DOMAIN f[0].slots = {}
    BY <2>1
  <2>3. Tracks(sent, f[0].slots, gotBy(0), namedBy(0), givenBy(0))
    BY <1>5, <1>6, <2>2 DEF Tracks, Held
  <2>4. Fits(0) /\ 0 \in 0 .. n
    BY <1>1, <1>8, <2>1, <2>3
  <2> HIDE DEF Fits
  <2> QED
    BY <2>4
<1>10. ASSUME NEW k \in 1 .. n, k - 1 \in S
       PROVE  k \in S
  <2> DEFINE old == f[k - 1]
             c == chunks[k]
             oldGot == gotBy(k - 1)
             oldNamed == namedBy(k - 1)
             oldGiven == givenBy(k - 1)
  <2>1. k \in 0 .. n /\ k - 1 \in 0 .. n
    BY <1>1
  <2>2. /\ old.content = t[k - 1] /\ Tracks(sent, old.slots, oldGot, oldNamed, oldGiven)
        /\ old \in Accums(sent) /\ \A i \in DOMAIN sent : oldGot[i] \in PieceTexts
    BY <1>5, <1>7, <1>10, <2>1
  <2>3. CASE c = Odd
    <3>1. f[k] = old
      BY <1>7, <2>3 DEF Add
    <3>2. t[k] = t[k - 1]
      BY <1>8, <2>3
    <3>3. \A i \in DOMAIN sent : /\ gotBy(k)[i] = oldGot[i]
                                 /\ i \in namedBy(k) <=> i \in oldNamed
                                 /\ i \in givenBy(k) <=> i \in oldGiven
      BY <1>5, <1>6, <2>3
    <3> HIDE DEF old, oldGot, oldNamed, oldGiven
    <3>4. Tracks(sent, old.slots, gotBy(k), namedBy(k), givenBy(k))
      BY <2>2, <3>3 DEF Tracks, Held
    <3>5. Fits(k)
      BY <2>2, <3>1, <3>2, <3>4
    <3> HIDE DEF Fits
    <3> QED
      BY <2>1, <3>5
  <2>4. CASE c # Odd
    <3> DEFINE nowGot == [i \in DOMAIN sent |-> ReceivedIn(oldGot[i], c.calls, i)]
               nowNamed == oldNamed \cup IndexesIn(c.calls, N, Len(c.calls))
               nowGiven == oldGiven \cup IndexesIn(c.calls, I, Len(c.calls))
               nowSlots == AllFolded(old.slots, c.calls)
    <3>1. AreFragments(sent, c.calls) /\ Marks(c.calls, N, I)
      BY <1>1, <1>13, <2>4 DEF IsChunk
    <3>2. f[k].content = old.content \o c.text /\ f[k].slots = nowSlots
      <4> DEFINE text == old.content \o c.text
                 now == f[k]
      <4>1. now = [content |-> text, slots |-> nowSlots]
        BY <1>7, <2>4 DEF Add
      <4> HIDE DEF nowSlots, text, now
      <4>2. now.content = text /\ now.slots = nowSlots
        BY <4>1
      <4> QED
        BY <4>2 DEF text, now
    <3>3. t[k] = t[k - 1] \o c.text
      BY <1>8, <2>4
    <3>4. \A i \in DOMAIN sent : /\ gotBy(k)[i] = nowGot[i]
                                 /\ i \in namedBy(k) <=> i \in nowNamed
                                 /\ i \in givenBy(k) <=> i \in nowGiven
      BY <1>5, <1>6, <2>4
    <3>5. old.slots \in SlotsOf(sent)
      BY <2>2 DEF Accums
    <3> HIDE DEF old, oldGot, oldNamed, oldGiven, c
    <3>6. Tracks(sent, nowSlots, nowGot, nowNamed, nowGiven)
      BY <2>2, <3>1, <3>5, ChunkTracks
    <3> HIDE DEF nowGot, nowNamed, nowGiven, nowSlots
    <3>7. Tracks(sent, nowSlots, gotBy(k), namedBy(k), givenBy(k))
      BY <3>4, <3>6 DEF Tracks, Held
    <3>8. Fits(k)
      BY <2>2, <3>2, <3>3, <3>7
    <3> HIDE DEF Fits
    <3> QED
      BY <2>1, <3>8
  <2> QED
    BY <2>3, <2>4
<1>11. Fits(n)
  <2>1. 0 .. n \subseteq S
    <3> HIDE DEF S
    <3> QED
      BY <1>1, <1>9, <1>10, Stepwise
  <2> QED
    BY <1>1, <2>1
<1> DEFINE last == f[n]
<1>12. /\ Streamed(chunks) = Response(last) /\ last \in Accums(sent)
       /\ last.content = TextOf(chunks)
       /\ Tracks(sent, last.slots, [i \in DOMAIN sent |-> Received(chunks, i)], namedBy(n), givenBy(n))
  BY <1>1, <1>5, <1>7, <1>8, <1>11
<1> HIDE DEF last
<1> QED
  BY <1>12 DEF n, namedBy, givenBy, N, I

\* Numbers in their order.
LEMMA IncreasingSorts ==
    ASSUME NEW S, IsFiniteSet(S), S \subseteq Int
    PROVE  /\ Cardinality(S) \in Nat
           /\ Increasing(S) \in [1 .. Cardinality(S) -> S]
           /\ \A i, j \in 1 .. Cardinality(S) : i < j => Increasing(S)[i] < Increasing(S)[j]
<1> DEFINE R == {p \in S \X S : p[1] < p[2]}
           s == InOrder(S, R)
<1>1. \A x, y : <<x, y>> \in R <=> x \in S /\ y \in S /\ x < y
  OBVIOUS
<1> HIDE DEF R
<1>2. StrictOrder(S, R)
  <2>1. \A x, y, z \in S : x < y /\ y < z => x < z
    OBVIOUS
  <2>2. \A x, y \in S : x # y => (x < y \/ y < x)
    OBVIOUS
  <2>3. \A x \in S : ~(x < x)
    OBVIOUS
  <2> QED
    BY <1>1, <2>1, <2>2, <2>3 DEF StrictOrder
<1>3. Sorts(s, S, R)
  BY <1>2, InOrderSorts
<1>4. Cardinality(S) \in Nat
  BY FS_CardinalityType
<1> HIDE DEF s
<1>5. /\ s \in [1 .. Cardinality(S) -> S]
      /\ \A i, j \in 1 .. Cardinality(S) : i < j => s[i] < s[j]
  BY <1>1, <1>3 DEF Sorts
<1>6. Increasing(S) = s
  BY DEF Increasing, s, R
<1> QED
  BY <1>4, <1>5, <1>6

LEMMA IncreasingOfRange ==
    ASSUME NEW m \in Nat
    PROVE  /\ Cardinality(1 .. m) = m
           /\ \A k \in 1 .. m : Increasing(1 .. m)[k] = k
<1> DEFINE s == Increasing(1 .. m)
<1>1. IsFiniteSet(1 .. m) /\ Cardinality(1 .. m) = m
  BY FS_Interval
<1>2. s \in [1 .. m -> 1 .. m] /\ \A i, j \in 1 .. m : i < j => s[i] < s[j]
  <2>1. 1 .. m \subseteq Int
    OBVIOUS
  <2> QED
    BY <1>1, <2>1, IncreasingSorts
<1> HIDE DEF s
<1> DEFINE A == {k \in 0 .. m : k \in 1 .. m => s[k] >= k}
           B == {k \in 0 .. m : k \in 0 .. m - 1 => s[m - k] <= m - k}
<1>3. 0 .. m \subseteq A
  <2>1. 0 \in A
    OBVIOUS
  <2>2. ASSUME NEW k \in 1 .. m, k - 1 \in A
        PROVE  k \in A
    <3>1. CASE k = 1
      <4>1. s[1] \in 1 .. m
        BY <1>2, <3>1
      <4> QED
        BY <3>1, <4>1
    <3>2. CASE k # 1
      <4>1. k - 1 \in 1 .. m /\ k - 1 < k
        BY <3>2
      <4>2. s[k - 1] >= k - 1 /\ s[k - 1] < s[k] /\ s[k] \in 1 .. m /\ s[k - 1] \in 1 .. m
        BY <1>2, <2>2, <4>1
      <4>3. s[k] >= k
        BY <4>1, <4>2
      <4> QED
        BY <4>3
    <3> QED
      BY <3>1, <3>2
  <2> HIDE DEF A
  <2> QED
    BY <2>1, <2>2, Stepwise
<1>4. 0 .. m \subseteq B
  <2>1. 0 \in B
    <3>1. m \in 1 .. m => s[m] \in 1 .. m
      BY <1>2
    <3>2. 0 \in 0 .. m - 1 => s[m - 0] <= m - 0
      BY <3>1
    <3> QED
      BY <3>2
  <2>2. ASSUME NEW k \in 1 .. m, k - 1 \in B
        PROVE  k \in B
    <3>1. CASE k = m
      BY <3>1
    <3>2. CASE k # m
      <4>1. k - 1 \in 0 .. m - 1 /\ m - k \in 1 .. m /\ m - (k - 1) \in 1 .. m
            /\ m - k < m - (k - 1)
        BY <3>2
      <4>2. s[m - (k - 1)] <= m - (k - 1) /\ s[m - k] < s[m - (k - 1)]
            /\ s[m - k] \in 1 .. m /\ s[m - (k - 1)] \in 1 .. m
        BY <1>2, <2>2, <4>1
      <4>3. s[m - k] <= m - k
        BY <4>1, <4>2
      <4> QED
        BY <4>3
    <3> QED
      BY <3>1, <3>2
  <2> HIDE DEF B
  <2> QED
    BY <2>1, <2>2, Stepwise
<1>5. ASSUME NEW k \in 1 .. m
      PROVE  s[k] = k
  <2>1. k \in 0 .. m /\ m - k \in 0 .. m /\ m - k \in 0 .. m - 1 /\ m - (m - k) = k
    OBVIOUS
  <2>2. s[k] >= k
    BY <1>3, <2>1
  <2>3. s[m - (m - k)] <= m - (m - k)
    BY <1>4, <2>1
  <2>4. s[k] \in 1 .. m
    BY <1>2
  <2> QED
    BY <2>1, <2>2, <2>3, <2>4
<1> QED
  BY <1>1, <1>5 DEF s

LEMMA SequenceMembers ==
    ASSUME NEW S, NEW s \in Seq(S)
    PROVE  Len(s) \in Nat /\ \A k \in 1 .. Len(s) : s[k] \in S
OBVIOUS

\* What is made of a response without anything odd in it.
LEMMA TurnIs ==
    ASSUME NEW response \in Responses,
           \A k \in 1 .. Len(response.calls) : response.calls[k].name # ""
    PROVE  ParseTurn(response) =
             [text |-> response.content,
              calls |-> [k \in 1 .. Len(response.calls) |->
                           [id |-> response.calls[k].id, tool |-> response.calls[k].name,
                            args |-> ParseArgs(response.calls[k].args)]]]
<1> DEFINE calls == response.calls
           m == Len(calls)
           good == {n \in 1 .. m : calls[n] # Odd /\ calls[n].name # ""}
           T(c) == [id |-> c.id, tool |-> c.name, args |-> ParseArgs(c.args)]
<1>1. response # Odd /\ calls \in Seq(Calls)
  BY OddIsOdd DEF Responses
<1>2. m \in Nat /\ \A k \in 1 .. m : calls[k] \in Calls
  <2>1. \A s \in Seq(Calls) : Len(s) \in Nat /\ \A k \in 1 .. Len(s) : s[k] \in Calls
    BY SequenceMembers
  <2>2. calls \in Seq(Calls)
    BY <1>1
  <2> HIDE DEF calls
  <2> QED
    BY <2>1, <2>2
<1>3. good = 1 .. m
  BY <1>2, OddIsOdd
<1>4. Cardinality(good) = m /\ \A k \in 1 .. m : Increasing(good)[k] = k
  BY <1>2, <1>3, IncreasingOfRange
<1>5. ParseTurn(response) =
        [text |-> response.content,
         calls |-> [k \in 1 .. Cardinality(good) |-> T(calls[Increasing(good)[k]])]]
  <2>1. response # Odd
    BY <1>1
  <2> QED
    BY <2>1, Zenon DEF ParseTurn
<1> HIDE DEF good, m, calls, T
<1>6. [k \in 1 .. Cardinality(good) |-> T(calls[Increasing(good)[k]])] =
        [k \in 1 .. m |-> T(calls[k])]
  BY <1>4
<1>7. ParseTurn(response) = [text |-> response.content, calls |-> [k \in 1 .. m |-> T(calls[k])]]
  BY <1>5, <1>6
<1> QED
  BY <1>7 DEF T, m, calls

LEMMA SequencesAre ==
    ASSUME NEW S, NEW m \in Nat, NEW s \in [1 .. m -> S]
    PROVE  s \in Seq(S)
OBVIOUS

\* The calls of a response: the named slots in the order of their index.
IdOf(sent, given, i) == IF i \in given THEN Given(sent[i].id) ELSE MadeUp(i)

LEMMA ResponseIs ==
    ASSUME NEW sent, NEW accum \in Accums(sent), NEW got, NEW arrived, NEW given,
           arrived \subseteq DOMAIN sent, IsFiniteSet(arrived), arrived \subseteq Int,
           \A i \in arrived : sent[i].name \in STRING /\ sent[i].name # "",
           \A i \in given : sent[i].id \in STRING /\ sent[i].id # "",
           Tracks(sent, accum.slots, got, arrived, given)
    PROVE  /\ Response(accum) =
                [content |-> accum.content,
                 calls |-> [n \in 1 .. Cardinality(arrived) |->
                              [id |-> IdOf(sent, given, Increasing(arrived)[n]),
                               name |-> sent[Increasing(arrived)[n]].name,
                               args |-> got[Increasing(arrived)[n]]]]]
           /\ Response(accum) \in Responses
<1> DEFINE slots == accum.slots
           named == {i \in DOMAIN slots : slots[i].name # ""}
           m == Cardinality(arrived)
           at(n) == Increasing(arrived)[n]
           call(n) == [id |-> IdOf(sent, given, at(n)), name |-> sent[at(n)].name,
                       args |-> got[at(n)]]
           made(i) == [id |-> IF slots[i].id # "" THEN Given(slots[i].id) ELSE MadeUp(i),
                       name |-> slots[i].name, args |-> slots[i].args]
<1>1. /\ DOMAIN slots \subseteq DOMAIN sent
      /\ slots \in [DOMAIN slots -> SlotRecords(sent)]
      /\ accum.content \in PieceTexts
  <2>1. slots \in SlotsOf(sent) /\ accum.content \in PieceTexts
    BY DEF Accums
  <2> HIDE DEF slots
  <2> QED
    BY <2>1, SlotsAre
<1>2. \A i \in DOMAIN slots : /\ slots[i].id = IF i \in given THEN sent[i].id ELSE ""
                              /\ slots[i].args = got[i] /\ slots[i].args \in PieceTexts
                              /\ slots[i].name = IF i \in arrived THEN sent[i].name ELSE ""
  <2> TAKE i \in DOMAIN slots
  <2>1. slots[i] = Held(sent, got, arrived, given, i)
    BY <1>1 DEF Tracks
  <2> DEFINE slot == slots[i]
  <2>2. slot \in SlotRecords(sent)
    BY <1>1
  <2>4. slot = Held(sent, got, arrived, given, i)
    BY <2>1
  <2> HIDE DEF slot
  <2>3. /\ slot.id = (IF i \in given THEN sent[i].id ELSE "")
        /\ slot.args = got[i] /\ slot.args \in PieceTexts
        /\ slot.name = IF i \in arrived THEN sent[i].name ELSE ""
    BY <2>2, <2>4 DEF SlotRecords, Held
  <2> QED
    BY <2>3 DEF slot
<1>3. named = arrived
  <2>1. \A i \in arrived : i \in DOMAIN slots
    BY DEF Tracks
  <2> HIDE DEF slots
  <2> QED
    BY <1>2, <2>1
<1>4. Response(accum) =
        [content |-> accum.content, calls |-> [n \in 1 .. m |-> made(at(n))]]
  <2>1. Response(accum) =
          [content |-> accum.content,
           calls |-> [n \in 1 .. Cardinality(named) |-> made(Increasing(named)[n])]]
    BY Zenon DEF Response
  <2> HIDE DEF named, made
  <2> QED
    BY <1>3, <2>1
<1>5. m \in Nat /\ \A n \in 1 .. m : at(n) \in arrived
  BY IncreasingSorts
<1> HIDE DEF m, at, named
<1>6. \A n \in 1 .. m : made(at(n)) = call(n)
  <2> TAKE n \in 1 .. m
  <2> DEFINE i == at(n)
  <2>1. i \in arrived /\ i \in DOMAIN slots
    <3>1. i \in arrived
      BY <1>5
    <3> QED
      BY <3>1 DEF Tracks
  <2> HIDE DEF i, slots
  <2>2. slots[i].args = got[i] /\ slots[i].name = sent[i].name
    BY <1>2, <2>1
  <2>4. (IF slots[i].id # "" THEN Given(slots[i].id) ELSE MadeUp(i)) = IdOf(sent, given, i)
    <3>1. slots[i].id = IF i \in given THEN sent[i].id ELSE ""
      BY <1>2, <2>1
    <3> DEFINE id == slots[i].id
    <3> HIDE DEF id
    <3>2. id = IF i \in given THEN sent[i].id ELSE ""
      BY <3>1 DEF id
    <3>3. (IF id # "" THEN Given(id) ELSE MadeUp(i)) = IdOf(sent, given, i)
      BY <3>2 DEF IdOf
    <3> QED
      BY <3>3 DEF id
  <2>3. made(i) = [id |-> IdOf(sent, given, i), name |-> sent[i].name, args |-> got[i]]
    BY <2>2, <2>4
  <2> HIDE DEF made
  <2> QED
    BY <2>3 DEF i
<1>7. \A n \in 1 .. m : call(n) \in Calls
  <2> TAKE n \in 1 .. m
  <2> DEFINE i == at(n)
  <2>1. i \in arrived
    BY <1>5
  <2>2. i \in DOMAIN slots
    BY <2>1 DEF Tracks
  <2> HIDE DEF i, slots
  <2>3. i \in Int /\ sent[i].name \in STRING /\ got[i] \in Seq(Pieces)
    BY <1>2, <2>1, <2>2 DEF PieceTexts
  <2>4. IdOf(sent, given, i) \in Identifiers
    <3>1. CASE i \in given
      <4>1. sent[i].id \in STRING
        BY <3>1
      <4> DEFINE id == sent[i].id
      <4> HIDE DEF id
      <4>2. Given(id) \in Identifiers
        BY <4>1 DEF Given, Identifiers, id
      <4> QED
        BY <3>1, <4>2 DEF IdOf, id
    <3>2. CASE i \notin given
      BY <2>3, <3>2 DEF IdOf, MadeUp, Identifiers
    <3> QED
      BY <3>1, <3>2
  <2>5. [id |-> IdOf(sent, given, i), name |-> sent[i].name, args |-> got[i]] \in Calls
    BY <2>3, <2>4 DEF Calls
  <2> QED
    BY <2>5 DEF i
<1> HIDE DEF made, call
<1>8. [n \in 1 .. m |-> made(at(n))] = [n \in 1 .. m |-> call(n)]
  BY <1>6
<1>9. [n \in 1 .. m |-> call(n)] \in Seq(Calls)
  <2> DEFINE s == [n \in 1 .. m |-> call(n)]
  <2>1. s \in [1 .. m -> Calls]
    BY <1>7
  <2> HIDE DEF s
  <2>2. s \in Seq(Calls)
    BY <1>5, <2>1, SequencesAre
  <2> QED
    BY <2>2 DEF s
<1>10. Response(accum) = [content |-> accum.content, calls |-> [n \in 1 .. m |-> call(n)]]
  BY <1>4, <1>8
<1>11. [content |-> accum.content, calls |-> [n \in 1 .. m |-> call(n)]] \in Responses
  BY <1>1, <1>9 DEF Responses, PieceTexts
<1> QED
  BY <1>10, <1>11 DEF call, m, at

\* The calls that have a fragment in G, as the property names them.
LEMMA ArrivedIs ==
    ASSUME NEW sent, NEW chunks, IsStream(sent, chunks), NEW G, G \subseteq FragmentsOf(chunks)
    PROVE  ArrivedBy(sent, chunks, G, Len(chunks))
             = {i \in DOMAIN sent : \E f \in G : f.index = i}
<1> DEFINE Has(k, i) == i \in IndexesIn(chunks[k].calls, G, Len(chunks[k].calls))
<1>1. /\ DOMAIN chunks = 1 .. Len(chunks)
      /\ \A k \in 1 .. Len(chunks) : chunks[k] # Odd => IsChunk(sent, chunks[k])
  BY StreamIs
<1>2. \A c : c \in ToSet(chunks) <=> \E k \in 1 .. Len(chunks) : c = chunks[k]
  BY <1>1 DEF ToSet
<1>3. ASSUME NEW k \in 1 .. Len(chunks), NEW i, chunks[k] # Odd
      PROVE  Has(k, i) <=> \E f \in ToSet(chunks[k].calls) : f \in G /\ f.index = i
  <2> DEFINE calls == chunks[k].calls
  <2>1. calls \in Seq(ToSet(calls))
    BY <1>1, <1>3 DEF IsChunk, AreFragments
  <2> HIDE DEF calls
  <2>2. DOMAIN calls = 1 .. Len(calls)
    BY <2>1
  <2>3. \A f : f \in ToSet(calls) <=> \E j \in 1 .. Len(calls) : f = calls[j]
    BY <2>2 DEF ToSet
  <2>4. i \in IndexesIn(calls, G, Len(calls)) <=>
          \E j \in 1 .. Len(calls) : calls[j] \in G /\ calls[j].index = i
    BY DEF IndexesIn
  <2>5. i \in IndexesIn(calls, G, Len(calls)) <=>
          \E f \in ToSet(calls) : f \in G /\ f.index = i
    BY <2>3, <2>4
  <2> QED
    BY <2>5 DEF calls
<1>4. \A f \in G : \E k \in 1 .. Len(chunks) : chunks[k] # Odd /\ f \in ToSet(chunks[k].calls)
  <2> TAKE f \in G
  <2>1. PICK c \in ToSet(chunks) \ {Odd} : f \in ToSet(c.calls)
    BY DEF FragmentsOf
  <2> QED
    BY <1>2, <2>1
<1>5. ASSUME NEW i
      PROVE  (\E k \in 1 .. Len(chunks) : chunks[k] # Odd /\ Has(k, i)) <=>
               \E f \in G : f.index = i
  <2> HIDE DEF Has
  <2> QED
    BY <1>3, <1>4
<1>6. \A i : i \in ArrivedBy(sent, chunks, G, Len(chunks)) <=>
               i \in DOMAIN sent /\ \E k \in 1 .. Len(chunks) : chunks[k] # Odd /\ Has(k, i)
  BY DEF ArrivedBy
<1> HIDE DEF Has
<1> QED
  BY <1>5, <1>6

\* A fragment is one of a call that was sent.
LEMMA FragmentsAre ==
    ASSUME NEW sent, NEW chunks, IsStream(sent, chunks), NEW f \in FragmentsOf(chunks)
    PROVE  IsFragment(sent, f)
<1>1. PICK c \in ToSet(chunks) \ {Odd} : f \in ToSet(c.calls) /\ f # Odd
  BY DEF FragmentsOf
<1>2. PICK k \in 1 .. Len(chunks) : c = chunks[k]
  BY StreamIs DEF ToSet
<1>3. AreFragments(sent, c.calls)
  BY <1>1, <1>2, StreamIs DEF IsChunk
<1> QED
  BY <1>1, <1>3 DEF AreFragments

\* A call whose name arrived is one that was sent, under that name; and the
\* same for its identifier.
LEMMA ArrivedAre ==
    ASSUME NEW sent, NEW chunks, IsStream(sent, chunks)
    PROVE  LET arrived == ArrivedBy(sent, chunks, NamedOf(chunks), Len(chunks))
               given == ArrivedBy(sent, chunks, IdentifiedOf(chunks), Len(chunks))
           IN  /\ arrived \subseteq DOMAIN sent /\ IsFiniteSet(arrived) /\ arrived \subseteq Int
               /\ \A i \in arrived : sent[i].name \in STRING /\ sent[i].name # ""
               /\ \A i \in given : sent[i].id \in STRING /\ sent[i].id # ""
<1> DEFINE arrived == ArrivedBy(sent, chunks, NamedOf(chunks), Len(chunks))
           given == ArrivedBy(sent, chunks, IdentifiedOf(chunks), Len(chunks))
<1>1. /\ IsFiniteSet(DOMAIN sent) /\ DOMAIN sent \subseteq Int
      /\ \A i \in DOMAIN sent : sent[i].name \in STRING /\ sent[i].id \in STRING
  BY DEF IsStream
<1>2. /\ arrived = {i \in DOMAIN sent : \E f \in NamedOf(chunks) : f.index = i}
      /\ given = {i \in DOMAIN sent : \E f \in IdentifiedOf(chunks) : f.index = i}
  <2>1. NamedOf(chunks) \subseteq FragmentsOf(chunks)
        /\ IdentifiedOf(chunks) \subseteq FragmentsOf(chunks)
    BY DEF NamedOf, IdentifiedOf
  <2> QED
    BY <2>1, ArrivedIs
<1> HIDE DEF arrived, given
<1>3. ASSUME NEW i \in arrived
      PROVE  i \in DOMAIN sent /\ sent[i].name # ""
  <2>1. PICK f \in FragmentsOf(chunks) : f.name # "" /\ f.index = i
    BY <1>2 DEF NamedOf
  <2> QED
    BY <1>2, <2>1, FragmentsAre DEF IsFragment
<1>4. ASSUME NEW i \in given
      PROVE  i \in DOMAIN sent /\ sent[i].id # ""
  <2>1. PICK f \in FragmentsOf(chunks) : f.id # "" /\ f.index = i
    BY <1>2 DEF IdentifiedOf
  <2> QED
    BY <1>2, <2>1, FragmentsAre DEF IsFragment
<1>5. IsFiniteSet(arrived) /\ arrived \subseteq DOMAIN sent
  BY <1>1, <1>3, FS_Subset
<1>6. /\ arrived \subseteq DOMAIN sent /\ IsFiniteSet(arrived) /\ arrived \subseteq Int
      /\ \A i \in arrived : sent[i].name \in STRING /\ sent[i].name # ""
      /\ \A i \in given : sent[i].id \in STRING /\ sent[i].id # ""
  BY <1>1, <1>3, <1>4, <1>5
<1> QED
  BY <1>6, Zenon DEF arrived, given

\* Whatever the order in which the fragments of a stream arrive and wherever it
\* stops, the turn has the text that was shown and the calls whose name arrived,
\* each under the identifier that was sent for it or, while none arrived, the one
\* made up from its index, and with the arguments sent for it or none at all:
\* TurnsAreUntangled, for every stream (llm_serving.py:51-110 with
\* model_adapter.py:35-91).
THEOREM TurnsAreAlwaysUntangled ==
    ASSUME NEW sent, NEW chunks, IsStream(sent, chunks)
    PROVE  TurnsAreUntangled(sent, chunks)
<1> DEFINE arrived == ArrivedBy(sent, chunks, NamedOf(chunks), Len(chunks))
           given == ArrivedBy(sent, chunks, IdentifiedOf(chunks), Len(chunks))
           got == [i \in DOMAIN sent |-> Received(chunks, i)]
           m == Cardinality(arrived)
           at(n) == Increasing(arrived)[n]
           turn == ParseTurn(Streamed(chunks))
<1>1. PICK accum : /\ Streamed(chunks) = Response(accum)
                   /\ accum \in Accums(sent) /\ accum.content = TextOf(chunks)
                   /\ Tracks(sent, accum.slots, got, arrived, given)
  BY StreamTracks
<1>2. /\ arrived \subseteq DOMAIN sent /\ IsFiniteSet(arrived) /\ arrived \subseteq Int
      /\ \A i \in arrived : sent[i].name \in STRING /\ sent[i].name # ""
      /\ \A i \in given : sent[i].id \in STRING /\ sent[i].id # ""
  BY ArrivedAre
<1>3. m \in Nat /\ \A n \in 1 .. m : at(n) \in arrived
  BY <1>2, IncreasingSorts
<1> HIDE DEF got, arrived, given
<1>4. /\ Streamed(chunks) =
           [content |-> accum.content,
            calls |-> [n \in 1 .. m |->
                         [id |-> IdOf(sent, given, at(n)), name |-> sent[at(n)].name,
                          args |-> got[at(n)]]]]
      /\ Streamed(chunks) \in Responses
  <2>1. accum \in Accums(sent) /\ Tracks(sent, accum.slots, got, arrived, given)
    BY <1>1
  <2>2. /\ Response(accum) =
             [content |-> accum.content,
              calls |-> [n \in 1 .. Cardinality(arrived) |->
                           [id |-> IdOf(sent, given, Increasing(arrived)[n]),
                            name |-> sent[Increasing(arrived)[n]].name,
                            args |-> got[Increasing(arrived)[n]]]]]
        /\ Response(accum) \in Responses
    BY <1>2, <2>1, ResponseIs, Zenon
  <2> QED
    BY <1>1, <2>2, Zenon
<1> HIDE DEF m, at
<1> DEFINE response == Streamed(chunks)
           calls == [n \in 1 .. m |->
                       [id |-> IdOf(sent, given, at(n)), name |-> sent[at(n)].name,
                        args |-> got[at(n)]]]
<1>5. /\ response.content = TextOf(chunks) /\ response.calls = calls /\ response \in Responses
  <2> HIDE DEF calls, response
  <2>1. response = [content |-> accum.content, calls |-> calls] /\ response \in Responses
    BY <1>4 DEF calls, response
  <2> QED
    BY <1>1, <2>1
<1>6. Len(calls) = m /\ \A n \in 1 .. m :
         /\ calls[n].id = IdOf(sent, given, at(n)) /\ calls[n].name = sent[at(n)].name
         /\ calls[n].args = got[at(n)]
  BY <1>3
<1> HIDE DEF calls, response
<1>7. \A n \in 1 .. Len(response.calls) : response.calls[n].name # ""
  BY <1>2, <1>3, <1>5, <1>6
<1>8. ParseTurn(response) =
        [text |-> response.content,
         calls |-> [k \in 1 .. Len(response.calls) |->
                      [id |-> response.calls[k].id, tool |-> response.calls[k].name,
                       args |-> ParseArgs(response.calls[k].args)]]]
  BY <1>5, <1>7, TurnIs
<1>9. turn = [text |-> TextOf(chunks),
              calls |-> [k \in 1 .. m |->
                           [id |-> calls[k].id, tool |-> calls[k].name,
                            args |-> ParseArgs(calls[k].args)]]]
  <2> HIDE DEF turn
  <2>1. turn = ParseTurn(response)
    BY DEF turn, response
  <2> QED
    BY <1>5, <1>6, <1>8, <2>1
<1> HIDE DEF turn
<1>10. turn.text = TextOf(chunks) /\ DOMAIN turn.calls = 1 .. m
  BY <1>9
<1>11. ASSUME NEW n \in 1 .. m
       PROVE  /\ turn.calls[n].tool = sent[at(n)].name
              /\ turn.calls[n].id = IdOf(sent, given, at(n))
              /\ turn.calls[n].args \in {<<>>, sent[at(n)].args}
              /\ turn.calls[n].args # <<>> => Complete(turn.calls[n].args)
  <2> DEFINE i == at(n)
             bit == got[i]
  <2>1. /\ turn.calls[n].id = calls[n].id /\ turn.calls[n].tool = calls[n].name
        /\ turn.calls[n].args = ParseArgs(calls[n].args)
    BY <1>9
  <2>2. /\ calls[n].id = IdOf(sent, given, i) /\ calls[n].name = sent[i].name
        /\ calls[n].args = bit
    BY <1>6
  <2>3. i \in DOMAIN sent
    BY <1>2, <1>3
  <2>4. bit = Received(chunks, i)
    BY <2>3 DEF got
  <2>5. Complete(bit) => bit = sent[i].args
    BY <2>3, <2>4, Zenon DEF IsStream
  <2> HIDE DEF i, bit
  <2>6. \/ ParseArgs(bit) = <<>>
        \/ Complete(ParseArgs(bit)) /\ ParseArgs(bit) = sent[i].args
    BY <2>5, Zenon DEF ParseArgs
  <2>7. /\ turn.calls[n].id = IdOf(sent, given, i) /\ turn.calls[n].tool = sent[i].name
        /\ turn.calls[n].args = ParseArgs(bit)
    BY <2>1, <2>2
  <2> DEFINE args == turn.calls[n].args
  <2> HIDE DEF args
  <2>8. args \in {<<>>, sent[i].args} /\ (args # <<>> => Complete(args))
    <3>1. args = ParseArgs(bit)
      BY <2>7 DEF args
    <3> QED
      BY <2>6, <3>1, Zenon
  <2> QED
    BY <2>7, <2>8, Zenon DEF args, i
<1> DEFINE of(i) == {f \in (UNION {ToSet(c.calls) : c \in ToSet(chunks) \ {Odd}}) \ {Odd} :
                       f.index = i}
           known == {i \in DOMAIN sent : \E f \in of(i) : f.name # ""}
           identified(i) == \E f \in of(i) : f.id # ""
<1>12. /\ known = arrived
       /\ \A i \in DOMAIN sent : identified(i) <=> i \in given
  <2>1. /\ arrived = {i \in DOMAIN sent : \E f \in NamedOf(chunks) : f.index = i}
        /\ given = {i \in DOMAIN sent : \E f \in IdentifiedOf(chunks) : f.index = i}
    <3>1. NamedOf(chunks) \subseteq FragmentsOf(chunks)
          /\ IdentifiedOf(chunks) \subseteq FragmentsOf(chunks)
      BY DEF NamedOf, IdentifiedOf
    <3> QED
      BY <3>1, ArrivedIs DEF arrived, given
  <2>2. \A i : /\ (\E f \in of(i) : f.name # "") <=> \E f \in NamedOf(chunks) : f.index = i
               /\ (\E f \in of(i) : f.id # "") <=> \E f \in IdentifiedOf(chunks) : f.index = i
    <3>1. \A i, f : f \in of(i) <=> f \in FragmentsOf(chunks) /\ f.index = i
      BY Zenon DEF FragmentsOf
    <3> HIDE DEF of
    <3> QED
      BY <3>1, Zenon DEF NamedOf, IdentifiedOf
  <2> HIDE DEF of
  <2> QED
    BY <2>1, <2>2
<1> HIDE DEF known, identified
<1>13. /\ turn.text = TextOf(chunks)
       /\ DOMAIN turn.calls = 1 .. Cardinality(known)
       /\ \A n \in DOMAIN turn.calls :
            /\ turn.calls[n].tool = sent[Increasing(known)[n]].name
            /\ turn.calls[n].id = IF identified(Increasing(known)[n])
                                  THEN Given(sent[Increasing(known)[n]].id)
                                  ELSE MadeUp(Increasing(known)[n])
            /\ turn.calls[n].args \in {<<>>, sent[Increasing(known)[n]].args}
            /\ turn.calls[n].args # <<>> => Complete(turn.calls[n].args)
  <2>1. \A n \in 1 .. m : IdOf(sent, given, at(n)) = IF identified(at(n))
                            THEN Given(sent[at(n)].id) ELSE MadeUp(at(n))
    BY <1>2, <1>3, <1>12 DEF IdOf
  <2>2. m = Cardinality(known) /\ \A n : at(n) = Increasing(known)[n]
    BY <1>12 DEF m, at
  <2>3. \A n \in 1 .. m :
          /\ turn.calls[n].tool = sent[at(n)].name
          /\ turn.calls[n].id = IF identified(at(n)) THEN Given(sent[at(n)].id) ELSE MadeUp(at(n))
          /\ turn.calls[n].args \in {<<>>, sent[at(n)].args}
          /\ turn.calls[n].args # <<>> => Complete(turn.calls[n].args)
    BY <1>11, <2>1
  <2> QED
    BY <1>10, <2>2, <2>3
<1> QED
  BY <1>13, Zenon DEF TurnsAreUntangled, turn, known, identified, of
=============================================================================
