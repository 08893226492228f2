------------------------- MODULE ServerProcessProofs -------------------------
(***************************************************************************)
(* Proofs about the server process, for any modules that do not depend on  *)
(* each other in a circle, any MCP servers, any uploads and any caps:      *)
(* what the registry starts, stops and offers, what the MCP module runs    *)
(* and what the ingest store keeps.  What the recursive procedures of the  *)
(* registry return is in FunctionProofs.                                   *)
(***************************************************************************)
EXTENDS ServerProcess, FunctionProofs

-----------------------------------------------------------------------------
(* One server process after the other.                                     *)

\* The registered modules that a module of the list depends on come before it, or
\* are in D.
RestsOn(list, D) ==
    \A k \in 1 .. Len(list) : \A dep \in Deps(Registration, list[k]) :
        dep \in D \/ ComesBefore(list, dep, k)

\* The modules of a registry that is being started, serves or is being stopped.
RegistryTyped ==
    /\ phase \in {"off", "starting", "serving", "stopping", "stopped"}
    /\ boots \in 0 .. MaxBoots
    /\ todo \in Seq(Modules) /\ started \in Seq(Modules)
    /\ errors \subseteq Modules /\ sick \subseteq Modules \cap Moody

EachOnce ==
    /\ Once(todo) /\ Once(started)
    /\ ToSet(started) \cap ToSet(todo) = {}
    /\ errors \cap (ToSet(started) \cup ToSet(todo)) = {}

InPlace ==
    /\ RestsOn(started, errors) /\ RestsOn(todo, errors \cup ToSet(started))
    /\ phase # "starting" => todo = <<>>
    /\ phase \in {"off", "stopped"} => started = <<>>

\* The MCP module: where its start() is, which servers it runs, and how that
\* agrees with where the registry is.
McpTyped ==
    /\ mcp \in [at : {"off", "connect", "session", "up", "raised", "stopped"},
                next : 1 .. Len(Servers) + 1]
    /\ Connecting <=> mcp.next <= Len(Servers) /\ mcp.at \notin {"off", "raised"}
    /\ mcp.at = "raised" => mcp.next <= Len(Servers) /\ Server \in Misnamed
    /\ procs \subseteq ToSet(Servers) /\ guarded \subseteq ToSet(Servers)

McpStarting == phase = "starting" /\ todo # <<>> /\ Head(todo) = Mcp

McpIsWhereTheRegistryIs ==
    /\ Connecting => McpStarting
    /\ mcp.at = "up" => Mcp \in ToSet(started) \/ McpStarting
    /\ Mcp \in ToSet(started) => mcp.at = "up"

ServersAreHeld ==
    /\ procs \subseteq guarded \cup (IF mcp.at = "session" THEN {Server} ELSE {})
    /\ mcp.at \in {"off", "stopped"} => procs = {}

\* The sizes on the disk, of all files and of those that a client has an id of.
DiskSizes == [id \in DOMAIN disk |-> disk[id].size]
AckedSizes == [id \in acked |-> disk[id].size]

StoreTyped ==
    /\ DOMAIN disk \subseteq UploadIds /\ failed \subseteq UploadIds
    /\ \A id \in DOMAIN disk : disk[id].size \in Nat
    /\ IsFiniteSet(DOMAIN disk) /\ IsFiniteSet(Bytes(DiskSizes))

\* A file is a client's or what a failed write left, never both.
FilesAreAccountedFor ==
    /\ acked = DOMAIN disk \ failed
    /\ \A id \in acked : disk[id].size = disk[id].meant

RecordsAreRead ==
    /\ \A id \in DOMAIN records : id \in DOMAIN disk /\ records[id] = disk[id].size
    /\ Up => acked \subseteq DOMAIN records

AckedAreWithinCaps ==
    Cardinality(acked) <= MaxFiles /\ TotalBytes(AckedSizes) <= MaxTotalBytes

-----------------------------------------------------------------------------
(* The registry.                                                           *)

\* What main.py registers is a registration, and acyclic.
LEMMA TheRegistration == IsRegistration(Registration) /\ Acyclic(Registration)
<1> DEFINE o == Registration.order
<1>1. o \in Seq(Modules) /\ Len(o) \in Nat
  BY RegistrationIsAList
<1>2. \A m \in Modules : \E i \in 1 .. Len(o) : o[i] = m
  <2>1. \A m : m \in ToSet(o) <=> Occurs(o, m)
    BY <1>1, ToSetOccurs
  <2> QED
    BY <2>1 DEF Occurs, ComesBefore, Modules, Names
<1> HIDE DEF o
<1>3. IsFiniteSet(Modules)
  <2>1. o \in [1 .. Len(o) -> Modules]
    BY <1>1
  <2>2. o \in Surjection(1 .. Len(o), Modules)
    BY <1>2, <2>1 DEF Surjection
  <2>3. IsFiniteSet(1 .. Len(o))
    BY <1>1, FS_Interval
  <2> QED
    BY <2>2, <2>3, FS_Surjection
<1> QED
  BY <1>3, RegistrationIsAList, DependenciesEnd DEF IsRegistration, Acyclic, Modules

\* A list of which the last entry goes keeps the rest, each in its place.
LEMMA WithoutLast ==
    ASSUME NEW S, NEW s \in Seq(S), s # <<>>
    PROVE  LET r == RemoveAt(s, Len(s)) IN
           /\ r \in Seq(S) /\ Len(s) \in Nat /\ Len(r) = Len(s) - 1
           /\ \A i \in 1 .. Len(r) : i \in 1 .. Len(s) /\ r[i] = s[i]
           /\ \A x : \A k \in 1 .. Len(r) : ComesBefore(s, x, k) => ComesBefore(r, x, k)
           /\ \A x : Occurs(s, x) <=> x = s[Len(s)] \/ Occurs(r, x)
<1> DEFINE a == SubSeq(s, 1, Len(s) - 1)
           b == SubSeq(s, Len(s) + 1, Len(s))
           r == RemoveAt(s, Len(s))
<1>1. Len(s) \in Nat /\ Len(s) >= 1 /\ \A i \in 1 .. Len(s) : s[i] \in S
  OBVIOUS
<1>2. a \in Seq(S) /\ Len(a) = Len(s) - 1 /\ \A i \in 1 .. Len(s) - 1 : a[i] = s[i]
  <2> DEFINE n == Len(s) - 1
  <2>1. n \in Nat /\ 1 <= n + 1 /\ n - 1 + 1 = n /\ \A i \in 1 .. n : s[i] \in S /\ 1 + i - 1 = i
    BY <1>1
  <2>2. (IF 1 <= n THEN n - 1 + 1 ELSE 0) = n
    BY <2>1
  <2> HIDE DEF n
  <2>3. /\ a \in Seq(S) /\ Len(a) = (IF 1 <= n THEN n - 1 + 1 ELSE 0)
        /\ \A i \in 1 .. n - 1 + 1 : a[i] = s[1 + i - 1]
    BY <2>1, SubSeqProperties DEF n
  <2> HIDE DEF a
  <2> QED
    BY <2>1, <2>2, <2>3 DEF n
<1>3. b \in Seq(S) /\ Len(b) = 0
  <2>1. \A i \in Len(s) + 1 .. Len(s) : s[i] \in S
    BY <1>1
  <2> QED
    BY <1>1, <2>1, SubSeqProperties
<1>4. r = a \o b
  BY DEF RemoveAt
<1> HIDE DEF a, b, r
<1>5. /\ r \in Seq(S) /\ Len(r) = Len(s) - 1
      /\ \A i \in 1 .. Len(s) - 1 : r[i] = s[i]
  BY <1>1, <1>2, <1>3, <1>4
<1>6. \A i \in 1 .. Len(r) : i \in 1 .. Len(s) /\ r[i] = s[i]
  BY <1>1, <1>5
<1>7. ASSUME NEW x, NEW k \in 1 .. Len(r), ComesBefore(s, x, k)
      PROVE  ComesBefore(r, x, k)
  <2>1. PICK j \in 1 .. Len(s) : j < k /\ s[j] = x
    BY <1>7 DEF ComesBefore
  <2>2. j \in 1 .. Len(r)
    BY <1>1, <1>5, <2>1
  <2> QED
    BY <1>6, <2>1, <2>2 DEF ComesBefore
<1>8. \A x : Occurs(s, x) <=> x = s[Len(s)] \/ Occurs(r, x)
  <2>1. \A i \in 1 .. Len(s) : i < Len(s) + 1 /\ (i = Len(s) \/ i \in 1 .. Len(r))
    BY <1>1, <1>5
  <2>2. \A i \in 1 .. Len(r) : i < Len(r) + 1
    BY <1>1, <1>5
  <2>3. Len(s) \in 1 .. Len(s)
    BY <1>1
  <2> QED
    BY <1>6, <2>1, <2>2, <2>3 DEF Occurs, ComesBefore
<1> QED
  BY <1>1, <1>5, <1>6, <1>7, <1>8 DEF r

\* What a list rests on it still rests on when more is there.
LEMMA RestsOnMore ==
    ASSUME NEW s, NEW D, NEW E, RestsOn(s, D), D \subseteq E
    PROVE  RestsOn(s, E)
BY DEF RestsOn

\* The first of a list rests on what is there, the others on that and on it.
LEMMA RestsTail ==
    ASSUME NEW s \in Seq(Modules), s # <<>>, NEW D, RestsOn(s, D)
    PROVE  Deps(Registration, Head(s)) \subseteq D /\ RestsOn(Tail(s), D \cup {Head(s)})
<1>1. /\ Tail(s) \in Seq(Modules) /\ Head(s) = s[1]
      /\ Len(s) \in Nat /\ Len(s) >= 1 /\ Len(Tail(s)) = Len(s) - 1
      /\ \A i \in 1 .. Len(s) - 1 : Tail(s)[i] = s[i + 1]
  OBVIOUS
<1>2. Deps(Registration, Head(s)) \subseteq D
  <2>1. 1 \in 1 .. Len(s) /\ \A j \in 1 .. Len(s) : ~(j < 1)
    BY <1>1
  <2> QED
    BY <1>1, <2>1 DEF RestsOn, ComesBefore
<1>3. ASSUME NEW k \in 1 .. Len(Tail(s)), NEW dep \in Deps(Registration, Tail(s)[k])
      PROVE  dep \in D \cup {Head(s)} \/ ComesBefore(Tail(s), dep, k)
  <2>1. k + 1 \in 1 .. Len(s) /\ dep \in Deps(Registration, s[k + 1])
    BY <1>1, <1>3
  <2>2. dep \in D \/ ComesBefore(s, dep, k + 1)
    BY <2>1 DEF RestsOn
  <2>3. ASSUME ComesBefore(s, dep, k + 1)
        PROVE  dep = Head(s) \/ ComesBefore(Tail(s), dep, k)
    <3>1. PICK j \in 1 .. Len(s) : j < k + 1 /\ s[j] = dep
      BY <2>3 DEF ComesBefore
    <3>2. CASE j = 1
      BY <1>1, <3>1, <3>2
    <3>3. CASE j # 1
      <4>1. j - 1 \in 1 .. Len(Tail(s)) /\ j - 1 < k /\ Tail(s)[j - 1] = dep
        BY <1>1, <3>1, <3>3
      <4> QED
        BY <4>1 DEF ComesBefore
    <3> QED
      BY <3>2, <3>3
  <2> QED
    BY <2>2, <2>3
<1> QED
  BY <1>2, <1>3 DEF RestsOn

\* A module may follow what it rests on.
LEMMA RestsAppend ==
    ASSUME NEW s \in Seq(Modules), NEW m \in Modules, NEW D, RestsOn(s, D),
           Deps(Registration, m) \subseteq D \cup ToSet(s)
    PROVE  RestsOn(Append(s, m), D)
<1> DEFINE a == Append(s, m)
<1>1. /\ Len(a) = Len(s) + 1 /\ Len(s) \in Nat /\ a[Len(s) + 1] = m
      /\ \A i \in 1 .. Len(s) : a[i] = s[i]
  OBVIOUS
<1>2. /\ \A x : \A k \in 1 .. Len(s) : ComesBefore(s, x, k) => ComesBefore(a, x, k)
      /\ \A x : Occurs(s, x) => ComesBefore(a, x, Len(s) + 1)
  BY OccursAppend
<1>3. \A x : x \in ToSet(s) <=> Occurs(s, x)
  BY ToSetOccurs
<1> HIDE DEF a
<1>4. \A i \in 1 .. Len(a) : i \in 1 .. Len(s) \/ i = Len(s) + 1
  BY <1>1
<1> SUFFICES ASSUME NEW k \in 1 .. Len(a), NEW dep \in Deps(Registration, a[k])
             PROVE  dep \in D \/ ComesBefore(a, dep, k)
  BY DEF RestsOn, a
<1>5. CASE k \in 1 .. Len(s)
  BY <1>1, <1>2, <1>5 DEF RestsOn
<1>6. CASE k = Len(s) + 1
  BY <1>1, <1>2, <1>3, <1>6
<1> QED
  BY <1>4, <1>5, <1>6

\* Without its last a list rests on what it rested on.
LEMMA RestsWithoutLast ==
    ASSUME NEW s \in Seq(Modules), s # <<>>, NEW D, RestsOn(s, D)
    PROVE  RestsOn(RemoveAt(s, Len(s)), D)
<1> DEFINE r == RemoveAt(s, Len(s))
<1>1. /\ \A i \in 1 .. Len(r) : i \in 1 .. Len(s) /\ r[i] = s[i]
      /\ \A x : \A k \in 1 .. Len(r) : ComesBefore(s, x, k) => ComesBefore(r, x, k)
  BY WithoutLast
<1> HIDE DEF r
<1> QED
  BY <1>1 DEF RestsOn, r

\* What is once in a list is once in it without its first, without its last ...
LEMMA OnceShorter ==
    ASSUME NEW S, NEW s \in Seq(S), s # <<>>, Once(s)
    PROVE  /\ Once(Tail(s)) /\ Once(RemoveAt(s, Len(s)))
           /\ ToSet(Tail(s)) = ToSet(s) \ {Head(s)}
           /\ ToSet(RemoveAt(s, Len(s))) = ToSet(s) \ {s[Len(s)]}
<1> DEFINE t == Tail(s)
           r == RemoveAt(s, Len(s))
<1>1. /\ t \in Seq(S) /\ Len(s) \in Nat /\ Len(s) >= 1 /\ Len(t) = Len(s) - 1 /\ Head(s) = s[1]
      /\ \A i \in 1 .. Len(s) - 1 : t[i] = s[i + 1]
  OBVIOUS
<1>2. /\ r \in Seq(S) /\ Len(r) = Len(s) - 1
      /\ \A i \in 1 .. Len(r) : i \in 1 .. Len(s) /\ r[i] = s[i]
      /\ \A x : Occurs(s, x) <=> x = s[Len(s)] \/ Occurs(r, x)
  BY WithoutLast
<1>3. \A x : Occurs(s, x) <=> x = Head(s) \/ Occurs(t, x)
  BY OccursTail
<1> HIDE DEF t, r
<1>4. \A i \in 1 .. Len(t) : i + 1 \in 1 .. Len(s) /\ i + 1 # 1 /\ t[i] = s[i + 1]
  BY ONLY <1>1
<1>5. 1 \in 1 .. Len(s) /\ Len(s) \in 1 .. Len(s) /\ \A i \in 1 .. Len(r) : i # Len(s)
  BY <1>1, <1>2
<1>6. Once(t)
  <2> SUFFICES ASSUME NEW i \in 1 .. Len(t), NEW j \in 1 .. Len(t), t[i] = t[j]
               PROVE  i = j
    BY DEF Once
  <2>1. i + 1 = j + 1
    BY <1>4 DEF Once
  <2> QED
    BY <2>1
<1>7. Once(r)
  BY <1>2 DEF Once
<1>8. \A x : x \in ToSet(t) <=> Occurs(t, x)
  BY <1>1, ToSetOccurs
<1>9. \A x : x \in ToSet(r) <=> Occurs(r, x)
  BY <1>2, ToSetOccurs
<1>10. \A x : x \in ToSet(s) <=> Occurs(s, x)
  BY ToSetOccurs
<1>11. ~Occurs(t, Head(s))
  <2> SUFFICES ASSUME NEW i \in 1 .. Len(t), t[i] = s[1]
               PROVE  FALSE
    BY <1>1 DEF Occurs, ComesBefore
  <2> QED
    BY <1>4, <1>5 DEF Once
<1>12. ~Occurs(r, s[Len(s)])
  <2> SUFFICES ASSUME NEW i \in 1 .. Len(r), r[i] = s[Len(s)]
               PROVE  FALSE
    BY DEF Occurs, ComesBefore
  <2> QED
    BY <1>2, <1>5 DEF Once
<1> QED
  BY <1>3, <1>2, <1>6, <1>7, <1>8, <1>9, <1>10, <1>11, <1>12 DEF t, r

\* ... and with one more that was not in it.
LEMMA OnceLonger ==
    ASSUME NEW S, NEW s \in Seq(S), NEW m \in S, Once(s), m \notin ToSet(s)
    PROVE  Once(Append(s, m)) /\ ToSet(Append(s, m)) = ToSet(s) \cup {m}
<1> DEFINE a == Append(s, m)
<1>1. /\ a \in Seq(S) /\ Len(a) = Len(s) + 1 /\ Len(s) \in Nat /\ a[Len(s) + 1] = m
      /\ \A i \in 1 .. Len(s) : a[i] = s[i]
  OBVIOUS
<1>2. \A x : Occurs(a, x) <=> x = m \/ Occurs(s, x)
  BY OccursAppend
<1> HIDE DEF a
<1>3. \A x : x \in ToSet(a) <=> Occurs(a, x)
  BY <1>1, ToSetOccurs
<1>4. \A x : x \in ToSet(s) <=> Occurs(s, x)
  BY ToSetOccurs
<1>5. \A i \in 1 .. Len(a) : i \in 1 .. Len(s) \/ i = Len(s) + 1
  BY <1>1
<1>6. \A i \in 1 .. Len(s) : i < Len(s) + 1
  BY <1>1
<1>7. \A i \in 1 .. Len(s) : s[i] # m
  BY <1>4, <1>6 DEF Occurs, ComesBefore
<1>8. Once(a)
  BY <1>1, <1>5, <1>7 DEF Once
<1> QED
  BY <1>2, <1>3, <1>4, <1>8 DEF a

RegistryInv == RegistryTyped /\ EachOnce /\ InPlace

\* A new process has everything to start, in its place.
LEMMA BootKeepsTheRegistry ==
    ASSUME RegistryInv, Boot
    PROVE  RegistryInv'
<1>1. /\ StartOrder(Registration) \in Seq(Modules)
      /\ Once(StartOrder(Registration)) /\ Placed(Registration, StartOrder(Registration))
  BY TheRegistration, StartOrderPlaces DEF Modules
<1>8. RestsOn(StartOrder(Registration), {})
  <2> DEFINE o == StartOrder(Registration)
  <2> HIDE DEF o
  <2> SUFFICES ASSUME NEW k \in 1 .. Len(o), NEW dep \in Deps(Registration, o[k])
               PROVE  ComesBefore(o, dep, k)
    BY DEF RestsOn, o
  <2>1. o[k] \in Names(Registration)
    BY <1>1 DEF o, Modules
  <2>2. ~Leads(Registration, dep, o[k])
    BY <2>1, TheRegistration, NothingLeadsBack
  <2> QED
    BY <1>1, <2>2 DEF Placed, o
<1>2. /\ todo' = StartOrder(Registration) /\ started' = <<>> /\ errors' = {} /\ sick' = {}
      /\ phase' = "starting" /\ boots' = boots + 1 /\ boots < MaxBoots
  BY DEF Boot
<1>3. boots \in 0 .. MaxBoots /\ MaxBoots \in Nat
  BY BootsBound DEF RegistryInv, RegistryTyped
<1>4. RegistryTyped'
  <2>1. boots' \in 0 .. MaxBoots
    BY <1>2, <1>3
  <2> QED
    BY <1>1, <1>2, <2>1 DEF RegistryTyped
<1>5. ToSet(<<>>) = {} /\ Once(<<>>) /\ RestsOn(<<>>, {})
  BY DEF ToSet, Once, RestsOn
<1>6. EachOnce'
  BY <1>1, <1>2, <1>5 DEF EachOnce
<1>7. InPlace'
  BY <1>2, <1>5, <1>8 DEF InPlace, RestsOn
<1> QED
  BY <1>4, <1>6, <1>7 DEF RegistryInv

\* The next module's start() has returned or raised.
LEMMA StartKeepsTheRegistry ==
    ASSUME RegistryInv, StartReturns \/ StartRaises
    PROVE  RegistryInv'
<1> DEFINE m == Head(todo)
<1>1. /\ phase = "starting" /\ todo # <<>> /\ todo' = Tail(todo)
      /\ phase' = phase /\ sick' = sick /\ boots' = boots
  BY DEF StartReturns, StartRaises
<1>2. /\ started \in Seq(Modules) /\ todo \in Seq(Modules)
      /\ errors \subseteq Modules /\ boots \in 0 .. MaxBoots /\ sick \subseteq Modules \cap Moody
      /\ Once(todo) /\ Once(started) /\ ToSet(started) \cap ToSet(todo) = {}
      /\ errors \cap (ToSet(started) \cup ToSet(todo)) = {}
      /\ RestsOn(started, errors) /\ RestsOn(todo, errors \cup ToSet(started))
  BY DEF RegistryInv, RegistryTyped, EachOnce, InPlace
<1>3. m \in Modules /\ Tail(todo) \in Seq(Modules) /\ m \in ToSet(todo)
  <2>1. Occurs(todo, m) /\ m \in Modules /\ Tail(todo) \in Seq(Modules)
    BY <1>1, <1>2, OccursTail
  <2> QED
    BY <1>2, <2>1, ToSetOccurs
<1>4. Once(Tail(todo)) /\ ToSet(Tail(todo)) = ToSet(todo) \ {m}
  BY <1>1, <1>2, OnceShorter
<1>5. /\ Deps(Registration, m) \subseteq errors \cup ToSet(started)
      /\ RestsOn(Tail(todo), (errors \cup ToSet(started)) \cup {m})
  BY <1>1, <1>2, RestsTail
<1>6. CASE StartReturns
  <2>1. started' = Append(started, m) /\ errors' = errors
    BY <1>6 DEF StartReturns
  <2> HIDE DEF m
  <2>2. m \notin ToSet(started) /\ m \notin errors
    BY <1>2, <1>3
  <2>3. Once(started') /\ ToSet(started') = ToSet(started) \cup {m} /\ started' \in Seq(Modules)
    BY <1>2, <1>3, <2>1, <2>2, OnceLonger
  <2>4. RestsOn(started', errors')
    BY <1>2, <1>3, <1>5, <2>1, RestsAppend
  <2>5. RestsOn(todo', errors' \cup ToSet(started'))
    <3>1. (errors \cup ToSet(started)) \cup {m} = errors' \cup ToSet(started')
      BY <2>1, <2>3
    <3> QED
      BY <1>1, <1>5, <3>1
  <2>6. RegistryTyped'
    BY <1>1, <1>2, <1>3, <2>1, <2>3 DEF RegistryTyped
  <2>7. EachOnce'
    BY <1>1, <1>2, <1>4, <2>1, <2>2, <2>3 DEF EachOnce
  <2>8. InPlace'
    BY <1>1, <2>4, <2>5 DEF InPlace
  <2> QED
    BY <2>6, <2>7, <2>8 DEF RegistryInv
<1>7. CASE StartRaises
  <2>1. started' = started /\ errors' = errors \cup {m}
    BY <1>7 DEF StartRaises
  <2> HIDE DEF m
  <2>2. RestsOn(started', errors')
    BY <1>2, <2>1, RestsOnMore
  <2>3. RestsOn(todo', errors' \cup ToSet(started'))
    <3>1. (errors \cup ToSet(started)) \cup {m} = errors' \cup ToSet(started')
      BY <2>1
    <3> QED
      BY <1>1, <1>5, <3>1
  <2>4. RegistryTyped'
    BY <1>1, <1>2, <1>3, <2>1 DEF RegistryTyped
  <2>5. EachOnce'
    BY <1>1, <1>2, <1>3, <1>4, <2>1 DEF EachOnce
  <2>6. InPlace'
    BY <1>1, <2>2, <2>3 DEF InPlace
  <2> QED
    BY <2>4, <2>5, <2>6 DEF RegistryInv
<1> QED
  BY <1>6, <1>7

\* The last that started stops; nothing that still runs rests on it.
LEMMA StopKeepsTheRegistry ==
    ASSUME RegistryInv, StopModule
    PROVE  /\ RegistryInv'
           /\ started \in Seq(Modules) /\ started # <<>>
           /\ ToSet(started') = ToSet(started) \ {started[Len(started)]}
<1>1. /\ phase = "stopping" /\ started # <<>>
      /\ started' = RemoveAt(started, Len(started))
      /\ phase' = phase /\ todo' = todo /\ errors' = errors /\ sick' = sick /\ boots' = boots
  BY DEF StopModule, NextToStop
<1>2. /\ started \in Seq(Modules) /\ todo \in Seq(Modules) /\ todo = <<>>
      /\ errors \subseteq Modules /\ boots \in 0 .. MaxBoots /\ sick \subseteq Modules \cap Moody
      /\ Once(todo) /\ Once(started) /\ ToSet(started) \cap ToSet(todo) = {}
      /\ errors \cap (ToSet(started) \cup ToSet(todo)) = {}
      /\ RestsOn(started, errors)
  BY <1>1 DEF RegistryInv, RegistryTyped, EachOnce, InPlace
<1>3. started' \in Seq(Modules)
  BY <1>1, <1>2, WithoutLast
<1>4. Once(started') /\ ToSet(started') = ToSet(started) \ {started[Len(started)]}
  BY <1>1, <1>2, OnceShorter
<1>5. RestsOn(started', errors')
  BY <1>1, <1>2, RestsWithoutLast
<1>6. RestsOn(todo', errors' \cup ToSet(started'))
  BY <1>1, <1>2 DEF RestsOn
<1>7. RegistryTyped'
  BY <1>1, <1>2, <1>3 DEF RegistryTyped
<1>8. EachOnce'
  BY <1>1, <1>2, <1>4 DEF EachOnce
<1>9. InPlace'
  BY <1>1, <1>2, <1>5, <1>6 DEF InPlace
<1> QED
  BY <1>1, <1>2, <1>4, <1>7, <1>8, <1>9 DEF RegistryInv

LEMMA KillKeepsTheRegistry ==
    ASSUME RegistryInv, Kill
    PROVE  RegistryInv'
<1>1. /\ phase' = "off" /\ todo' = <<>> /\ started' = <<>> /\ errors' = {} /\ sick' = {}
      /\ boots' = boots
  BY DEF Kill
<1>2. RegistryTyped'
  <2>1. <<>> \in Seq(Modules)
    OBVIOUS
  <2> QED
    BY <1>1, <2>1 DEF RegistryInv, RegistryTyped
<1>3. EachOnce'
  BY <1>1 DEF EachOnce, Once, ToSet
<1>4. InPlace'
  BY <1>1 DEF InPlace, RestsOn
<1> QED
  BY <1>2, <1>3, <1>4 DEF RegistryInv

\* The lists are left as they are.
LEMMA OthersKeepTheRegistry ==
    ASSUME RegistryInv, UNCHANGED <<todo, started, errors, boots>>,
           sick' \subseteq Modules \cap Moody,
           \/ phase' = phase
           \/ phase = "starting" /\ todo = <<>> /\ phase' = "serving"
           \/ phase = "serving" /\ phase' = "stopping"
           \/ phase = "stopping" /\ started = <<>> /\ phase' = "stopped"
    PROVE  RegistryInv'
<1>1. RegistryTyped'
  BY DEF RegistryInv, RegistryTyped
<1>2. EachOnce'
  BY DEF RegistryInv, EachOnce
<1>3. InPlace'
  BY DEF RegistryInv, InPlace
<1> QED
  BY <1>1, <1>2, <1>3 DEF RegistryInv

LEMMA RegistryStep ==
    ASSUME RegistryInv, [Next]_vars
    PROVE  RegistryInv'
<1>0. sick \subseteq Modules \cap Moody /\ started \in Seq(Modules)
  BY DEF RegistryInv, RegistryTyped
<1>1. CASE Boot
  BY <1>1, BootKeepsTheRegistry
<1>2. CASE StartReturns \/ StartRaises
  BY <1>2, StartKeepsTheRegistry
<1>3. CASE McpAdvances \/ McpServerDies \/ Ingest
  BY <1>0, <1>3, OthersKeepTheRegistry DEF McpAdvances, McpServerDies, Ingest, registryVars
<1>4. CASE Serve \/ BeginStop \/ Stopped
  BY <1>0, <1>4, OthersKeepTheRegistry DEF Serve, BeginStop, Stopped
<1>5. CASE StopModule
  BY <1>5, StopKeepsTheRegistry
<1>6. ASSUME NEW m \in Moody, HealthChanges(m)
      PROVE  RegistryInv'
  <2>1. m \in Modules
    <3>1. Occurs(started, m)
      BY <1>0, <1>6, ToSetOccurs DEF HealthChanges
    <3>2. PICK j \in 1 .. Len(started) : started[j] = m
      BY <3>1 DEF Occurs, ComesBefore
    <3> QED
      BY <1>0, <3>2
  <2>2. sick' \subseteq Modules \cap Moody
    BY <1>0, <1>6, <2>1 DEF HealthChanges
  <2> QED
    BY <1>6, <2>2, OthersKeepTheRegistry DEF HealthChanges
<1>7. CASE Kill
  BY <1>7, KillKeepsTheRegistry
<1>8. CASE UNCHANGED vars
  BY <1>0, <1>8, OthersKeepTheRegistry DEF vars
<1> QED
  BY <1>1, <1>2, <1>3, <1>4, <1>5, <1>6, <1>7, <1>8 DEF Next, Startup, Shutdown

-----------------------------------------------------------------------------
(* The MCP module.                                                         *)

McpInv == McpTyped /\ McpIsWhereTheRegistryIs /\ ServersAreHeld

\* The server that start() is at is one of the configured.
LEMMA ServerIsOne ==
    ASSUME McpTyped, mcp.next <= Len(Servers)
    PROVE  /\ Len(Servers) \in Nat /\ mcp.next \in 1 .. Len(Servers)
           /\ Server \in ToSet(Servers)
<1>1. Servers \in Seq(ToSet(Servers)) /\ Len(Servers) \in Nat /\ DOMAIN Servers = 1 .. Len(Servers)
  BY ServersAreNamed
<1>2. mcp.next \in 1 .. Len(Servers)
  BY <1>1 DEF McpTyped
<1> QED
  BY <1>1, <1>2 DEF Server, ToSet

\* On to the next server, or the end of start().
LEMMA NextServerIs ==
    ASSUME McpTyped, Connecting, NextServer
    PROVE  /\ mcp' \in [at : {"connect", "up"}, next : 1 .. Len(Servers) + 1]
           /\ mcp'.at = "connect" <=> mcp'.next <= Len(Servers)
<1>1. Len(Servers) \in Nat /\ mcp.next \in 1 .. Len(Servers)
  BY ServerIsOne DEF McpTyped
<1>2. CASE mcp.next < Len(Servers)
  <2>1. mcp' = [at |-> "connect", next |-> mcp.next + 1]
    BY <1>2 DEF NextServer
  <2>2. mcp.next + 1 \in 1 .. Len(Servers) + 1 /\ mcp.next + 1 <= Len(Servers)
    BY <1>1, <1>2
  <2> QED
    BY <2>1, <2>2
<1>3. CASE ~(mcp.next < Len(Servers))
  <2>1. mcp' = [at |-> "up", next |-> mcp.next + 1]
    BY <1>3 DEF NextServer
  <2>2. mcp.next + 1 \in 1 .. Len(Servers) + 1 /\ ~(mcp.next + 1 <= Len(Servers))
    BY <1>1, <1>3
  <2> QED
    BY <2>1, <2>2
<1> QED
  BY <1>2, <1>3

\* start() goes from one await to the next.
LEMMA McpAdvancesWell ==
    ASSUME RegistryInv, McpInv, McpAdvances
    PROVE  McpInv'
<1>1. /\ McpStarting /\ McpStarting'
      /\ started' = started
  BY DEF McpAdvances, McpStarting, registryVars
<1>2. Mcp \notin ToSet(started)
  <2>1. todo \in Seq(Modules) /\ todo # <<>> /\ Head(todo) = Mcp
    BY <1>1 DEF RegistryInv, RegistryTyped, McpStarting
  <2>2. Occurs(todo, Mcp)
    BY <2>1, OccursTail
  <2>3. Mcp \in ToSet(todo)
    BY <2>1, <2>2, ToSetOccurs
  <2> QED
    BY <2>3 DEF RegistryInv, EachOnce
<1>3. McpIsWhereTheRegistryIs'
  BY <1>1, <1>2 DEF McpIsWhereTheRegistryIs
<1>4. Len(Servers) \in Nat
  BY ServersAreNamed
<1>5. /\ McpTyped
      /\ procs \subseteq ToSet(Servers) /\ guarded \subseteq ToSet(Servers)
      /\ procs \subseteq guarded \cup (IF mcp.at = "session" THEN {Server} ELSE {})
      /\ mcp.at = "off" => procs = {}
  BY DEF McpInv, McpTyped, ServersAreHeld
<1>6. ASSUME mcp.at = "off", McpStarts
      PROVE  McpTyped' /\ ServersAreHeld'
  <2>1. /\ procs' = {} /\ guarded' = guarded
        /\ mcp' = [at |-> IF Servers = <<>> THEN "up" ELSE "connect", next |-> 1]
    BY <1>5, <1>6 DEF McpStarts
  <2>2. Servers = <<>> <=> ~(1 <= Len(Servers))
    BY ServersAreNamed
  <2>3. 1 \in 1 .. Len(Servers) + 1
    BY <1>4
  <2>4. /\ mcp' \in [at : {"up", "connect"}, next : 1 .. Len(Servers) + 1]
        /\ mcp'.at = "connect" <=> mcp'.next <= Len(Servers)
    BY <2>1, <2>2, <2>3
  <2> QED
    BY <1>5, <2>1, <2>4 DEF McpTyped, Connecting, ServersAreHeld
<1>7. ASSUME NameRefused
      PROVE  McpTyped' /\ ServersAreHeld'
  <2>1. /\ mcp.at = "connect" /\ Server \in Misnamed /\ mcp' = [mcp EXCEPT !.at = "raised"]
        /\ procs' = procs /\ guarded' = guarded
    BY <1>7 DEF NameRefused
  <2>2. mcp.next <= Len(Servers)
    BY <1>5, <2>1 DEF McpTyped, Connecting
  <2>3. /\ mcp' \in [at : {"raised"}, next : 1 .. Len(Servers) + 1]
        /\ mcp'.next = mcp.next /\ mcp'.at = "raised"
    BY <1>5, <2>1 DEF McpTyped
  <2>4. Server' = Server
    BY <2>3 DEF Server
  <2> QED
    BY <1>5, <2>1, <2>2, <2>3, <2>4 DEF McpTyped, Connecting, ServersAreHeld
<1>8. ASSUME Spawned
      PROVE  McpTyped' /\ ServersAreHeld'
  <2>1. /\ mcp.at = "connect" /\ mcp' = [mcp EXCEPT !.at = "session"]
        /\ procs' = procs \cup {Server} /\ guarded' = guarded
    BY <1>8 DEF Spawned
  <2>2. mcp.next <= Len(Servers) /\ Server \in ToSet(Servers)
    BY <1>5, <2>1, ServerIsOne DEF McpTyped, Connecting
  <2>3. /\ mcp' \in [at : {"session"}, next : 1 .. Len(Servers) + 1]
        /\ mcp'.next = mcp.next /\ mcp'.at = "session"
    BY <1>5, <2>1 DEF McpTyped
  <2>4. Server' = Server
    BY <2>3 DEF Server
  <2> QED
    BY <1>5, <2>1, <2>2, <2>3, <2>4 DEF McpTyped, Connecting, ServersAreHeld
<1>9. ASSUME NotSpawned
      PROVE  McpTyped' /\ ServersAreHeld'
  <2>1. /\ mcp.at = "connect" /\ NextServer
        /\ procs' = procs /\ guarded' = guarded
    BY <1>9 DEF NotSpawned
  <2>2. /\ mcp' \in [at : {"connect", "up"}, next : 1 .. Len(Servers) + 1]
        /\ mcp'.at = "connect" <=> mcp'.next <= Len(Servers)
    BY <1>5, <2>1, NextServerIs DEF Connecting
  <2> QED
    BY <1>5, <2>1, <2>2 DEF McpTyped, Connecting, ServersAreHeld
<1>10. ASSUME Listed \/ ConnectFails
       PROVE  McpTyped' /\ ServersAreHeld'
  <2>1. mcp.at = "session" /\ NextServer
    BY <1>10 DEF Listed, ConnectFails
  <2>2. /\ mcp' \in [at : {"connect", "up"}, next : 1 .. Len(Servers) + 1]
        /\ mcp'.at = "connect" <=> mcp'.next <= Len(Servers)
    BY <1>5, <2>1, NextServerIs DEF Connecting
  <2>3. Server \in ToSet(Servers)
    BY <1>5, <2>1, ServerIsOne DEF McpTyped, Connecting
  <2>4. /\ procs' \subseteq guarded' /\ procs' \subseteq ToSet(Servers)
        /\ guarded' \subseteq ToSet(Servers)
    BY <1>5, <1>10, <2>1, <2>3 DEF Listed, ConnectFails
  <2> QED
    BY <2>2, <2>4 DEF McpTyped, Connecting, ServersAreHeld
<1>11. McpTyped' /\ ServersAreHeld'
  BY <1>6, <1>7, <1>8, <1>9, <1>10 DEF McpAdvances, McpStarts
<1> QED
  BY <1>3, <1>11 DEF McpInv

\* stop() of the MCP module, or of another one.
LEMMA McpStopsWell ==
    ASSUME RegistryInv, McpInv, StopModule
    PROVE  McpInv'
<1> DEFINE last == started[Len(started)]
<1>1. /\ phase = "stopping" /\ phase' = phase
      /\ IF last = Mcp THEN McpStops ELSE UNCHANGED mcpVars
  BY DEF StopModule, NextToStop
<1>2. last \in ToSet(started) /\ ToSet(started') = ToSet(started) \ {last}
  <2>1. /\ started \in Seq(Modules) /\ started # <<>>
        /\ ToSet(started') = ToSet(started) \ {last}
    BY StopKeepsTheRegistry
  <2>2. Occurs(started, last)
    BY <2>1, WithoutLast
  <2> QED
    BY <2>1, <2>2, ToSetOccurs
<1> HIDE DEF last
<1>3. ~McpStarting /\ ~McpStarting'
  BY <1>1 DEF McpStarting
<1>4. CASE last = Mcp
  <2>1. /\ procs' = procs \ guarded /\ mcp' = [mcp EXCEPT !.at = "stopped"] /\ guarded' = guarded
    BY <1>1, <1>4 DEF McpStops
  <2>2. mcp.at = "up" /\ Mcp \notin ToSet(started')
    BY <1>2, <1>4 DEF McpInv, McpIsWhereTheRegistryIs
  <2>3. procs' = {}
    BY <2>1, <2>2 DEF McpInv, ServersAreHeld
  <2>4. ~(mcp.next <= Len(Servers))
    BY <2>2 DEF McpInv, McpTyped, Connecting
  <2>5. mcp' \in [at : {"stopped"}, next : 1 .. Len(Servers) + 1] /\ mcp'.next = mcp.next
    BY <2>1 DEF McpInv, McpTyped
  <2>6. McpTyped' /\ ServersAreHeld'
    BY <2>1, <2>3, <2>4, <2>5 DEF McpInv, McpTyped, Connecting, ServersAreHeld
  <2>7. McpIsWhereTheRegistryIs'
    BY <2>2, <2>5 DEF McpIsWhereTheRegistryIs, Connecting
  <2> QED
    BY <2>6, <2>7 DEF McpInv
<1>5. CASE last # Mcp
  <2>1. UNCHANGED mcpVars /\ (Mcp \in ToSet(started') <=> Mcp \in ToSet(started))
    BY <1>1, <1>2, <1>5
  <2> QED
    BY <1>3, <2>1 DEF mcpVars, McpInv, McpTyped, Connecting, Server, ServersAreHeld,
                      McpIsWhereTheRegistryIs
<1> QED
  BY <1>4, <1>5

\* The process goes away, or a new one starts.
LEMMA McpIsOffAgain ==
    ASSUME mcp' = [at |-> "off", next |-> 1], procs' = {}, guarded' = {}, started' = <<>>
    PROVE  McpInv'
<1>1. Len(Servers) \in Nat
  BY ServersAreNamed
<1>2. 1 \in 1 .. Len(Servers) + 1
  BY <1>1
<1>3. Mcp \notin ToSet(<<>>)
  BY DEF ToSet
<1> QED
  BY <1>2, <1>3 DEF McpInv, McpTyped, Connecting, McpIsWhereTheRegistryIs, ServersAreHeld

\* The registry goes on to its next module.
LEMMA McpWaitsForTheRegistry ==
    ASSUME RegistryInv, McpInv, StartReturns \/ StartRaises
    PROVE  McpInv'
<1> DEFINE m == Head(todo)
<1>1. /\ phase = "starting" /\ phase' = phase /\ todo # <<>> /\ todo' = Tail(todo)
      /\ UNCHANGED mcpVars
  BY DEF StartReturns, StartRaises
<1>2. started \in Seq(Modules) /\ Once(started) /\ m \in Modules /\ m \notin ToSet(started)
  <2>1. todo \in Seq(Modules) /\ started \in Seq(Modules)
    BY DEF RegistryInv, RegistryTyped
  <2>2. m \in Modules /\ Occurs(todo, m)
    BY <1>1, <2>1, OccursTail
  <2>3. m \in ToSet(todo)
    BY <2>1, <2>2, ToSetOccurs
  <2> QED
    BY <2>1, <2>2, <2>3 DEF RegistryInv, EachOnce
<1>3. McpStarting <=> m = Mcp
  BY <1>1 DEF McpStarting
<1>4. CASE StartReturns
  <2>1. ToSet(started') = ToSet(started) \cup {m} /\ (m = Mcp => mcp.at = "up")
    BY <1>2, <1>4, OnceLonger DEF StartReturns
  <2> HIDE DEF m
  <2>2. McpIsWhereTheRegistryIs'
    BY <1>1, <1>3, <2>1 DEF mcpVars, McpInv, McpIsWhereTheRegistryIs, Connecting
  <2> QED
    BY <1>1, <2>2 DEF mcpVars, McpInv, McpTyped, Connecting, Server, ServersAreHeld
<1>5. CASE StartRaises
  <2>1. started' = started /\ (m = Mcp => mcp.at = "raised")
    BY <1>5 DEF StartRaises
  <2> HIDE DEF m
  <2>2. McpIsWhereTheRegistryIs'
    BY <1>1, <1>3, <2>1 DEF mcpVars, McpInv, McpIsWhereTheRegistryIs, Connecting
  <2> QED
    BY <1>1, <2>2 DEF mcpVars, McpInv, McpTyped, Connecting, Server, ServersAreHeld
<1> QED
  BY <1>4, <1>5

LEMMA McpStep ==
    ASSUME RegistryInv, McpInv, [Next]_vars
    PROVE  McpInv'
<1>1. CASE Boot \/ Kill
  BY <1>1, McpIsOffAgain DEF Boot, Kill
<1>2. CASE StartReturns \/ StartRaises
  BY <1>2, McpWaitsForTheRegistry
<1>3. CASE McpAdvances
  BY <1>3, McpAdvancesWell
<1>4. CASE StopModule
  BY <1>4, McpStopsWell
<1>5. CASE McpServerDies
  <2>1. /\ procs' \subseteq procs /\ mcp' = mcp /\ guarded' = guarded
        /\ phase' = phase /\ todo' = todo /\ started' = started
    BY <1>5 DEF McpServerDies, ServerDies, registryVars
  <2> QED
    BY <2>1 DEF McpInv, McpTyped, Connecting, Server, McpStarting, McpIsWhereTheRegistryIs,
                ServersAreHeld
<1>6. CASE \/ Serve \/ BeginStop \/ Stopped \/ Ingest \/ UNCHANGED vars
           \/ \E m \in Moody : HealthChanges(m)
  <2>1. /\ procs' = procs /\ mcp' = mcp /\ guarded' = guarded
        /\ todo' = todo /\ started' = started
        /\ phase = "starting" => phase' = phase \/ todo = <<>>
    BY <1>6 DEF Serve, BeginStop, Stopped, Ingest, HealthChanges, vars, mcpVars, registryVars
  <2>2. McpStarting => McpStarting'
    BY <2>1 DEF McpStarting
  <2> QED
    BY <2>1, <2>2 DEF McpInv, McpTyped, Connecting, Server, McpIsWhereTheRegistryIs, ServersAreHeld
<1> QED
  BY <1>1, <1>2, <1>3, <1>4, <1>5, <1>6 DEF Next, Startup, Shutdown

-----------------------------------------------------------------------------
(* The ingest store.                                                       *)

StoreInv == StoreTyped /\ FilesAreAccountedFor /\ RecordsAreRead /\ AckedAreWithinCaps

\* Fewer files have fewer bytes.
LEMMA BytesWithin ==
    ASSUME NEW f, NEW g, IsFiniteSet(Bytes(g)), DOMAIN f \subseteq DOMAIN g,
           \A id \in DOMAIN f : f[id] = g[id]
    PROVE  /\ Bytes(f) \subseteq Bytes(g) /\ IsFiniteSet(Bytes(f))
           /\ TotalBytes(f) \in Nat /\ TotalBytes(f) <= TotalBytes(g)
<1>1. Bytes(f) \subseteq Bytes(g)
  <2> SUFFICES ASSUME NEW b \in Bytes(f)
               PROVE  b \in Bytes(g)
    OBVIOUS
  <2>1. PICK id \in DOMAIN f : b \in {id} \X (1 .. f[id])
    BY DEF Bytes
  <2>2. id \in DOMAIN g /\ b \in {id} \X (1 .. g[id])
    BY <2>1
  <2> QED
    BY <2>2 DEF Bytes
<1>2. IsFiniteSet(Bytes(f)) /\ Cardinality(Bytes(f)) <= Cardinality(Bytes(g))
  BY <1>1, FS_Subset
<1> QED
  BY <1>1, <1>2, FS_CardinalityType DEF TotalBytes

\* A new file adds its bytes.
LEMMA BytesOfOneMore ==
    ASSUME NEW f, IsFiniteSet(Bytes(f)), NEW id, id \notin DOMAIN f, NEW n \in Nat,
           NEW g, DOMAIN g = DOMAIN f \cup {id}, g[id] = n, \A x \in DOMAIN f : g[x] = f[x]
    PROVE  /\ IsFiniteSet(Bytes(g))
           /\ TotalBytes(f) \in Nat /\ TotalBytes(g) \in Nat
           /\ TotalBytes(g) <= TotalBytes(f) + n
<1> DEFINE new == {id} \X (1 .. n)
<1>1. Bytes(g) = Bytes(f) \cup new
  <2>1. \A b : b \in Bytes(g) <=> \E x \in DOMAIN g : b \in {x} \X (1 .. g[x])
    BY DEF Bytes
  <2>2. \A b : b \in Bytes(f) <=> \E x \in DOMAIN f : b \in {x} \X (1 .. f[x])
    BY DEF Bytes
  <2>3. \A x \in DOMAIN f : {x} \X (1 .. f[x]) = {x} \X (1 .. g[x])
    OBVIOUS
  <2>4. new = {id} \X (1 .. g[id])
    OBVIOUS
  <2> HIDE DEF new
  <2> QED
    BY <2>1, <2>2, <2>3, <2>4
<1>2. IsFiniteSet(new) /\ Cardinality(new) = n
  <2>1. IsFiniteSet({id}) /\ Cardinality({id}) = 1
    BY FS_Singleton
  <2>2. IsFiniteSet(1 .. n) /\ Cardinality(1 .. n) = n
    <3>1. Cardinality(1 .. n) = (IF 1 > n THEN 0 ELSE n - 1 + 1) /\ IsFiniteSet(1 .. n)
      BY FS_Interval
    <3> QED
      BY <3>1
  <2>3. IsFiniteSet(new) /\ Cardinality(new) = Cardinality({id}) * Cardinality(1 .. n)
    BY <2>1, <2>2, FS_Product
  <2> QED
    BY <2>1, <2>2, <2>3
<1> HIDE DEF new
<1>3. /\ IsFiniteSet(Bytes(g))
      /\ Cardinality(Bytes(g))
           = Cardinality(Bytes(f)) + Cardinality(new) - Cardinality(Bytes(f) \cap new)
  BY <1>1, <1>2, FS_Union
<1>4. IsFiniteSet(Bytes(f) \cap new)
  BY <1>2, FS_Intersection
<1>5. /\ Cardinality(Bytes(f)) \in Nat /\ Cardinality(Bytes(g)) \in Nat
      /\ Cardinality(Bytes(f) \cap new) \in Nat
  BY <1>3, <1>4, FS_CardinalityType
<1> QED
  BY <1>2, <1>3, <1>5 DEF TotalBytes

LEMMA NextIdIsNew ==
    ASSUME IdsLeft
    PROVE  NextId \in UploadIds /\ NextId \notin DOMAIN disk /\ NextId \notin failed
BY DEF IdsLeft, NextId, Used

LEMMA EmptyStore ==
    /\ DOMAIN <<>> = {}
    /\ \A f : DOMAIN f = {} => Bytes(f) = {} /\ TotalBytes(f) = 0
BY FS_EmptySet DEF Bytes, TotalBytes

\* A write into a new file, whole or in part.
LEMMA OneMoreFile ==
    ASSUME StoreTyped, IdsLeft, NEW size \in Nat, NEW meant,
           disk' = Put(disk, NextId, [size |-> size, meant |-> meant]), failed' \subseteq UploadIds
    PROVE  /\ StoreTyped' /\ DOMAIN disk' = DOMAIN disk \cup {NextId}
           /\ disk'[NextId].size = size /\ disk'[NextId].meant = meant
           /\ \A id \in DOMAIN disk : disk'[id] = disk[id]
<1> DEFINE new == NextId
           rec == [size |-> size, meant |-> meant]
<1>1. new \in UploadIds /\ new \notin DOMAIN disk
  BY NextIdIsNew
<1>2. disk' = Put(disk, new, rec) /\ rec.size = size /\ rec.meant = meant
  OBVIOUS
<1> HIDE DEF new, rec
<1>3. /\ DOMAIN disk' = DOMAIN disk \cup {new} /\ disk'[new] = rec
      /\ \A id \in DOMAIN disk : disk'[id] = disk[id]
  BY <1>1, <1>2 DEF Put
<1>4. /\ DOMAIN DiskSizes = DOMAIN disk /\ \A id \in DOMAIN disk : DiskSizes[id] = disk[id].size
      /\ DOMAIN DiskSizes' = DOMAIN disk'
      /\ \A id \in DOMAIN disk' : DiskSizes'[id] = disk'[id].size
  BY DEF DiskSizes
<1>5. IsFiniteSet(Bytes(DiskSizes)')
  <2> DEFINE f == DiskSizes
             g == DiskSizes'
  <2>1. /\ IsFiniteSet(Bytes(f)) /\ new \notin DOMAIN f /\ DOMAIN g = DOMAIN f \cup {new}
        /\ g[new] = size /\ \A x \in DOMAIN f : g[x] = f[x]
    BY <1>1, <1>2, <1>3, <1>4 DEF StoreTyped
  <2>2. Bytes(DiskSizes)' = Bytes(g)
    BY DEF Bytes
  <2> HIDE DEF f, g
  <2>3. IsFiniteSet(Bytes(g))
    BY <2>1, BytesOfOneMore
  <2> QED
    BY <2>2, <2>3
<1>6. IsFiniteSet(DOMAIN disk')
  BY <1>3, FS_AddElement DEF StoreTyped
<1>7. StoreTyped'
  BY <1>1, <1>2, <1>3, <1>5, <1>6 DEF StoreTyped
<1> QED
  BY <1>2, <1>3, <1>7 DEF new

\* An upload that is answered with its id.
LEMMA UploadKeepsTheStore ==
    ASSUME StoreInv, Up, Up', NEW size \in Sizes, Upload(size)
    PROVE  StoreInv'
<1> DEFINE new == NextId
<1>1. /\ size \in Nat
      /\ IdsLeft /\ Admits(size)
      /\ disk' = Put(disk, new, [size |-> size, meant |-> size])
      /\ records' = Put(records, new, size)
      /\ acked' = acked \cup {new} /\ failed' = failed
  BY SizesAreNat DEF Upload
<1>2. new \notin DOMAIN disk /\ new \notin failed
  BY <1>1, NextIdIsNew
<1>3. /\ StoreTyped /\ FilesAreAccountedFor /\ RecordsAreRead /\ AckedAreWithinCaps
      /\ failed \subseteq UploadIds /\ acked \subseteq DOMAIN disk /\ new \notin acked
      /\ new \notin DOMAIN records
  BY <1>2 DEF StoreInv, StoreTyped, FilesAreAccountedFor, RecordsAreRead
<1>4. /\ StoreTyped' /\ DOMAIN disk' = DOMAIN disk \cup {new}
      /\ disk'[new].size = size /\ disk'[new].meant = size
      /\ \A id \in DOMAIN disk : disk'[id] = disk[id]
  BY <1>1, <1>3, OneMoreFile
<1> HIDE DEF new
<1>5. FilesAreAccountedFor'
  BY <1>1, <1>2, <1>3, <1>4 DEF FilesAreAccountedFor
<1>6. RecordsAreRead'
  <2>1. /\ DOMAIN records' = DOMAIN records \cup {new} /\ records'[new] = size
        /\ \A id \in DOMAIN records : records'[id] = records[id]
    BY <1>1, <1>3 DEF Put
  <2>2. \A id \in DOMAIN records : id \in DOMAIN disk /\ records[id] = disk[id].size
    BY <1>3 DEF RecordsAreRead
  <2>3. \A id \in DOMAIN records' : id \in DOMAIN disk' /\ records'[id] = disk'[id].size
    BY <1>4, <2>1, <2>2
  <2>4. acked' \subseteq DOMAIN records'
    BY <1>1, <1>3, <2>1 DEF RecordsAreRead
  <2> QED
    BY <2>3, <2>4 DEF RecordsAreRead
<1>7. /\ acked \subseteq DOMAIN records
      /\ \A id \in DOMAIN records : id \in DOMAIN disk /\ records[id] = disk[id].size
      /\ DOMAIN DiskSizes = DOMAIN disk /\ \A id \in DOMAIN disk : DiskSizes[id] = disk[id].size
      /\ DOMAIN AckedSizes = acked /\ \A id \in acked : AckedSizes[id] = disk[id].size
      /\ DOMAIN AckedSizes' = acked' /\ \A id \in acked' : AckedSizes'[id] = disk'[id].size
  BY <1>3 DEF RecordsAreRead, DiskSizes, AckedSizes
<1>8. Cardinality(acked') <= MaxFiles
  <2>1. IsFiniteSet(DOMAIN records) /\ IsFiniteSet(acked)
    <3>1. DOMAIN records \subseteq DOMAIN disk /\ IsFiniteSet(DOMAIN disk)
      BY <1>3, <1>7 DEF StoreTyped
    <3>2. IsFiniteSet(DOMAIN records)
      BY <3>1, FS_Subset
    <3> QED
      BY <1>7, <3>2, FS_Subset
  <2>2. Cardinality(acked) <= Cardinality(DOMAIN records)
    BY <1>7, <2>1, FS_Subset
  <2>3. Cardinality(acked \cup {new}) = Cardinality(acked) + 1
    BY <1>3, <2>1, FS_AddElement
  <2>4. Cardinality(acked) \in Nat /\ Cardinality(DOMAIN records) \in Nat /\ MaxFiles \in Nat
    BY <2>1, FS_CardinalityType, CapsArePositive
  <2>5. Cardinality(DOMAIN records) + 1 <= MaxFiles
    BY <1>1 DEF Admits
  <2>6. Cardinality(acked \cup {new}) <= MaxFiles
    BY <2>2, <2>3, <2>4, <2>5
  <2> QED
    BY <1>1, <2>6
<1>9. TotalBytes(AckedSizes)' <= MaxTotalBytes
  <2> DEFINE d == DiskSizes
             f == AckedSizes
             g == AckedSizes'
  <2>0. TotalBytes(AckedSizes)' = TotalBytes(g)
    BY DEF TotalBytes, Bytes
  <2>1. /\ DOMAIN d = DOMAIN disk /\ \A id \in DOMAIN disk : d[id] = disk[id].size
        /\ DOMAIN f = acked /\ \A id \in acked : f[id] = disk[id].size
        /\ DOMAIN g = acked \cup {new} /\ \A id \in acked \cup {new} : g[id] = disk'[id].size
        /\ IsFiniteSet(Bytes(d))
    BY <1>1, <1>3, <1>7 DEF StoreTyped
  <2> HIDE DEF d, f, g
  <2>2. IsFiniteSet(Bytes(records))
    BY <1>7, <2>1, BytesWithin
  <2>3. /\ IsFiniteSet(Bytes(f)) /\ TotalBytes(f) \in Nat /\ TotalBytes(f) <= TotalBytes(records)
    BY <1>7, <2>1, <2>2, BytesWithin
  <2>4. TotalBytes(g) \in Nat /\ TotalBytes(g) <= TotalBytes(f) + size
    <3>1. new \notin DOMAIN f /\ DOMAIN g = DOMAIN f \cup {new} /\ g[new] = size
          /\ \A x \in DOMAIN f : g[x] = f[x]
      BY <1>3, <1>4, <2>1
    <3> QED
      BY <1>1, <2>3, <3>1, BytesOfOneMore
  <2>5. /\ TotalBytes(records) \in Nat /\ MaxTotalBytes \in Nat
        /\ TotalBytes(records) + size <= MaxTotalBytes
    BY <1>1, <2>2, FS_CardinalityType, CapsArePositive DEF Admits, TotalBytes
  <2>6. TotalBytes(g) <= MaxTotalBytes
    BY <1>1, <2>3, <2>4, <2>5
  <2> QED
    BY <2>0, <2>6
<1>10. AckedAreWithinCaps'
  BY <1>8, <1>9 DEF AckedAreWithinCaps
<1> QED
  BY <1>4, <1>5, <1>6, <1>10 DEF StoreInv

\* The clients' files are as they were.
LEMMA SameClientsFiles ==
    ASSUME StoreInv, acked' = acked, \A id \in acked : disk'[id] = disk[id]
    PROVE  AckedAreWithinCaps' /\ \A id \in acked' : disk'[id].size = disk'[id].meant
<1>1. AckedSizes' = AckedSizes
  BY DEF AckedSizes
<1>2. TotalBytes(AckedSizes)' = TotalBytes(AckedSizes')
  BY DEF TotalBytes, Bytes
<1> QED
  BY <1>1, <1>2 DEF StoreInv, AckedAreWithinCaps, FilesAreAccountedFor

\* An upload that fails, or that the process does not survive.
LEMMA CutOffKeepsTheStore ==
    ASSUME StoreInv, NEW size \in Sizes, CutOff(size),
           \/ records' = records /\ (Up' => Up)
           \/ records' = <<>> /\ ~Up'
    PROVE  StoreInv'
<1> DEFINE new == NextId
<1>1. size \in Nat /\ IdsLeft /\ failed' = failed \cup {new} /\ acked' = acked
  BY SizesAreNat DEF CutOff
<1>2. new \in UploadIds /\ new \notin DOMAIN disk /\ new \notin failed
  BY <1>1, NextIdIsNew
<1>3. /\ StoreTyped /\ failed' \subseteq UploadIds /\ acked = DOMAIN disk \ failed
      /\ \A id \in DOMAIN records : id \in DOMAIN disk /\ records[id] = disk[id].size
  BY <1>1, <1>2 DEF StoreInv, StoreTyped, FilesAreAccountedFor, RecordsAreRead
<1>4. /\ StoreTyped' /\ DOMAIN disk \subseteq DOMAIN disk'
      /\ DOMAIN disk' \subseteq DOMAIN disk \cup {new}
      /\ \A id \in DOMAIN disk : disk'[id] = disk[id]
  <2>1. CASE disk' = disk
    BY <1>3, <2>1 DEF StoreTyped, DiskSizes, Bytes
  <2>2. CASE \E part \in 0 .. size : disk' = Put(disk, NextId, [size |-> part, meant |-> size])
    <3>1. PICK part \in 0 .. size : disk' = Put(disk, NextId, [size |-> part, meant |-> size])
      BY <2>2
    <3>2. part \in Nat
      BY <1>1
    <3> QED
      BY <1>1, <1>3, <3>1, <3>2, OneMoreFile
  <2> QED
    BY <2>1, <2>2 DEF CutOff
<1> HIDE DEF new
<1>5. AckedAreWithinCaps' /\ \A id \in acked' : disk'[id].size = disk'[id].meant
  BY <1>1, <1>3, <1>4, SameClientsFiles
<1>6. FilesAreAccountedFor'
  BY <1>1, <1>2, <1>3, <1>4, <1>5 DEF FilesAreAccountedFor
<1>7. RecordsAreRead'
  <2>1. CASE records' = records /\ (Up' => Up)
    BY <1>1, <1>3, <1>4, <2>1 DEF StoreInv, RecordsAreRead
  <2>2. CASE records' = <<>> /\ ~Up'
    BY <2>2, EmptyStore DEF RecordsAreRead
  <2> QED
    BY <2>1, <2>2
<1> QED
  BY <1>4, <1>5, <1>6, <1>7 DEF StoreInv

\* Nothing happens to the disk: the records are kept, read back, or lost with the
\* process.
LEMMA SameDiskKeepsTheStore ==
    ASSUME StoreInv, UNCHANGED <<disk, acked, failed>>,
           \/ records' = records /\ (Up' => Up)
           \/ records' = [id \in DOMAIN disk |-> disk[id].size]
           \/ records' = <<>> /\ ~Up'
    PROVE  StoreInv'
<1>1. StoreTyped'
  BY DEF StoreInv, StoreTyped, DiskSizes, Bytes
<1>2. FilesAreAccountedFor'
  BY DEF StoreInv, FilesAreAccountedFor
<1>3. AckedAreWithinCaps'
  BY SameClientsFiles
<1>4. RecordsAreRead'
  <2>1. CASE records' = records /\ (Up' => Up)
    BY <2>1 DEF StoreInv, RecordsAreRead
  <2>2. CASE records' = [id \in DOMAIN disk |-> disk[id].size]
    BY <2>2 DEF StoreInv, RecordsAreRead, FilesAreAccountedFor
  <2>3. CASE records' = <<>> /\ ~Up'
    BY <2>3, EmptyStore DEF RecordsAreRead
  <2> QED
    BY <2>1, <2>2, <2>3
<1> QED
  BY <1>1, <1>2, <1>3, <1>4 DEF StoreInv

LEMMA StoreStep ==
    ASSUME StoreInv, [Next]_vars
    PROVE  StoreInv'
<1>1. CASE Boot
  BY <1>1, SameDiskKeepsTheStore DEF Boot, Rebuild
<1>2. ASSUME Ingest
      PROVE  StoreInv'
  <2>1. Up /\ Up'
    BY <1>2 DEF Ingest, registryVars, Up
  <2>2. PICK size \in Sizes : Upload(size) \/ UploadFails(size)
    BY <1>2 DEF Ingest
  <2> QED
    BY <2>1, <2>2, UploadKeepsTheStore, CutOffKeepsTheStore DEF UploadFails
<1>3. ASSUME Kill
      PROVE  StoreInv'
  <2>1. ~Up'
    BY <1>3 DEF Kill, Up
  <2>2. CASE Killed
    BY <2>1, <2>2, SameDiskKeepsTheStore DEF Killed
  <2>3. CASE \E size \in Sizes : KilledInUpload(size)
    BY <2>1, <2>3, CutOffKeepsTheStore DEF KilledInUpload
  <2> QED
    BY <1>3, <2>2, <2>3 DEF Kill
<1>4. CASE \/ Startup \/ BeginStop \/ Shutdown \/ McpServerDies \/ UNCHANGED vars
           \/ \E m \in Moody : HealthChanges(m)
  <2>1. UNCHANGED <<disk, records, acked, failed>> /\ (Up' => Up)
    BY <1>4 DEF Startup, StartReturns, StartRaises, McpAdvances, Serve, BeginStop, Shutdown,
                StopModule, Stopped, McpServerDies, HealthChanges, registryVars, ingestVars,
                vars, Up
  <2> QED
    BY <2>1, SameDiskKeepsTheStore
<1> QED
  BY <1>1, <1>2, <1>3, <1>4 DEF Next

-----------------------------------------------------------------------------
(* The process.                                                            *)

ServerInv == RegistryInv /\ McpInv /\ StoreInv

LEMMA ServerStarts == Init => ServerInv
<1> SUFFICES ASSUME Init
             PROVE  ServerInv
  OBVIOUS
<1>1. /\ phase = "off" /\ todo = <<>> /\ started = <<>> /\ errors = {} /\ sick = {} /\ boots = 0
      /\ mcp = [at |-> "off", next |-> 1] /\ procs = {} /\ guarded = {}
      /\ disk = <<>> /\ records = <<>> /\ acked = {} /\ failed = {}
  BY DEF Init, McpInit, IngestInit
<1>2. RegistryInv
  <2>1. 0 \in 0 .. MaxBoots /\ <<>> \in Seq(Modules)
    BY BootsBound
  <2>2. RegistryTyped
    BY <1>1, <2>1 DEF RegistryTyped
  <2>3. EachOnce /\ InPlace
    BY <1>1 DEF EachOnce, Once, ToSet, InPlace, RestsOn
  <2> QED
    BY <2>2, <2>3 DEF RegistryInv
<1>3. McpInv
  <2>1. Len(Servers) \in Nat
    BY ServersAreNamed
  <2>2. 1 \in 1 .. Len(Servers) + 1
    BY <2>1
  <2>3. Mcp \notin ToSet(<<>>)
    BY DEF ToSet
  <2> QED
    BY <1>1, <2>2, <2>3 DEF McpInv, McpTyped, Connecting, McpIsWhereTheRegistryIs, ServersAreHeld
<1>4. StoreInv
  <2>1. DOMAIN disk = {} /\ DOMAIN records = {} /\ acked = {} /\ failed = {}
    BY <1>1, EmptyStore
  <2>2. Bytes(DiskSizes) = {} /\ TotalBytes(AckedSizes) = 0
    <3>1. DOMAIN DiskSizes = {} /\ DOMAIN AckedSizes = {}
      BY <2>1 DEF DiskSizes, AckedSizes
    <3> QED
      BY <3>1, EmptyStore
  <2>3. IsFiniteSet({}) /\ Cardinality({}) = 0
    BY FS_EmptySet
  <2>4. StoreTyped
    BY <2>1, <2>2, <2>3 DEF StoreTyped
  <2>5. AckedAreWithinCaps
    BY <2>1, <2>2, <2>3, CapsArePositive DEF AckedAreWithinCaps
  <2> QED
    BY <2>1, <2>4, <2>5 DEF StoreInv, FilesAreAccountedFor, RecordsAreRead
<1> QED
  BY <1>2, <1>3, <1>4 DEF ServerInv

\* Whatever is registered without a cycle, whatever raises, falls ill or is killed,
\* in every state of every process the registry, the MCP module and the store
\* are as the invariant says.
THEOREM ServerInvariance == Spec => []ServerInv
<1>1. Init => ServerInv
  BY ServerStarts
<1>2. ServerInv /\ [Next]_vars => ServerInv'
  BY RegistryStep, McpStep, StoreStep DEF ServerInv
<1> QED
  BY <1>1, <1>2, PTL DEF Spec

-----------------------------------------------------------------------------
(* What it is for. *)

\* A module whose dependencies start before it runs on modules that run; what is
\* offered can be used, all the way down.
LEMMA ModulesRest == ServerInv => ModulesRestOnTheirDependencies
<1> SUFFICES ASSUME ServerInv
             PROVE  ModulesRestOnTheirDependencies
  OBVIOUS
<1>1. /\ started \in Seq(Modules) /\ todo \in Seq(Modules)
      /\ errors \subseteq Modules /\ sick \subseteq Modules \cap Moody
      /\ boots \in 0 .. MaxBoots /\ phase \in {"off", "starting", "serving", "stopping", "stopped"}
      /\ errors \cap ToSet(started) = {} /\ RestsOn(started, errors)
  BY DEF ServerInv, RegistryInv, RegistryTyped, EachOnce, InPlace
<1>2. \A x : x \in ToSet(started) <=> Occurs(started, x)
  BY <1>1, ToSetOccurs
<1>3. ToSet(started) \subseteq Modules /\ ToSet(todo) \subseteq Modules
  <2>1. \A s \in Seq(Modules) : \A i \in DOMAIN s : s[i] \in Modules
    OBVIOUS
  <2> QED
    BY <1>1, <2>1 DEF ToSet
<1>4. TypeOK
  <2>1. /\ mcp.at \in {"off", "connect", "session", "up", "raised", "stopped"}
        /\ mcp.next \in 1 .. Len(Servers) + 1
        /\ mcp.at \in {"connect", "session"}
             <=> mcp.next <= Len(Servers) /\ mcp.at \notin {"off", "raised"}
        /\ procs \subseteq ToSet(Servers) /\ guarded \subseteq ToSet(Servers)
    BY DEF ServerInv, McpInv, McpTyped, Connecting
  <2>2. /\ DOMAIN disk \subseteq UploadIds /\ DOMAIN records \subseteq UploadIds
        /\ acked \subseteq UploadIds /\ failed \subseteq UploadIds
    BY DEF ServerInv, StoreInv, StoreTyped, FilesAreAccountedFor, RecordsAreRead
  <2> QED
    BY <1>1, <1>3, <2>1, <2>2 DEF TypeOK
<1>5. NothingOutlivesADependency
  <2> SUFFICES ASSUME NEW m \in ToSet(started),
                      NEW dep \in ToSet(Registration.deps[m]) \cap Modules
               PROVE  dep \in ToSet(started) \/ dep \in errors
    BY DEF NothingOutlivesADependency
  <2>1. PICK k \in 1 .. Len(started) : started[k] = m
    BY <1>2 DEF Occurs, ComesBefore
  <2>2. dep \in errors \/ ComesBefore(started, dep, k)
    BY <1>1, <2>1 DEF RestsOn, Deps, Modules
  <2>3. ComesBefore(started, dep, k) => Occurs(started, dep)
    <3>1. \A j \in 1 .. Len(started) : j < Len(started) + 1
      BY <1>1
    <3> QED
      BY <3>1 DEF Occurs, ComesBefore
  <2> QED
    BY <1>2, <2>2, <2>3
<1>6. OfferedMeansUsable
  <2> SUFFICES ASSUME NEW cap \in AvailableCapabilities(Registration, Healthy)
               PROVE  \E m \in ToSet(started) :
                         /\ cap \in ToSet(Registration.caps[m]) /\ m \notin sick
                         /\ \A dep \in ToSet(Registration.deps[m]) :
                               dep \in ToSet(started) \ sick /\ dep \notin errors
    BY DEF OfferedMeansUsable
  <2>1. PICK m \in Names(Registration) :
           IsAvailable(Registration, Healthy, m) /\ cap \in ToSet(Registration.caps[m])
    BY DEF AvailableCapabilities
  <2> DEFINE a == Available(Registration, Healthy)
  <2>2. \A n \in Names(Registration), V \in SUBSET Names(Registration) :
           a[[name |-> n, visiting |-> V]]
              <=> \/ n \in V
                  \/ /\ n \in Healthy
                     /\ \A dep \in ToSet(Registration.deps[n]) :
                           dep \in Names(Registration)
                           /\ a[[name |-> dep, visiting |-> V \cup {n}]]
    BY TheRegistration, AvailableUnfolds DEF IsRegistration
  <2>3. a[[name |-> m, visiting |-> {}]]
    BY <2>1 DEF IsAvailable
  <2> HIDE DEF a
  <2>4. /\ m \in Healthy
        /\ \A dep \in ToSet(Registration.deps[m]) :
              dep \in Names(Registration) /\ a[[name |-> dep, visiting |-> {m}]]
    <3>1. {} \cup {m} = {m} /\ m \notin {}
      OBVIOUS
    <3> QED
      BY <2>1, <2>2, <2>3, <3>1
  <2>5. \A dep \in ToSet(Registration.deps[m]) : dep \in Healthy
    BY <2>1, <2>2, <2>4
  <2>6. \A x \in Healthy : x \in ToSet(started) \ sick /\ x \notin errors
    BY <1>1, McpIsNotMoody DEF Healthy
  <2> QED
    BY <2>1, <2>4, <2>5, <2>6
<1> QED
  BY <1>4, <1>5, <1>6 DEF ModulesRestOnTheirDependencies

\* registry.py and gateway.py: start in dependency order, stop in reverse, offer
\* what is available.
THEOREM ModulesAlwaysRest == Spec => []ModulesRestOnTheirDependencies
BY ModulesRest, ServerInvariance, PTL

LEMMA TheStoreIsKept == ServerInv => StoreIsSound
<1> SUFFICES ASSUME ServerInv
             PROVE  StoreIsSound
  OBVIOUS
<1>1. /\ StoreTyped /\ FilesAreAccountedFor /\ RecordsAreRead /\ AckedAreWithinCaps
  BY DEF ServerInv, StoreInv
<1>2. Up => RecordsMatchDisk /\ AckedFilesAreWhole
  BY <1>1 DEF FilesAreAccountedFor, RecordsAreRead, RecordsMatchDisk, AckedFilesAreWhole
<1>3. OnlyFailedWritesOverrun
  <2> DEFINE kept == DOMAIN records \ failed
             sound == Restrict(records, kept)
             f == AckedSizes
             d == DiskSizes
  <2>1. kept \subseteq acked
    BY <1>1 DEF FilesAreAccountedFor, RecordsAreRead
  <2>2. DOMAIN sound = kept /\ \A id \in kept : sound[id] = records[id]
    BY DEF Restrict
  <2>3. /\ DOMAIN f = acked /\ \A id \in acked : f[id] = disk[id].size
        /\ DOMAIN d = DOMAIN disk /\ \A id \in DOMAIN disk : d[id] = disk[id].size
    BY DEF AckedSizes, DiskSizes
  <2>4. /\ acked \subseteq DOMAIN disk /\ IsFiniteSet(DOMAIN disk) /\ IsFiniteSet(Bytes(d))
        /\ \A id \in kept : records[id] = disk[id].size
        /\ Cardinality(acked) <= MaxFiles /\ TotalBytes(f) <= MaxTotalBytes
    BY <1>1 DEF StoreTyped, FilesAreAccountedFor, RecordsAreRead, AckedAreWithinCaps
  <2> HIDE DEF sound, kept, f, d
  <2>5. IsFiniteSet(Bytes(f)) /\ TotalBytes(f) \in Nat
    BY <2>3, <2>4, BytesWithin
  <2>6. TotalBytes(sound) \in Nat /\ TotalBytes(sound) <= TotalBytes(f)
    BY <2>1, <2>2, <2>3, <2>4, <2>5, BytesWithin
  <2>7. /\ Cardinality(kept) \in Nat /\ Cardinality(acked) \in Nat
        /\ Cardinality(kept) <= Cardinality(acked)
    <3>1. IsFiniteSet(acked)
      BY <2>4, FS_Subset
    <3> QED
      BY <2>1, <3>1, FS_Subset, FS_CardinalityType
  <2>8. Cardinality(kept) <= MaxFiles /\ TotalBytes(sound) <= MaxTotalBytes
    BY <2>4, <2>5, <2>6, <2>7, CapsArePositive
  <2> QED
    BY <2>2, <2>8 DEF OnlyFailedWritesOverrun, sound, kept
<1> QED
  BY <1>2, <1>3 DEF StoreIsSound

\* ingest.py: the records are those of the disk after any restart, no id that was
\* given out is lost, and the caps hold but for what failed writes have left.
THEOREM StoreIsAlwaysSound == Spec => []StoreIsSound
BY TheStoreIsKept, ServerInvariance, PTL

LEMMA ServersAreClosed == ServerInv => ShutdownClosesServers
<1> SUFFICES ASSUME ServerInv
             PROVE  ShutdownClosesServers
  OBVIOUS
<1>1. McpTyped /\ McpIsWhereTheRegistryIs /\ ServersAreHeld
  BY DEF ServerInv, McpInv
<1>2. phase = "stopped" => started = <<>> /\ ~McpStarting
  BY DEF ServerInv, RegistryInv, InPlace, McpStarting
<1>3. Mcp \notin ToSet(<<>>)
  BY DEF ToSet
<1>4. phase = "stopped" => procs \subseteq (IF mcp.at = "raised" THEN guarded ELSE {})
  BY <1>1, <1>2, <1>3 DEF McpTyped, McpIsWhereTheRegistryIs, ServersAreHeld, Connecting
<1>5. mcp.at = "raised" => \E s \in ToSet(Servers) : s \in Misnamed
  BY <1>1, ServersAreNamed DEF McpTyped
<1>6. procs \subseteq guarded \/ mcp.at = "session"
  BY <1>1 DEF ServersAreHeld
<1> QED
  BY <1>4, <1>5, <1>6 DEF ShutdownClosesServers

\* mcp/module.py: after an orderly stop no server's subprocess runs on, unless a
\* misnamed server made the start raise.
THEOREM ShutdownAlwaysClosesServers == Spec => []ShutdownClosesServers
BY ServersAreClosed, ServerInvariance, PTL
=============================================================================
