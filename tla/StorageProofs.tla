----------------------------- MODULE StorageProofs -----------------------------
(***************************************************************************)
(* What the detection of the storage comes to, for every mount table and   *)
(* every graph of block devices, cyclic ones included: the class found by  *)
(* the walk from a node is the slowest of all the devices it is built on,  *)
(* and the slots are those of the slowest endpoint.                        *)
(***************************************************************************)
EXTENDS CommandLine, ManifestProofs

Classifies(sys, f) == f = [visit \in Visits(sys) |-> ClassOfVisit(sys, f, visit)]

(* The recursion, named.                                                    *)
LEMMA ClassifyNodeIs ==
    ASSUME NEW sys, NEW root
    PROVE  ClassifyNode(sys, root) = (CHOOSE f : Classifies(sys, f))[<<root, {}>>]
BY DEF ClassifyNode, Classifies

(* _combine_backing_devices yields one of the classes, of least capacity.   *)
LEMMA CombineIs ==
    ASSUME NEW S \in SUBSET Classes, S # {}
    PROVE  /\ CombineBacking(S) \in S
           /\ \A c \in S : Capacity[CombineBacking(S)] =< Capacity[c]
<1> DEFINE slowest == {c \in S : \A d \in S : Capacity[c] =< Capacity[d]}
<1>1. /\ Capacity["hdd"] = 1 /\ Capacity["ssd"] = 2 /\ Capacity["nvme"] = 4
      /\ Capacity["unknown"] = 2
  BY DEF Capacity
<1>2. slowest # {}
  <2>1. CASE "hdd" \in S
    BY <1>1, <2>1 DEF Classes
  <2>2. CASE "hdd" \notin S /\ "unknown" \in S
    BY <1>1, <2>2 DEF Classes
  <2>3. CASE "hdd" \notin S /\ "unknown" \notin S /\ "ssd" \in S
    BY <1>1, <2>3 DEF Classes
  <2>4. CASE S = {"nvme"}
    BY <1>1, <2>4
  <2> QED  BY <2>1, <2>2, <2>3, <2>4 DEF Classes
<1>3. CombineBacking(S) = IF "unknown" \in slowest THEN "unknown" ELSE CHOOSE c \in slowest : TRUE
  BY DEF CombineBacking
<1> QED  BY <1>2, <1>3

(* A visit is of a node and a set of nodes.                                 *)
LEMMA Pairs ==
    ASSUME NEW D
    PROVE  /\ \A v \in D \X SUBSET D : v[1] \in D /\ v[2] \subseteq D /\ v = <<v[1], v[2]>>
           /\ \A n \in D, A \in SUBSET D : <<n, A>> \in D \X SUBSET D
OBVIOUS

(* A visit is a node of the stack with the set of nodes entered above it.    *)
LEMMA VisitsAre ==
    ASSUME NEW sys
    PROVE  /\ \A v \in Visits(sys) : /\ v[1] \in DOMAIN sys.slaves /\ v[2] \subseteq DOMAIN sys.slaves
                                     /\ v = <<v[1], v[2]>>
           /\ \A n \in DOMAIN sys.slaves, A \in SUBSET DOMAIN sys.slaves :
                <<n, A>> \in Visits(sys)
BY Pairs, Zenon DEF Visits

(* A visit below another one has one ancestor more.                         *)
LEMMA VisitBelow ==
    ASSUME NEW sys, ProperSys(sys), NEW v \in Visits(sys), v[1] \notin v[2],
           NEW s \in sys.slaves[v[1]], s # "broken"
    PROVE  /\ <<s, v[2] \union {v[1]}>> \in Visits(sys)
           /\ Cardinality(v[2]) \in Nat /\ IsFiniteSet(v[2])
           /\ Cardinality(v[2] \union {v[1]}) = Cardinality(v[2]) + 1
<1>1. v[1] \in DOMAIN sys.slaves /\ v[2] \subseteq DOMAIN sys.slaves
  BY VisitsAre
<1>2. IsFiniteSet(DOMAIN sys.slaves) /\ s \in DOMAIN sys.slaves
  BY <1>1 DEF ProperSys
<1>3. IsFiniteSet(v[2])
  BY <1>1, <1>2, FS_Subset
<1>4. Cardinality(v[2]) \in Nat
  BY <1>3, FS_CardinalityType
<1>5. Cardinality(v[2] \union {v[1]}) = Cardinality(v[2]) + 1
  BY <1>3, FS_AddElement
<1>6. v[2] \union {v[1]} \in SUBSET DOMAIN sys.slaves
  BY <1>1
<1> QED  BY <1>2, <1>3, <1>4, <1>5, <1>6, VisitsAre

(* A class is found for a visit when one is found for those below it.       *)
LEMMA ClassOfVisitIs ==
    ASSUME NEW sys, ProperSys(sys), NEW f, NEW v \in Visits(sys),
           \A w \in Visits(sys) :
                Cardinality(w[2]) > Cardinality(v[2]) => f[w] \in Classes
    PROVE  /\ ClassOfVisit(sys, f, v) \in Classes
           /\ v[1] \in v[2] => ClassOfVisit(sys, f, v) = "unknown"
           /\ v[1] \notin v[2] /\ QueueOwner(sys, v[1]) # "none" =>
                ClassOfVisit(sys, f, v) = QueueClass(sys, v[1])
           /\ v[1] \notin v[2] /\ QueueOwner(sys, v[1]) = "none" =>
                LET below == {s \in sys.slaves[v[1]] : s # "broken"}
                    class == ClassOfVisit(sys, f, v)
                IN  /\ \/ class = "unknown"
                             /\ (sys.slaves[v[1]] = {} \/ "broken" \in sys.slaves[v[1]])
                       \/ \E s \in below : class = f[<<s, v[2] \union {v[1]}>>]
                    /\ \A s \in below : Capacity[class] =< Capacity[f[<<s, v[2] \union {v[1]}>>]]
                    /\ sys.slaves[v[1]] = {} => class = "unknown"
                    /\ "broken" \in sys.slaves[v[1]] => Capacity[class] =< Capacity["unknown"]
<1> DEFINE node == v[1]
           value(s) == IF s = "broken" THEN "unknown" ELSE f[<<s, v[2] \union {v[1]}>>]
           values == {value(s) : s \in sys.slaves[node]}
<1>1. CASE node \in v[2]
  BY <1>1 DEF ClassOfVisit, Classes
<1>2. CASE node \notin v[2] /\ QueueOwner(sys, node) # "none"
  BY <1>2 DEF ClassOfVisit, QueueClass, Classes
<1>3. CASE node \notin v[2] /\ QueueOwner(sys, node) = "none" /\ sys.slaves[node] = {}
  BY <1>3 DEF ClassOfVisit, Classes
<1>4. CASE node \notin v[2] /\ QueueOwner(sys, node) = "none" /\ sys.slaves[node] # {}
  <2>1. \A s \in sys.slaves[node] : value(s) \in Classes
    <3>1. TAKE s \in sys.slaves[node]
    <3>2. CASE s = "broken"
      BY <3>2 DEF Classes
    <3>3. CASE s # "broken"
      BY <1>4, <3>3, VisitBelow
    <3> QED  BY <3>2, <3>3
  <2>2. values \subseteq Classes /\ values # {}
    BY <1>4, <2>1
  <2>3. ClassOfVisit(sys, f, v) = CombineBacking(values)
    BY <1>4 DEF ClassOfVisit
  <2> HIDE DEF values
  <2>4. /\ CombineBacking(values) \in values
        /\ \A c \in values : Capacity[CombineBacking(values)] =< Capacity[c]
    BY <2>2, CombineIs
  <2>5. \A s \in sys.slaves[node] : value(s) \in values
    BY DEF values
  <2>6. \E s \in sys.slaves[node] : CombineBacking(values) = value(s)
    BY <2>4 DEF values
  <2> QED  BY <1>4, <2>2, <2>3, <2>4, <2>5, <2>6
<1> QED  BY <1>1, <1>2, <1>3, <1>4

(* Two functions that agree below a visit give it the same class.           *)
LEMMA SameBelow ==
    ASSUME NEW sys, ProperSys(sys), NEW f, NEW g, NEW v \in Visits(sys),
           \A w \in Visits(sys) : Cardinality(w[2]) > Cardinality(v[2]) => f[w] = g[w]
    PROVE  ClassOfVisit(sys, f, v) = ClassOfVisit(sys, g, v)
<1>1. CASE v[1] \in v[2]
  BY <1>1 DEF ClassOfVisit
<1>2. CASE v[1] \notin v[2]
  <2>1. \A s \in sys.slaves[v[1]] :
            s # "broken" => f[<<s, v[2] \union {v[1]}>>] = g[<<s, v[2] \union {v[1]}>>]
    <3>1. SUFFICES ASSUME NEW s \in sys.slaves[v[1]], s # "broken"
                   PROVE  f[<<s, v[2] \union {v[1]}>>] = g[<<s, v[2] \union {v[1]}>>]
      OBVIOUS
    <3> QED  BY <1>2, <3>1, VisitBelow
  <2> DEFINE value(h, s) == IF s = "broken" THEN "unknown" ELSE h[<<s, v[2] \union {v[1]}>>]
  <2>2. \A s \in sys.slaves[v[1]] : value(f, s) = value(g, s)
    BY <2>1
  <2>3. {value(f, s) : s \in sys.slaves[v[1]]} = {value(g, s) : s \in sys.slaves[v[1]]}
    BY <2>2
  <2> QED  BY <1>2, <2>3 DEF ClassOfVisit
<1> QED  BY <1>1, <1>2

(* The recursion ends: no way through the block devices is longer than      *)
(* there are devices, as a node seen twice is a cycle. So some function     *)
(* satisfies its equation, and each such function yields classes.           *)
Settles(sys, f, n) ==
    \A v \in Visits(sys) : Cardinality(v[2]) + n > Cardinality(DOMAIN sys.slaves) =>
                                f[v] = ClassOfVisit(sys, f, v)

(* One more unfolding of ClassifyNode settles the visits one level higher.   *)
LEMMA SettlesMore ==
    ASSUME NEW sys, ProperSys(sys), NEW n \in Nat,
           NEW f \in [Visits(sys) -> Classes], Settles(sys, f, n)
    PROVE  LET g == [v \in Visits(sys) |-> ClassOfVisit(sys, f, v)]
           IN  g \in [Visits(sys) -> Classes] /\ Settles(sys, g, n + 1)
<1> DEFINE g == [v \in Visits(sys) |-> ClassOfVisit(sys, f, v)]
<1>1. \A v \in Visits(sys) : Cardinality(v[2]) \in Nat
  <2>1. TAKE v \in Visits(sys)
  <2>2. IsFiniteSet(v[2])
    BY VisitsAre, FS_Subset DEF ProperSys
  <2> QED  BY <2>2, FS_CardinalityType
<1>2. Cardinality(DOMAIN sys.slaves) \in Nat
  BY FS_CardinalityType DEF ProperSys
<1>3. g \in [Visits(sys) -> Classes]
  BY ClassOfVisitIs
<1>4. ASSUME NEW v \in Visits(sys),
             Cardinality(v[2]) + (n + 1) > Cardinality(DOMAIN sys.slaves)
      PROVE  ClassOfVisit(sys, f, v) = ClassOfVisit(sys, g, v)
  <2>1. ASSUME NEW w \in Visits(sys), Cardinality(w[2]) > Cardinality(v[2])
        PROVE  f[w] = g[w]
    BY <1>1, <1>2, <1>4, <2>1 DEF Settles
  <2> HIDE DEF g
  <2> QED  BY <2>1, SameBelow
<1> QED  BY <1>3, <1>4 DEF Settles

(* The recursion ends: a table of classes solves it, since every visit has   *)
(* one ancestor more than the visit above it and there are finitely many.     *)
LEMMA Recursion ==
    ASSUME NEW sys, ProperSys(sys)
    PROVE  \E f : Classifies(sys, f)
<1> DEFINE depth == Cardinality(DOMAIN sys.slaves)
           unsettled == {n \in Nat : \A f \in [Visits(sys) -> Classes] : ~Settles(sys, f, n)}
<1>1. depth \in Nat
  BY FS_CardinalityType DEF ProperSys
<1>2. \A v \in Visits(sys) : Cardinality(v[2]) \in Nat /\ Cardinality(v[2]) =< depth
  BY <1>1, VisitsAre, FS_Subset, FS_CardinalityType DEF ProperSys
<1>3. 0 \notin unsettled
  <2> DEFINE f == [v \in Visits(sys) |-> "unknown"]
  <2>1. f \in [Visits(sys) -> Classes]
    BY DEF Classes
  <2>2. Settles(sys, f, 0)
    BY <1>1, <1>2 DEF Settles
  <2> QED  BY <2>1, <2>2
<1>4. \A n \in Nat : n \notin unsettled => n + 1 \notin unsettled
  BY SettlesMore
<1>5. unsettled = {}
  <2>1. SUFFICES ASSUME unsettled # {} PROVE FALSE
    OBVIOUS
  <2>2. unsettled \in SUBSET Nat
    OBVIOUS
  <2> HIDE DEF unsettled
  <2>3. PICK n \in unsettled : \A m \in unsettled : n =< m
    BY <2>1, <2>2, FirstPlace
  <2>4. n \in Nat /\ n - 1 \in Nat /\ n - 1 \notin unsettled /\ (n - 1) + 1 = n
    BY <1>3, <2>2, <2>3
  <2>5. (n - 1) + 1 \notin unsettled
    BY <1>4, <2>4
  <2> QED  BY <2>3, <2>4, <2>5
<1>6. PICK f \in [Visits(sys) -> Classes] : Settles(sys, f, depth + 1)
  BY <1>1, <1>5
<1>7. \A v \in Visits(sys) : f[v] = ClassOfVisit(sys, f, v)
  BY <1>1, <1>2, <1>6 DEF Settles
<1> QED  BY <1>7 DEF Classifies

(* What holds of a visit when it holds of all those with more ancestors     *)
(* holds of every visit.                                                    *)
LEMMA VisitInduction ==
    ASSUME NEW sys, ProperSys(sys), NEW Good,
           \A v \in Visits(sys) :
                (\A w \in Visits(sys) : Cardinality(w[2]) > Cardinality(v[2]) => w \in Good)
                    => v \in Good
    PROVE  Visits(sys) \subseteq Good
<1> DEFINE depth == Cardinality(DOMAIN sys.slaves)
           bad == {depth - Cardinality(v[2]) : v \in {w \in Visits(sys) : w \notin Good}}
<1>1. depth \in Nat
  BY FS_CardinalityType DEF ProperSys
<1>2. \A v \in Visits(sys) : Cardinality(v[2]) \in Nat /\ Cardinality(v[2]) =< depth
  BY <1>1, VisitsAre, FS_Subset, FS_CardinalityType DEF ProperSys
<1>3. SUFFICES ASSUME bad # {} PROVE FALSE
  OBVIOUS
<1>4. bad \in SUBSET Nat
  BY <1>1, <1>2
<1> HIDE DEF bad
<1>5. PICK least \in bad : \A k \in bad : least =< k
  BY <1>3, <1>4, FirstPlace
<1>6. PICK v \in Visits(sys) : v \notin Good /\ least = depth - Cardinality(v[2])
  BY <1>5 DEF bad
<1>7. ASSUME NEW w \in Visits(sys), Cardinality(w[2]) > Cardinality(v[2]) PROVE w \in Good
  <2>1. SUFFICES ASSUME w \notin Good PROVE FALSE
    OBVIOUS
  <2>2. depth - Cardinality(w[2]) \in bad
    BY <2>1 DEF bad
  <2>3. least =< depth - Cardinality(w[2])
    BY <1>5, <2>2
  <2> QED  BY <1>1, <1>2, <1>6, <1>7, <2>3
<1> QED  BY <1>6, <1>7

(* What _classify_node returns is a class.                                  *)
LEMMA InClasses ==
    ASSUME NEW sys, ProperSys(sys), NEW f, Classifies(sys, f)
    PROVE  \A v \in Visits(sys) : f[v] = ClassOfVisit(sys, f, v) /\ f[v] \in Classes
<1> DEFINE Good == {v \in Visits(sys) : f[v] \in Classes}
<1>1. \A v \in Visits(sys) : f[v] = ClassOfVisit(sys, f, v)
  BY DEF Classifies
<1>2. ASSUME NEW v \in Visits(sys),
             \A w \in Visits(sys) : Cardinality(w[2]) > Cardinality(v[2]) => w \in Good
      PROVE  v \in Good
  BY <1>1, <1>2, ClassOfVisitIs
<1> HIDE DEF Good
<1>3. Visits(sys) \subseteq Good
  BY <1>2, VisitInduction
<1> QED  BY <1>1, <1>3 DEF Good
-----------------------------------------------------------------------------
(* What one step from a node without a queue leads to.                      *)
Opaque(sys, n) == QueueOwner(sys, n) = "none"

Below(sys, n) == sys.slaves[n] \ {"broken"}

(* The slowest devices are below the root by the time they are reached: the *)
(* sets that Backing intersects.                                            *)
LEMMA BackingIs ==
    ASSUME NEW sys, ProperSys(sys), NEW root \in DOMAIN sys.slaves
    PROVE  /\ Backing(sys, root) \subseteq DOMAIN sys.slaves /\ root \in Backing(sys, root)
           /\ \A n \in Backing(sys, root) : Opaque(sys, n) =>
                Below(sys, n) \subseteq Backing(sys, root)
           /\ \A C \in SUBSET DOMAIN sys.slaves :
                root \in C /\ (\A n \in C : Opaque(sys, n) => Below(sys, n) \subseteq C) =>
                    Backing(sys, root) \subseteq C
<1> DEFINE closed(C) == \A n \in C : Opaque(sys, n) => Below(sys, n) \subseteq C
<1>1. Backing(sys, root) =
        {n \in DOMAIN sys.slaves :
            \A C \in SUBSET DOMAIN sys.slaves : root \in C /\ closed(C) => n \in C}
  BY DEF Backing, Opaque, Below
<1>2. \A n \in DOMAIN sys.slaves : Below(sys, n) \subseteq DOMAIN sys.slaves
  BY DEF ProperSys, Below
<1> QED  BY <1>1, <1>2

(* A node of which the walk can find out nothing: it is built on nothing,   *)
(* on something that is not there, or on itself.                            *)
Obscure(sys, n) ==
    /\ Opaque(sys, n)
    /\ \/ sys.slaves[n] = {} \/ "broken" \in sys.slaves[n]
       \/ \E s \in Below(sys, n) : n \in Backing(sys, s)

(* The capacities behind a root: those of its queues and, for what cannot be  *)
(* followed to a queue, that of an unknown device.                            *)
LEMMA CapacitiesAre ==
    ASSUME NEW sys, NEW root
    PROVE  \A c : c \in BackingCapacities(sys, root) <=>
                \/ \E n \in Backing(sys, root) : ~Opaque(sys, n) /\ c = Capacity[QueueClass(sys, n)]
                \/ c = Capacity["unknown"] /\ \E n \in Backing(sys, root) : Obscure(sys, n)
<1> DEFINE opaque == {n \in Backing(sys, root) : QueueOwner(sys, n) = "none"}
           cyclic(n) == \E s \in sys.slaves[n] \ {"broken"} : n \in Backing(sys, s)
           lost == \E n \in opaque : sys.slaves[n] = {} \/ "broken" \in sys.slaves[n] \/ cyclic(n)
<1>1. BackingCapacities(sys, root) =
        {Capacity[QueueClass(sys, n)] : n \in Backing(sys, root) \ opaque}
            \union (IF lost THEN {Capacity["unknown"]} ELSE {})
  BY DEF BackingCapacities
<1>2. lost <=> \E n \in Backing(sys, root) : Obscure(sys, n)
  BY DEF Obscure, Opaque, Below
<1> HIDE DEF lost
<1>3. \A c : c \in BackingCapacities(sys, root) <=>
                \/ \E n \in Backing(sys, root) \ opaque : c = Capacity[QueueClass(sys, n)]
                \/ lost /\ c = Capacity["unknown"]
  BY <1>1
<1> QED  BY <1>2, <1>3 DEF Opaque

(* A visit the walk from a root can make: every ancestor is built on the    *)
(* node that is visited.                                                    *)
Made(sys, root, v) ==
    /\ v[1] \in Backing(sys, root)
    /\ \A a \in v[2] : /\ a \in Backing(sys, root) /\ Opaque(sys, a)
                       /\ \E s \in Below(sys, a) : v[1] \in Backing(sys, s)

(* The visits made from a root go on to the slaves of a node without a queue. *)
LEMMA MadeBelow ==
    ASSUME NEW sys, ProperSys(sys), NEW root \in DOMAIN sys.slaves,
           NEW v \in Visits(sys), Made(sys, root, v), Opaque(sys, v[1]),
           NEW s \in Below(sys, v[1])
    PROVE  Made(sys, root, <<s, v[2] \union {v[1]}>>)
<1> DEFINE n == v[1]
           A == v[2]
<1>1. n \in DOMAIN sys.slaves /\ s \in DOMAIN sys.slaves
  BY VisitsAre DEF ProperSys, Below
<1>2. s \in Backing(sys, root) /\ n \in Backing(sys, root) /\ s \in Backing(sys, s)
  BY <1>1, BackingIs DEF Made
<1>3. ASSUME NEW a \in A
      PROVE  /\ a \in Backing(sys, root) /\ Opaque(sys, a)
             /\ \E r \in Below(sys, a) : s \in Backing(sys, r)
  <2>1. a \in Backing(sys, root) /\ Opaque(sys, a)
    BY DEF Made
  <2>2. PICK r \in Below(sys, a) : n \in Backing(sys, r)
    BY DEF Made
  <2>3. r \in DOMAIN sys.slaves
    BY <2>1, BackingIs DEF ProperSys, Below
  <2>4. s \in Backing(sys, r)
    BY <2>2, <2>3, BackingIs
  <2> QED  BY <2>1, <2>4
<1> QED  BY <1>2, <1>3 DEF Made

(* The class found is that of one of the devices, ...                       *)
LEMMA FoundBelow ==
    ASSUME NEW sys, ProperSys(sys), NEW root \in DOMAIN sys.slaves,
           NEW f, Classifies(sys, f)
    PROVE  Capacity[f[<<root, {}>>]] \in BackingCapacities(sys, root)
<1> DEFINE Good == {v \in Visits(sys) :
                        Made(sys, root, v) => Capacity[f[v]] \in BackingCapacities(sys, root)}
<1>1. ASSUME NEW v \in Visits(sys), Made(sys, root, v),
             \A w \in Visits(sys) : Cardinality(w[2]) > Cardinality(v[2]) => w \in Good
      PROVE  Capacity[f[v]] \in BackingCapacities(sys, root)
  <2>1. v[1] \in Backing(sys, root)
    BY <1>1 DEF Made
  <2>2. f[v] = ClassOfVisit(sys, f, v)
    BY InClasses
  <2>3. \A w \in Visits(sys) : f[w] \in Classes
    BY InClasses
  <2>4. CASE v[1] \in v[2]
    <3>1. Obscure(sys, v[1])
      BY <1>1, <2>4 DEF Made, Obscure
    <3>2. f[v] = "unknown"
      BY <2>2, <2>3, <2>4, ClassOfVisitIs
    <3> QED  BY <2>1, <3>1, <3>2, CapacitiesAre
  <2>5. CASE v[1] \notin v[2] /\ ~Opaque(sys, v[1])
    <3>1. f[v] = QueueClass(sys, v[1])
      BY <2>2, <2>3, <2>5, ClassOfVisitIs DEF Opaque
    <3> QED  BY <2>1, <2>5, <3>1, CapacitiesAre
  <2>6. CASE v[1] \notin v[2] /\ Opaque(sys, v[1])
    <3>1. \/ f[v] = "unknown" /\ (sys.slaves[v[1]] = {} \/ "broken" \in sys.slaves[v[1]])
          \/ \E s \in Below(sys, v[1]) : f[v] = f[<<s, v[2] \union {v[1]}>>]
      BY <2>2, <2>3, <2>6, ClassOfVisitIs DEF Opaque, Below
    <3>2. CASE f[v] = "unknown" /\ (sys.slaves[v[1]] = {} \/ "broken" \in sys.slaves[v[1]])
      <4>1. Obscure(sys, v[1])
        BY <2>6, <3>2 DEF Obscure
      <4> QED  BY <2>1, <3>2, <4>1, CapacitiesAre
    <3>3. ASSUME NEW s \in Below(sys, v[1]), f[v] = f[<<s, v[2] \union {v[1]}>>]
          PROVE  Capacity[f[v]] \in BackingCapacities(sys, root)
      <4> DEFINE w == <<s, v[2] \union {v[1]}>>
      <4>1. /\ w \in Visits(sys) /\ Cardinality(v[2]) \in Nat
            /\ Cardinality(v[2] \union {v[1]}) = Cardinality(v[2]) + 1
        BY <2>6, VisitBelow DEF Below
      <4>2. Made(sys, root, w)
        BY <1>1, <2>6, MadeBelow
      <4>3. Cardinality(w[2]) > Cardinality(v[2])
        BY <4>1
      <4> HIDE DEF w, Good
      <4>4. w \in Good
        BY <1>1, <4>1, <4>3
      <4> QED  BY <3>3, <4>2, <4>4 DEF Good, w
    <3> QED  BY <3>1, <3>2, <3>3
  <2> QED  BY <2>4, <2>5, <2>6
<1>2. \A v \in Visits(sys) :
        (\A w \in Visits(sys) : Cardinality(w[2]) > Cardinality(v[2]) => w \in Good) => v \in Good
  BY <1>1
<1> HIDE DEF Good
<1>3. Visits(sys) \subseteq Good
  BY <1>2, VisitInduction
<1>4. <<root, {}>> \in Visits(sys)
  BY VisitsAre
<1>5. Made(sys, root, <<root, {}>>)
  BY BackingIs DEF Made
<1> QED  BY <1>3, <1>4, <1>5 DEF Good

(* ... and none of them is slower: whatever is visited was compared.        *)
LEMMA NoneSlower ==
    ASSUME NEW sys, ProperSys(sys), NEW root \in DOMAIN sys.slaves,
           NEW f, Classifies(sys, f), NEW c \in BackingCapacities(sys, root)
    PROVE  Capacity[f[<<root, {}>>]] =< c
<1> DEFINE start == <<root, {}>>
           Step(v, w) == \E s \in Below(sys, v[1]) : w = <<s, v[2] \union {v[1]}>>
           Closed(W) == \A v \in W : v[1] \notin v[2] /\ Opaque(sys, v[1]) =>
                            \A s \in Below(sys, v[1]) : <<s, v[2] \union {v[1]}>> \in W
           Walk == {v \in Visits(sys) :
                        \A W \in SUBSET Visits(sys) : start \in W /\ Closed(W) => v \in W}
           Taken == {v[1] : v \in {w \in Walk : w[1] \notin w[2]}}
<1>1. start \in Visits(sys) /\ start[1] = root /\ start[2] = {}
  BY VisitsAre
<1>2. /\ Walk \subseteq Visits(sys) /\ start \in Walk /\ Closed(Walk)
      /\ \A W \in SUBSET Visits(sys) : start \in W /\ Closed(W) => Walk \subseteq W
  <2>1. ASSUME NEW v \in Visits(sys), v[1] \notin v[2], NEW s \in Below(sys, v[1])
        PROVE  <<s, v[2] \union {v[1]}>> \in Visits(sys)
    BY <2>1, VisitBelow DEF Below
  <2> QED  BY <1>1, <2>1
<1> HIDE DEF Walk, start
<1>3. ASSUME NEW v \in Walk, v[1] \notin v[2], Opaque(sys, v[1]), NEW s \in Below(sys, v[1])
      PROVE  <<s, v[2] \union {v[1]}>> \in Walk
  BY <1>2, <1>3
<1>4. ASSUME NEW v \in Walk PROVE Capacity[f[start]] =< Capacity[f[v]]
  <2> DEFINE W == {w \in Visits(sys) : Capacity[f[start]] =< Capacity[f[w]]}
  <2>1. \A w \in Visits(sys) : f[w] \in Classes /\ f[w] = ClassOfVisit(sys, f, w)
    BY InClasses
  <2>2. \A class \in Classes : Capacity[class] \in Nat
    BY DEF Classes, Capacity
  <2>3. start \in W
    BY <1>1, <2>1, <2>2
  <2>4. ASSUME NEW w \in W, w[1] \notin w[2], Opaque(sys, w[1]), NEW s \in Below(sys, w[1])
        PROVE  <<s, w[2] \union {w[1]}>> \in W
    <3> DEFINE u == <<s, w[2] \union {w[1]}>>
    <3>1. u \in Visits(sys)
      BY <2>4, VisitBelow DEF Below
    <3>2. Capacity[f[w]] =< Capacity[f[u]]
      BY <2>1, <2>4, ClassOfVisitIs DEF Opaque, Below
    <3> HIDE DEF u
    <3>3. /\ Capacity[f[start]] \in Nat /\ Capacity[f[w]] \in Nat /\ Capacity[f[u]] \in Nat
          /\ Capacity[f[start]] =< Capacity[f[w]]
      BY <1>1, <2>1, <2>2, <2>4, <3>1
    <3>4. u \in W
      BY <3>1, <3>2, <3>3
    <3> QED  BY <3>4 DEF u
  <2> HIDE DEF W
  <2>5. Closed(W)
    BY <2>4
  <2>6. Walk \subseteq W
    BY <1>2, <2>3, <2>5 DEF W
  <2> QED  BY <2>6 DEF W
<1>5. ASSUME NEW v \in Walk PROVE v[2] \subseteq Taken
  <2> DEFINE W == {w \in Walk : w[2] \subseteq Taken}
  <2>1. start \in W
    BY <1>1, <1>2
  <2>2. ASSUME NEW w \in W, w[1] \notin w[2], Opaque(sys, w[1]), NEW s \in Below(sys, w[1])
        PROVE  <<s, w[2] \union {w[1]}>> \in W
    <3>1. w[1] \in Taken /\ w \in Walk
      BY <2>2
    <3>2. <<s, w[2] \union {w[1]}>> \in Walk
      BY <1>3, <2>2
    <3> QED  BY <3>1, <3>2
  <2> HIDE DEF W
  <2>3. Closed(W)
    BY <2>2
  <2>4. Walk \subseteq W
    BY <1>2, <2>1, <2>3 DEF W
  <2> QED  BY <2>4 DEF W
<1>6. Backing(sys, root) \subseteq Taken
  <2>1. root \in Taken
    BY <1>1, <1>2
  <2>2. Taken \subseteq DOMAIN sys.slaves
    BY <1>2, VisitsAre
  <2>3. ASSUME NEW n \in Taken, Opaque(sys, n), NEW s \in Below(sys, n)
        PROVE  s \in Taken
    <3>1. PICK v \in Walk : v[1] = n /\ v[1] \notin v[2]
      BY DEF Taken
    <3> DEFINE w == <<s, v[2] \union {n}>>
    <3>2. w \in Walk /\ w[1] = s /\ w[2] = v[2] \union {n}
      BY <1>3, <2>3, <3>1
    <3> HIDE DEF w
    <3>3. CASE s \in w[2]
      BY <1>5, <3>2, <3>3
    <3>4. CASE s \notin w[2]
      BY <3>2, <3>4
    <3> QED  BY <3>3, <3>4
  <2> HIDE DEF Taken
  <2> QED  BY <2>1, <2>2, <2>3, BackingIs
<1>7. ASSUME NEW n \in Backing(sys, root)
      PROVE  \E v \in Walk : v[1] = n /\ n \notin v[2]
  BY <1>6 DEF Taken
<1>8. \A w \in Visits(sys) : f[w] \in Classes /\ f[w] = ClassOfVisit(sys, f, w)
  BY InClasses
<1>9. ASSUME NEW n \in Backing(sys, root), ~Opaque(sys, n)
      PROVE  Capacity[f[start]] =< Capacity[QueueClass(sys, n)]
  <2>1. PICK v \in Walk : v[1] = n /\ n \notin v[2]
    BY <1>7
  <2>2. f[v] = QueueClass(sys, n)
    BY <1>2, <1>8, <1>9, <2>1, ClassOfVisitIs DEF Opaque
  <2> QED  BY <1>4, <2>2
<1>10. ASSUME NEW n \in Backing(sys, root), Obscure(sys, n)
       PROVE  \E v \in Walk : Capacity[f[v]] =< Capacity["unknown"]
  <2>1. PICK v \in Walk : v[1] = n /\ n \notin v[2]
    BY <1>7
  <2>2. Capacity["unknown"] =< Capacity["unknown"]
    BY DEF Capacity
  <2>3. CASE sys.slaves[n] = {} \/ "broken" \in sys.slaves[n]
    BY <1>2, <1>8, <1>10, <2>1, <2>2, <2>3, ClassOfVisitIs DEF Obscure, Opaque
  <2>4. ASSUME NEW s \in Below(sys, n), n \in Backing(sys, s)
        PROVE  \E u \in Walk : u[1] \in u[2]
    <3>1. SUFFICES ASSUME \A u \in Walk : u[1] \notin u[2] PROVE FALSE
      OBVIOUS
    <3> DEFINE Under == {u[1] : u \in {w \in Walk : n \in w[2]}}
    <3>2. s \in Under
      <4> DEFINE w == <<s, v[2] \union {n}>>
      <4>1. w \in Walk /\ w[1] = s /\ n \in w[2]
        BY <1>3, <1>10, <2>1, <2>4 DEF Obscure
      <4> HIDE DEF w
      <4> QED  BY <4>1
    <3>3. ASSUME NEW m \in Under, Opaque(sys, m), NEW r \in Below(sys, m) PROVE r \in Under
      <4>1. PICK u \in Walk : u[1] = m /\ n \in u[2]
        BY DEF Under
      <4> DEFINE w == <<r, u[2] \union {m}>>
      <4>2. w \in Walk /\ w[1] = r /\ n \in w[2]
        BY <1>3, <3>1, <3>3, <4>1
      <4> HIDE DEF w
      <4> QED  BY <4>2
    <3>4. Under \subseteq DOMAIN sys.slaves
      BY <1>2, VisitsAre
    <3>5. s \in DOMAIN sys.slaves
      BY <1>2, <2>1, VisitsAre DEF ProperSys, Below
    <3> HIDE DEF Under
    <3>6. n \in Under
      BY <2>4, <3>2, <3>3, <3>4, <3>5, BackingIs
    <3> QED  BY <3>1, <3>6, <1>7 DEF Under
  <2>5. ASSUME NEW u \in Walk, u[1] \in u[2] PROVE f[u] = "unknown"
    BY <1>2, <1>8, <2>5, ClassOfVisitIs
  <2> QED  BY <1>10, <2>2, <2>3, <2>4, <2>5 DEF Obscure
<1>11. Capacity[f[start]] \in Nat /\ \A v \in Walk : Capacity[f[v]] \in Nat
  BY <1>1, <1>2, <1>8 DEF Classes, Capacity
<1>12. Capacity["unknown"] = 2
  BY DEF Capacity
<1>13. ASSUME NEW n \in Backing(sys, root), Obscure(sys, n)
       PROVE  Capacity[f[start]] =< Capacity["unknown"]
  BY <1>4, <1>10, <1>11, <1>12, <1>13
<1> QED  BY <1>9, <1>13, CapacitiesAre DEF start

(* A least element is the minimum.                                          *)
LEMMA MinIs ==
    ASSUME NEW S \in SUBSET Int, NEW least \in S, \A x \in S : least =< x
    PROVE  Min(S) = least
<1>1. Min(S) \in S /\ \A x \in S : Min(S) =< x
  BY DEF Min
<1>2. Min(S) =< least /\ least =< Min(S) /\ Min(S) \in Int /\ least \in Int
  BY <1>1
<1> QED  BY <1>2

(* _classify_node: the capacity of the slowest device below the node.       *)
LEMMA NodeCapacity ==
    ASSUME NEW sys, ProperSys(sys), NEW root \in DOMAIN sys.slaves
    PROVE  /\ ClassifyNode(sys, root) \in Classes
           /\ Capacity[ClassifyNode(sys, root)] = Min(BackingCapacities(sys, root))
<1> DEFINE f == CHOOSE g : Classifies(sys, g)
           class == ClassifyNode(sys, root)
<1>1. Classifies(sys, f)
  BY Recursion
<1> HIDE DEF f
<1>2. class = f[<<root, {}>>]
  BY ClassifyNodeIs DEF f
<1>3. class \in Classes
  BY <1>1, <1>2, InClasses, VisitsAre
<1> HIDE DEF class
<1>4. BackingCapacities(sys, root) \in SUBSET Int
  <2>1. \A n : QueueClass(sys, n) \in Classes
    BY DEF QueueClass, Classes
  <2>2. \A c \in Classes : Capacity[c] \in Int
    BY DEF Classes, Capacity
  <2>3. "unknown" \in Classes
    BY DEF Classes
  <2> QED  BY <2>1, <2>2, <2>3, CapacitiesAre
<1>5. Capacity[class] \in BackingCapacities(sys, root)
  BY <1>1, <1>2, FoundBelow
<1>6. \A c \in BackingCapacities(sys, root) : Capacity[class] =< c
  BY <1>1, <1>2, NoneSlower
<1>7. Capacity[class] = Min(BackingCapacities(sys, root))
  BY <1>4, <1>5, <1>6, MinIs
<1> QED  BY <1>3, <1>7 DEF class
-----------------------------------------------------------------------------
(* _nearest_existing_device: of the parents that exist one is the nearest.  *)
LEMMA NearestIs ==
    ASSUME NEW sys, ProperSys(sys), NEW path
    PROVE  \/ NearestDevice(sys, path) = "denied"
           \/ \E a \in DOMAIN sys.device : NearestDevice(sys, path) = sys.device[a]
<1> DEFINE existing == {a \in DOMAIN sys.device : IsPrefix(a, path)}
           longer(a) == {b \in existing : Len(b) > Len(a)}
           counts == {Cardinality(longer(a)) : a \in existing}
<1>1. IsFiniteSet(existing)
  BY FS_Subset DEF ProperSys
<1>2. \A a \in existing : Len(a) \in Nat
  BY DEF ProperSys
<1>3. \A a \in existing : IsFiniteSet(longer(a)) /\ Cardinality(longer(a)) \in Nat
  BY <1>1, FS_Subset, FS_CardinalityType
<1>4. CASE existing = {}
  BY <1>4 DEF NearestDevice
<1>5. CASE existing # {}
  <2>1. counts \in SUBSET Nat /\ counts # {}
    BY <1>3, <1>5
  <2> HIDE DEF counts
  <2>2. PICK least \in counts : \A k \in counts : least =< k
    BY <2>1, FirstPlace
  <2>3. PICK a \in existing : least = Cardinality(longer(a))
    BY <2>2 DEF counts
  <2> HIDE DEF existing
  <2>4. ASSUME NEW b \in existing PROVE Len(b) =< Len(a)
    <3>1. SUFFICES ASSUME Len(b) > Len(a) PROVE FALSE
      BY <1>2
    <3>2. b \in longer(a) /\ b \notin longer(b) /\ longer(b) \subseteq longer(a)
      BY <1>2, <3>1
    <3> HIDE DEF longer
    <3>3. /\ Cardinality(longer(b)) =< Cardinality(longer(a))
          /\ Cardinality(longer(b)) # Cardinality(longer(a))
      BY <1>3, <3>2, FS_Subset
    <3>4. Cardinality(longer(b)) \in counts
      BY DEF counts
    <3> QED  BY <1>3, <2>2, <2>3, <3>3, <3>4
  <2>5. (CHOOSE x \in existing : \A b \in existing : Len(b) =< Len(x)) \in existing
    BY <2>4
  <2>6. existing \subseteq DOMAIN sys.device
    BY DEF existing
  <2>7. NearestDevice(sys, path)
            = sys.device[CHOOSE x \in existing : \A b \in existing : Len(b) =< Len(x)]
    BY <1>5 DEF NearestDevice, existing
  <2> QED  BY <2>5, <2>6, <2>7
<1> QED  BY <1>4, <1>5

(* What a detection yields, once an exception has become an unknown device. *)
Answered(path) ==
    IF Detect(path).class = "raises" THEN "unknown" ELSE Detect(path).class

(* What either detector says of a path has the capacity that the devices      *)
(* behind the path allow.                                                     *)
LEMMA EndpointIs ==
    ASSUME scenario \in Scenarios, NEW path
    PROVE  /\ \E key, class : Detect(path) = Observation(key, class)
           /\ Answered(path) \in Classes
           /\ Capacity[Answered(path)] = EndpointCapacity(path)
<1> DEFINE w == scenario.world
           sys == w.sys
           v == w.volume[Head(path)]
<1>1. /\ Capacity["hdd"] = 1 /\ Capacity["ssd"] = 2 /\ Capacity["nvme"] = 4
      /\ Capacity["unknown"] = 2
  BY DEF Capacity
<1>2. \A key, class : Observation(key, class).class = class
  BY DEF Observation
<1>3. CASE path \in w.raising
  BY <1>1, <1>2, <1>3 DEF Detect, Answered, EndpointCapacity, Classes
<1>4. CASE path \notin w.raising /\ w.platform = "linux"
  <2> DEFINE device == NearestDevice(sys, path)
  <2>1. ProperSys(sys)
    BY <1>4, ScenariosAssumption
  <2>2. Detect(path) = LinuxObserve(sys, path)
    BY <1>4 DEF Detect
  <2>3. EndpointCapacity(path) =
            IF \/ device = "denied"
               \/ sys.filesystem[device] \in NetworkFilesystems
               \/ sys.node[device] = "broken" THEN 2
            ELSE Min(BackingCapacities(sys, sys.node[device]))
    BY <1>4 DEF EndpointCapacity
  <2>4. device # "denied" /\ sys.node[device] # "broken" => sys.node[device] \in DOMAIN sys.slaves
    BY <2>1, NearestIs DEF ProperSys
  <2> HIDE DEF device, sys
  <2>5. CASE \/ device = "denied" \/ sys.filesystem[device] \in NetworkFilesystems
             \/ sys.node[device] = "broken"
    <3>1. \E key : Detect(path) = Observation(key, "unknown")
      BY <2>2, <2>5 DEF LinuxObserve, Unknown, device
    <3> QED  BY <1>1, <1>2, <2>3, <2>5, <3>1 DEF Answered, Classes
  <2>6. CASE ~(\/ device = "denied" \/ sys.filesystem[device] \in NetworkFilesystems
               \/ sys.node[device] = "broken")
    <3>1. \E key : Detect(path) = Observation(key, ClassifyNode(sys, sys.node[device]))
      BY <2>2, <2>6 DEF LinuxObserve, device
    <3>2. /\ ClassifyNode(sys, sys.node[device]) \in Classes
          /\ Capacity[ClassifyNode(sys, sys.node[device])]
                = Min(BackingCapacities(sys, sys.node[device]))
      BY <2>1, <2>4, <2>6, NodeCapacity
    <3>3. "raises" \notin Classes
      BY DEF Classes
    <3> QED  BY <1>2, <2>3, <2>6, <3>1, <3>2, <3>3 DEF Answered
  <2> QED  BY <2>5, <2>6
<1>5. CASE path \notin w.raising /\ w.platform = "win32"
  <2>1. Detect(path) = WindowsObserve(v, path)
    BY <1>5 DEF Detect
  <2> DEFINE local == /\ ~v.unc /\ v.exists /\ v.api /\ v.drive \in {"fixed", "removable"}
                      /\ v.named /\ v.opens /\ v.identified /\ v.closes
  <2>2. EndpointCapacity(path) =
            IF ~local \/ Property(v.bus, 32) \in VirtualBusTypes \union {"error"} THEN 2
            ELSE IF v.bus.value = "nvme" THEN 4
            ELSE IF Property(v.seek, 9) = "yes" THEN 1 ELSE 2
    BY <1>5 DEF EndpointCapacity
  <2> DEFINE class ==
        IF ~local \/ Property(v.bus, 32) \in VirtualBusTypes \union {"error"} THEN "unknown"
        ELSE IF v.bus.value = "nvme" THEN "nvme"
        ELSE IF Property(v.seek, 9) = "yes" THEN "hdd"
        ELSE IF Property(v.seek, 9) = "no" THEN "ssd" ELSE "unknown"
  <2>3. Property(v.bus, 32) # "error" => Property(v.bus, 32) = v.bus.value
    BY DEF Property
  <2>4. QueriedClass(v) =
            IF ~v.opens \/ ~v.identified \/ ~v.closes \/ Property(v.bus, 32) = "error" THEN "error"
            ELSE IF Property(v.bus, 32) = "nvme" THEN "nvme"
            ELSE IF Property(v.bus, 32) \in VirtualBusTypes THEN "unknown"
            ELSE IF Property(v.seek, 9) = "yes" THEN "hdd"
            ELSE IF Property(v.seek, 9) = "no" THEN "ssd" ELSE "error"
    BY DEF QueriedClass
  <2>5. \E key : WindowsObserve(v, path) = Observation(key, class)
    BY <2>3, <2>4 DEF WindowsObserve, Unknown, VirtualBusTypes
  <2>6. class \in Classes /\ class # "raises" /\ Capacity[class] = EndpointCapacity(path)
    BY <1>1, <2>2 DEF Classes
  <2> HIDE DEF class
  <2> QED  BY <1>2, <2>1, <2>5, <2>6 DEF Answered
<1>6. CASE path \notin w.raising /\ w.platform \notin {"linux", "win32"}
  <2>1. \E key : Detect(path) = Observation(key, "unknown")
    BY <1>6 DEF Detect, Unknown
  <2>2. EndpointCapacity(path) = 2
    BY <1>6 DEF EndpointCapacity
  <2> QED  BY <1>1, <1>2, <2>1, <2>2 DEF Answered, Classes
<1> QED  BY <1>3, <1>4, <1>5, <1>6
-----------------------------------------------------------------------------
(* by_device of resolve_auto_io_slots: of each device the observation that  *)
(* allows least, and no other.                                              *)
LEMMA ByDeviceIs ==
    ASSUME NEW obs,
           \A o \in ToSet(obs) : \E key : \E class \in Classes : o = Observation(key, class)
    PROVE  /\ Range(ByDevice(obs)) \subseteq ToSet(obs)
           /\ \A o \in ToSet(obs) : \E least \in Range(ByDevice(obs)) :
                Capacity[least.class] =< Capacity[o.class]
<1> DEFINE ofDevice(key) == {o \in ToSet(obs) : o.key = key}
           keys == {o.key : o \in ToSet(obs)}
<1>1. /\ Capacity["hdd"] = 1 /\ Capacity["ssd"] = 2 /\ Capacity["nvme"] = 4
      /\ Capacity["unknown"] = 2
  BY DEF Capacity
<1>2. \A o \in ToSet(obs) : o.class \in {"hdd", "ssd", "nvme", "unknown"}
                           /\ o = Observation(o.key, o.class)
  BY DEF Observation, Classes
<1>3. ASSUME NEW key \in keys
      PROVE  \E o \in ofDevice(key) : \A other \in ofDevice(key) : MoreConservative(other, o) = o
  <2>1. \A o \in ofDevice(key) : o.key = key /\ o.class \in {"hdd", "ssd", "nvme", "unknown"}
    BY <1>2
  <2>2. \A o, other \in ofDevice(key) : o.class = other.class => o = other
    BY <1>2
  <2>3. ofDevice(key) # {}
    BY <1>3
  <2> HIDE DEF ofDevice
  <2>4. ASSUME NEW o \in ofDevice(key),
               \A other \in ofDevice(key) : Capacity[o.class] =< Capacity[other.class],
               \/ o.class = "unknown"
               \/ \A other \in ofDevice(key) :
                    other.class = "unknown" => Capacity[o.class] # Capacity["unknown"]
        PROVE  \A other \in ofDevice(key) : MoreConservative(other, o) = o
    <3>1. TAKE other \in ofDevice(key)
    <3>2. Capacity[o.class] \in Nat /\ Capacity[other.class] \in Nat
      BY <1>1, <2>1
    <3>3. ~(Capacity[other.class] < Capacity[o.class])
      BY <2>4, <3>2
    <3>4. CASE Capacity[other.class] = Capacity[o.class] /\ other.class = "unknown"
      BY <2>2, <2>4, <3>4 DEF MoreConservative
    <3>5. CASE ~(Capacity[other.class] = Capacity[o.class] /\ other.class = "unknown")
      BY <3>3, <3>5 DEF MoreConservative
    <3> QED  BY <3>4, <3>5
  <2>5. CASE \E o \in ofDevice(key) : o.class = "hdd"
    <3>1. PICK o \in ofDevice(key) : o.class = "hdd"
      BY <2>5
    <3>2. \A other \in ofDevice(key) : Capacity[o.class] =< Capacity[other.class]
      BY <1>1, <2>1, <3>1
    <3>3. Capacity[o.class] # Capacity["unknown"]
      BY <1>1, <3>1
    <3> QED  BY <2>4, <3>2, <3>3
  <2>6. CASE /\ \A o \in ofDevice(key) : o.class # "hdd"
             /\ \E o \in ofDevice(key) : o.class = "unknown"
    BY <1>1, <2>1, <2>4, <2>6
  <2>7. CASE /\ \A o \in ofDevice(key) : o.class \notin {"hdd", "unknown"}
             /\ \E o \in ofDevice(key) : o.class = "ssd"
    BY <1>1, <2>1, <2>4, <2>7
  <2>8. CASE \A o \in ofDevice(key) : o.class \notin {"hdd", "unknown", "ssd"}
    BY <1>1, <2>1, <2>3, <2>4, <2>8
  <2> QED  BY <2>1, <2>5, <2>6, <2>7, <2>8
<1>4. /\ DOMAIN ByDevice(obs) = keys
      /\ \A key \in keys : ByDevice(obs)[key] =
            CHOOSE o \in ofDevice(key) : \A other \in ofDevice(key) : MoreConservative(other, o) = o
  BY DEF ByDevice
<1> HIDE DEF ofDevice
<1>5. \A key \in keys : /\ ByDevice(obs)[key] \in ofDevice(key)
                        /\ \A other \in ofDevice(key) :
                              MoreConservative(other, ByDevice(obs)[key]) = ByDevice(obs)[key]
  BY <1>3, <1>4
<1>6. Range(ByDevice(obs)) = {ByDevice(obs)[key] : key \in keys}
  BY <1>4 DEF Range
<1>7. ASSUME NEW o \in ToSet(obs)
      PROVE  \E least \in Range(ByDevice(obs)) : Capacity[least.class] =< Capacity[o.class]
  <2> DEFINE least == ByDevice(obs)[o.key]
  <2>1. o \in ofDevice(o.key) /\ o.key \in keys
    BY DEF ofDevice
  <2>2. MoreConservative(o, least) = least /\ least \in ToSet(obs) /\ least \in Range(ByDevice(obs))
    BY <1>5, <1>6, <2>1 DEF ofDevice
  <2> HIDE DEF least
  <2>3. Capacity[o.class] < Capacity[least.class] => o = least
    BY <2>2 DEF MoreConservative
  <2>4. Capacity[o.class] \in Nat /\ Capacity[least.class] \in Nat
    BY <1>1, <1>2, <2>2
  <2> QED  BY <2>2, <2>3, <2>4
<1> QED  BY <1>5, <1>6, <1>7 DEF ofDevice

(* The distinct endpoints of a manifest, each once, are all of them.        *)
LEMMA ObservedAre ==
    ASSUME scenario \in Scenarios, preflight \in Seq(ToSet(preflight))
    PROVE  LET obs == ObservePaths(Endpoints, Detector)
           IN  /\ \A i \in DOMAIN Endpoints : \E o \in ToSet(obs) :
                    o.class = Answered(PathKey(Endpoints[i]))
               /\ \A o \in ToSet(obs) : \E i \in DOMAIN Endpoints : \E key :
                    o = Observation(key, Answered(PathKey(Endpoints[i])))
<1> DEFINE keys == [i \in DOMAIN Endpoints |-> PathKey(Endpoints[i])]
           unique == Picked(keys, FirstPlaces(keys))
           paths == {PathKey(Endpoints[i]) : i \in DOMAIN Endpoints}
           observed(path) == IF Detector[path].class = "raises"
                             THEN Unknown(PathDeviceKey("error", path)) ELSE Detector[path]
           obs == ObservePaths(Endpoints, Detector)
<1>1. DOMAIN Endpoints = 1..(2 * Len(preflight)) /\ 2 * Len(preflight) \in Nat
  <2>1. Len(preflight) \in Nat
    OBVIOUS
  <2> QED  BY <2>1 DEF Endpoints
<1>2. keys \in Seq(paths)
  BY <1>1
<1>3. ToSet(keys) = paths
  BY DEF ToSet
<1>4. FirstPlaces(keys) \in SUBSET (DOMAIN keys)
  BY DEF FirstPlaces
<1> HIDE DEF keys
<1>5. unique \in Seq(paths) /\ ToSet(unique) = {keys[i] : i \in FirstPlaces(keys)}
  BY <1>2, <1>4, PickedIs
<1>6. \A x \in ToSet(keys) : \E i \in FirstPlaces(keys) : keys[i] = x
  BY <1>2, FirstPlacesCover DEF ToSet
<1>7. ToSet(unique) = paths
  BY <1>3, <1>4, <1>5, <1>6 DEF ToSet
<1>8. obs = [n \in DOMAIN unique |-> observed(unique[n])]
  BY DEF ObservePaths, keys
<1> HIDE DEF unique, obs, observed, paths
<1>9. ToSet(obs) = {observed(x) : x \in paths}
  <2>1. ToSet(obs) = {observed(unique[n]) : n \in DOMAIN unique}
    BY <1>8 DEF ToSet
  <2>2. paths = {unique[n] : n \in DOMAIN unique}
    BY <1>7 DEF ToSet
  <2> QED  BY <2>1, <2>2
<1>10. ASSUME NEW x \in paths PROVE \E key : observed(x) = Observation(key, Answered(x))
  <2>1. Detector[x] = Detect(x)
    BY DEF Detector, paths
  <2>2. PICK key, class : Detect(x) = Observation(key, class)
    BY EndpointIs
  <2> QED  BY <2>1, <2>2 DEF observed, Answered, Unknown, Observation
<1>11. \A key, class : Observation(key, class).class = class
  BY DEF Observation
<1> QED  BY <1>9, <1>10, <1>11 DEF paths, obs

(* resolve_auto_io_slots: what the slowest endpoint allows.                 *)
LEMMA SlotsAre ==
    ASSUME scenario \in Scenarios, preflight \in Seq(ToSet(preflight)), preflight # << >>,
           NEW most \in Int
    PROVE  LET slots == ResolveAutoIoSlots(ObservePaths(Endpoints, Detector), most)
           IN  /\ slots = Min({EndpointCapacity(PathKey(Endpoints[i])) : i \in DOMAIN Endpoints}
                                  \union {most})
               /\ slots \in {1, 2, 4, most}
<1> DEFINE obs == ObservePaths(Endpoints, Detector)
           found == {Capacity[o.class] : o \in Range(ByDevice(obs))}
           asked == {EndpointCapacity(PathKey(Endpoints[i])) : i \in DOMAIN Endpoints}
<1>1. /\ Capacity["hdd"] = 1 /\ Capacity["ssd"] = 2 /\ Capacity["nvme"] = 4
      /\ Capacity["unknown"] = 2
  BY DEF Capacity
<1>2. /\ \A i \in DOMAIN Endpoints : \E o \in ToSet(obs) :
            o.class = Answered(PathKey(Endpoints[i]))
      /\ \A o \in ToSet(obs) : \E i \in DOMAIN Endpoints : \E key :
            o = Observation(key, Answered(PathKey(Endpoints[i])))
  BY ObservedAre
<1>3. \A i \in DOMAIN Endpoints :
        /\ Answered(PathKey(Endpoints[i])) \in Classes
        /\ Capacity[Answered(PathKey(Endpoints[i]))] = EndpointCapacity(PathKey(Endpoints[i]))
  BY EndpointIs
<1>4. 1 \in DOMAIN Endpoints
  <2>1. Len(preflight) \in Nat /\ Len(preflight) # 0
    OBVIOUS
  <2> QED  BY <2>1 DEF Endpoints
<1> HIDE DEF obs
<1>5. /\ Range(ByDevice(obs)) \subseteq ToSet(obs)
      /\ \A o \in ToSet(obs) : \E least \in Range(ByDevice(obs)) :
            Capacity[least.class] =< Capacity[o.class]
  BY <1>2, <1>3, ByDeviceIs
<1>6. obs # << >>
  <2>1. ToSet(<< >>) = {}
    BY DEF ToSet
  <2> QED  BY <1>2, <1>4, <2>1
<1>7. asked \subseteq {1, 2, 4} /\ asked # {}
  BY <1>1, <1>3, <1>4 DEF Classes
<1>8. found \subseteq asked
  BY <1>2, <1>3, <1>5 DEF Observation
<1>9. \A c \in asked : \E d \in found : d =< c
  BY <1>2, <1>3, <1>5
<1> HIDE DEF found, asked
<1>10. PICK least \in found : \A d \in found : least =< d
  <2>1. found \subseteq {1, 2, 4} /\ found # {}
    BY <1>7, <1>8, <1>9
  <2>2. CASE 1 \in found
    BY <2>1, <2>2
  <2>3. CASE 1 \notin found /\ 2 \in found
    BY <2>1, <2>3
  <2>4. CASE 1 \notin found /\ 2 \notin found
    <3>1. found = {4}
      BY <2>1, <2>4
    <3> QED  BY <3>1
  <2> QED  BY <2>2, <2>3, <2>4
<1>11. found \in SUBSET Int /\ asked \in SUBSET Int /\ least \in Int
  BY <1>7, <1>8, <1>10
<1>12. Min(found) = least
  BY <1>10, <1>11, MinIs
<1>13. \A c \in asked : least =< c
  BY <1>9, <1>10, <1>11
<1>14. ResolveAutoIoSlots(obs, most) = Smaller(least, most)
  BY <1>6, <1>12 DEF ResolveAutoIoSlots, found
<1>15. Min(asked \union {most}) = Smaller(least, most)
  <2>1. asked \union {most} \in SUBSET Int
    BY <1>11
  <2>2. Smaller(least, most) \in asked \union {most}
    BY <1>8, <1>10 DEF Smaller
  <2>3. \A c \in asked \union {most} : Smaller(least, most) =< c
    BY <1>11, <1>13 DEF Smaller
  <2> QED  BY <2>1, <2>2, <2>3, MinIs
<1>16. Smaller(least, most) \in {1, 2, 4, most}
  BY <1>7, <1>8, <1>10 DEF Smaller
<1> QED  BY <1>14, <1>15, <1>16 DEF obs, asked
=============================================================================
