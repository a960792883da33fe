--------------------------- MODULE KdTree_proofs ---------------------------
(***************************************************************************)
(* Proofs about KdTree: for any points, queries, radii and K, and for any  *)
(* tree that KdBuild comes to.                                             *)
(***************************************************************************)
EXTENDS KdTree, KdBuild_proofs, SequenceTheorems, WellFoundedInduction

(* The values sdistance comes through on its way to the distance: f[a] is   *)
(* the sum after a of the dimensions.                                       *)
Sums(q, p, k, f) ==
  /\ f \in [0 .. k -> Int] /\ f[0] = 0
  /\ \A a \in 1 .. k : f[a] = f[a - 1] + Square(q[a] - p[a])

LEMMA LeastOf ==
  ASSUME NEW S \in SUBSET Nat, S # {}
  PROVE  \E m \in S : \A x \in S : m <= x
<1>1. PICK m \in S : \A x \in S : ~(<<x, m>> \in OpToRel(<, Nat))
  BY NatLessThanWellFounded, WFMin
<1>2. \A x \in S : ~(x < m)
  BY <1>1 DEF OpToRel
<1> QED BY <1>2

LEMMA SquareInt ==
  ASSUME NEW x \in Int
  PROVE  Square(x) \in Nat
<1>1. x * x \in Int
  OBVIOUS
<1>2. x * x >= 0
  BY SMT
<1> QED BY <1>1, <1>2 DEF Square

(* The sums for one more dimension.                                         *)
LEMMA SumsGrow ==
  ASSUME NEW q, NEW p, NEW k \in Nat, NEW f, Sums(q, p, k, f),
         q[k + 1] - p[k + 1] \in Int
  PROVE  \E g : Sums(q, p, k + 1, g)
<1> DEFINE g == [a \in 0 .. k + 1 |-> IF a <= k THEN f[a] ELSE f[k] + Square(q[k + 1] - p[k + 1])]
<1>1. Square(q[k + 1] - p[k + 1]) \in Int
  BY SquareInt
<1>2. PICK d \in Int : d = Square(q[k + 1] - p[k + 1])
  BY <1>1
<1>3. \A a \in 0 .. k : f[a] \in Int
  BY DEF Sums
<1>4. g \in [0 .. k + 1 -> Int]
  BY <1>2, <1>3
<1>5. \A a \in 0 .. k : g[a] = f[a]
  OBVIOUS
<1>6. g[k + 1] = f[k] + Square(q[k + 1] - p[k + 1])
  BY <1>2
<1>7. g[0] = 0
  BY <1>5 DEF Sums
<1>8. ASSUME NEW a \in 1 .. k + 1 PROVE g[a] = g[a - 1] + Square(q[a] - p[a])
  <2>1. CASE a = k + 1
    BY <2>1, <1>5, <1>6
  <2>2. CASE a # k + 1
    <3>1. a \in 1 .. k /\ a - 1 \in 0 .. k /\ a \in 0 .. k
      BY <2>2
    <3> QED BY <3>1, <1>5 DEF Sums
  <2> QED BY <2>1, <2>2
<1> QED BY <1>4, <1>7, <1>8 DEF Sums

(* The sums exist for every dimension up to Dim: a least one for which they *)
(* did not would have one before it for which they do.                      *)
LEMMA SumsExist ==
  ASSUME NEW q \in [1 .. Dim -> Int], NEW p \in [1 .. Dim -> Int], NEW k \in 0 .. Dim
  PROVE  \E f : Sums(q, p, k, f)
<1> DEFINE Without == {n \in 0 .. Dim : ~\E f : Sums(q, p, n, f)}
<1> SUFFICES ASSUME Without # {} PROVE FALSE
  OBVIOUS
<1>0. Dim \in Nat
  BY SizeAssumption
<1>1. PICK m \in Without : \A n \in Without : m <= n
  <2>1. Without \in SUBSET Nat
    BY <1>0
  <2> QED BY <2>1, LeastOf
<1>2. m # 0
  <2>1. Sums(q, p, 0, [a \in 0 .. 0 |-> 0])
    BY DEF Sums
  <2> QED BY <2>1
<1>3. m - 1 \in 0 .. Dim /\ m - 1 \in Nat /\ m \in 1 .. Dim
  BY <1>0, <1>2
<1>4. m - 1 \notin Without
  BY <1>1, <1>3
<1>5. PICK f : Sums(q, p, m - 1, f)
  BY <1>3, <1>4
<1>6. PICK j \in Nat : j = m - 1 /\ m = j + 1
  BY <1>3
<1>7. q[m] - p[m] \in Int
  BY <1>3
<1>8. \E g : Sums(q, p, j + 1, g)
  BY <1>5, <1>6, <1>7, SumsGrow
<1> QED BY <1>1, <1>6, <1>8

(* A sum is not less than any of what it is made of.                        *)
LEMMA SumsBound ==
  ASSUME NEW q \in [1 .. Dim -> Int], NEW p \in [1 .. Dim -> Int],
         NEW f, Sums(q, p, Dim, f), NEW a \in 1 .. Dim
  PROVE  f[Dim] \in Int /\ Square(q[a] - p[a]) <= f[Dim]
<1>0. Dim \in Nat /\ f \in [0 .. Dim -> Int]
  BY SizeAssumption DEF Sums
<1>1. \A k \in 1 .. Dim : Square(q[k] - p[k]) \in Nat /\ f[k] = f[k - 1] + Square(q[k] - p[k])
  <2> SUFFICES ASSUME NEW k \in 1 .. Dim
               PROVE  Square(q[k] - p[k]) \in Nat
    BY DEF Sums
  <2>1. q[k] - p[k] \in Int
    OBVIOUS
  <2> QED BY <2>1, SquareInt
<1>2. \A k \in 1 .. Dim : f[k - 1] <= f[k]
  <2> TAKE k \in 1 .. Dim
  <2>1. f[k - 1] \in Int /\ f[k] \in Int
    BY <1>0
  <2>2. PICK d \in Nat : d = Square(q[k] - p[k])
    BY <1>1
  <2>3. f[k] = f[k - 1] + d
    BY <1>1, <2>2
  <2> QED BY <2>1, <2>3
<1>4. \A k \in 0 .. Dim : 0 <= f[k]
  <2> DEFINE Less == {n \in 0 .. Dim : ~(0 <= f[n])}
  <2> SUFFICES ASSUME Less # {} PROVE FALSE
    BY <1>0
  <2>1. PICK m \in Less : \A n \in Less : m <= n
    <3>1. Less \in SUBSET Nat
      BY <1>0
    <3> QED BY <3>1, LeastOf
  <2>2. f[0] = 0
    BY DEF Sums
  <2>3. m \in 1 .. Dim /\ m - 1 \in 0 .. Dim
    BY <1>0, <2>2
  <2>4. m - 1 \notin Less
    BY <1>0, <2>1, <2>3
  <2>5. 0 <= f[m - 1] /\ f[m - 1] <= f[m] /\ f[m] \in Int /\ f[m - 1] \in Int
    BY <1>0, <1>2, <2>3, <2>4
  <2> QED BY <2>5
<1>5. \A k \in a .. Dim : f[a] <= f[k]
  <2> DEFINE Less == {n \in a .. Dim : ~(f[a] <= f[n])}
  <2> SUFFICES ASSUME Less # {} PROVE FALSE
    OBVIOUS
  <2>1. PICK m \in Less : \A n \in Less : m <= n
    <3>1. Less \in SUBSET Nat
      BY <1>0
    <3> QED BY <3>1, LeastOf
  <2>2. f[a] \in Int
    BY <1>0
  <2>3. m # a
    BY <2>2
  <2>4. m - 1 \in a .. Dim /\ m \in 1 .. Dim
    BY <1>0, <2>3
  <2>5. m - 1 \notin Less
    BY <1>0, <2>1, <2>4
  <2>6. f[a] <= f[m - 1] /\ f[m - 1] <= f[m] /\ f[m] \in Int /\ f[m - 1] \in Int
    BY <1>0, <1>2, <2>4, <2>5
  <2> QED BY <2>2, <2>6
<1>6. Square(q[a] - p[a]) <= f[a]
  <2>1. PICK d \in Nat : d = Square(q[a] - p[a])
    BY <1>1
  <2>2. f[a] = f[a - 1] + d /\ 0 <= f[a - 1] /\ f[a - 1] \in Int
    BY <1>0, <1>1, <1>4, <2>1
  <2> QED BY <2>1, <2>2
<1>7. a \in a .. Dim /\ Dim \in a .. Dim
  BY <1>0
<1>8. Square(q[a] - p[a]) \in Int /\ f[a] \in Int /\ f[Dim] \in Int
  BY <1>0, <1>1
<1> QED BY <1>5, <1>6, <1>7, <1>8

(* The distance is the last of the sums.                                    *)
LEMMA DistanceSums ==
  ASSUME NEW q \in [1 .. Dim -> Int], NEW p \in [1 .. Dim -> Int]
  PROVE  \E f : Sums(q, p, Dim, f) /\ Distance(q, p) = f[Dim]
<1> DEFINE Def(f) == f = [a \in 0 .. Dim |->
             IF a = 0 THEN 0 ELSE f[a - 1] + Square(q[a] - p[a])]
           dist == CHOOSE f : Def(f)
<1>0. Dim \in Nat
  BY SizeAssumption
<1>1. PICK g : Sums(q, p, Dim, g)
  BY <1>0, SumsExist
<1>2. Def(g)
  <2>1. g \in [0 .. Dim -> Int] /\ g[0] = 0
    BY <1>1 DEF Sums
  <2>2. ASSUME NEW a \in 0 .. Dim
        PROVE  g[a] = IF a = 0 THEN 0 ELSE g[a - 1] + Square(q[a] - p[a])
    <3>1. CASE a = 0
      BY <2>1, <3>1
    <3>2. CASE a # 0
      <4>1. a \in 1 .. Dim
        BY <1>0, <3>2
      <4> QED BY <1>1, <3>2, <4>1 DEF Sums
    <3> QED BY <3>1, <3>2
  <2> QED BY <2>1, <2>2
<1>3. Def(dist)
  BY <1>2
<1>4. Sums(q, p, Dim, dist)
  <2>1. PICK f : f = dist
    OBVIOUS
  <2>2. f = [a \in 0 .. Dim |-> IF a = 0 THEN 0 ELSE f[a - 1] + Square(q[a] - p[a])]
    BY <1>3, <2>1
  <2> HIDE DEF dist
  <2>3. DOMAIN f = 0 .. Dim /\ f[0] = 0
    BY <1>0, <2>2
  <2>4. \A a \in 1 .. Dim : f[a] = f[a - 1] + Square(q[a] - p[a])
    <3> TAKE a \in 1 .. Dim
    <3>1. a \in 0 .. Dim /\ a # 0
      BY <1>0
    <3> QED BY <2>2, <3>1
  <2>5. \A a \in 1 .. Dim : Square(q[a] - p[a]) \in Int
    <3> TAKE a \in 1 .. Dim
    <3>1. q[a] - p[a] \in Int
      OBVIOUS
    <3> QED BY <3>1, SquareInt
  <2>6. \A a \in 0 .. Dim : f[a] \in Int
    <3> DEFINE Other == {n \in 0 .. Dim : f[n] \notin Int}
    <3> SUFFICES ASSUME Other # {} PROVE FALSE
      OBVIOUS
    <3>1. PICK m \in Other : \A n \in Other : m <= n
      <4>1. Other \in SUBSET Nat
        BY <1>0
      <4> QED BY <4>1, LeastOf
    <3>2. m \in 1 .. Dim /\ m - 1 \in 0 .. Dim
      BY <1>0, <2>3
    <3>3. f[m - 1] \in Int
      BY <1>0, <3>1, <3>2
    <3>4. f[m] = f[m - 1] + Square(q[m] - p[m]) /\ Square(q[m] - p[m]) \in Int
      BY <2>4, <2>5, <3>2
    <3> QED BY <3>3, <3>4
  <2>7. f \in [0 .. Dim -> Int]
    <3>1. f = [a \in DOMAIN f |-> f[a]]
      BY <2>2
    <3> QED BY <2>3, <2>6, <3>1
  <2>8. Sums(q, p, Dim, f)
    BY <2>3, <2>4, <2>7 DEF Sums
  <2> QED BY <2>1, <2>8
<1>5. Distance(q, p) = dist[Dim]
  BY DEF Distance
<1> QED BY <1>4, <1>5

(* sdistance is a number, and no less than the square of the difference on  *)
(* any axis: what is beyond a plane is at least as far as the plane.        *)
LEMMA DistanceBound ==
  ASSUME NEW q \in [1 .. Dim -> Int], NEW p \in [1 .. Dim -> Int]
  PROVE  /\ Distance(q, p) \in Int
         /\ \A a \in 1 .. Dim : Square(q[a] - p[a]) <= Distance(q, p)
<1>1. PICK f : Sums(q, p, Dim, f) /\ Distance(q, p) = f[Dim]
  BY DistanceSums
<1>2. \A a \in 1 .. Dim : Square(q[a] - p[a]) <= f[Dim]
  BY <1>1, SumsBound
<1>3. f[Dim] \in Int
  BY <1>1, SizeAssumption DEF Sums
<1> QED BY <1>1, <1>2, <1>3
-----------------------------------------------------------------------------
(* What follows is about a tree that is not written: pts and ns stand for   *)
(* its points and its nodes.                                                *)
Under(ns, n) ==
  IF n = Null THEN {}
  ELSE {m \in DOMAIN ns : \A S \in SUBSET DOMAIN ns : Shut(ns, S) /\ n \in S => m \in S}

(* What the properties call below a node, of the tree as it is.             *)
LEMMA BelowIsUnder ==
  ASSUME NEW n
  PROVE  Below(n, ClosedSets) = Under(nodes, n)
BY DEF Below, Under, ClosedSets, Shut, Ids

(* What is under a node is not left by following children.                  *)
LEMMA UnderShut ==
  ASSUME NEW ns, Shut(ns, DOMAIN ns), NEW n \in DOMAIN ns, n # Null
  PROVE  n \in Under(ns, n) /\ Shut(ns, Under(ns, n)) /\ Under(ns, n) \subseteq DOMAIN ns
<1>1. n \in Under(ns, n) /\ Under(ns, n) \subseteq DOMAIN ns
  BY DEF Under
<1>2. ASSUME NEW m \in Under(ns, n), NEW i \in Child, ns[m].children[i] # Null
      PROVE  ns[m].children[i] \in Under(ns, n)
  <2>1. m \in DOMAIN ns
    BY <1>1
  <2>2. ns[m].children[i] \in DOMAIN ns
    BY <1>2, <2>1 DEF Shut
  <2>3. ASSUME NEW S \in SUBSET DOMAIN ns, Shut(ns, S), n \in S
        PROVE  ns[m].children[i] \in S
    <3>1. m \in S
      BY <2>3 DEF Under
    <3> QED BY <1>2, <2>3, <3>1 DEF Shut
  <2> QED BY <2>2, <2>3 DEF Under
<1>3. Shut(ns, Under(ns, n))
  BY <1>2 DEF Shut
<1> QED BY <1>1, <1>3

(* What is below a node is the node and what is below its children.         *)
LEMMA UnderChildren ==
  ASSUME NEW ns, Shut(ns, DOMAIN ns), Null \notin DOMAIN ns, NEW n \in DOMAIN ns
  PROVE  Under(ns, n) = {n} \cup Under(ns, ns[n].children[0]) \cup Under(ns, ns[n].children[1])
<1> DEFINE c(i) == ns[n].children[i]
           All == {n} \cup Under(ns, c(0)) \cup Under(ns, c(1))
<1>0. 0 \in Child /\ 1 \in Child /\ \A i \in Child : i = 0 \/ i = 1
  BY DEF Child
<1>1. \A i \in Child : c(i) \in DOMAIN ns \cup {Null}
  BY DEF Shut
<1>2. \A i \in Child : c(i) # Null =>
        c(i) \in Under(ns, c(i)) /\ Shut(ns, Under(ns, c(i))) /\ Under(ns, c(i)) \subseteq DOMAIN ns
  BY <1>1, UnderShut
<1>3. \A i \in Child : c(i) = Null => Under(ns, c(i)) = {}
  BY DEF Under
<1>4. \A i \in Child : Under(ns, c(i)) \subseteq Under(ns, n)
  <2> SUFFICES ASSUME NEW i \in Child, NEW m \in Under(ns, c(i)) PROVE m \in Under(ns, n)
    OBVIOUS
  <2>1. c(i) # Null /\ m \in DOMAIN ns
    BY <1>2, <1>3
  <2>2. ASSUME NEW S \in SUBSET DOMAIN ns, Shut(ns, S), n \in S PROVE m \in S
    <3>1. c(i) \in S
      BY <2>1, <2>2 DEF Shut
    <3> QED BY <2>1, <2>2, <3>1 DEF Under
  <2> QED BY <2>1, <2>2 DEF Under
<1>5. n \in Under(ns, n)
  BY UnderShut
<1>6. Shut(ns, All)
  <2> SUFFICES ASSUME NEW m \in All, NEW i \in Child, ns[m].children[i] # Null
               PROVE  ns[m].children[i] \in All
    BY DEF Shut
  <2>1. CASE m = n
    <3>1. c(i) \in Under(ns, c(i))
      BY <1>2, <2>1
    <3> QED BY <1>0, <2>1, <3>1
  <2>2. ASSUME NEW k \in Child, m \in Under(ns, c(k))
        PROVE  ns[m].children[i] \in All
    <3>1. Shut(ns, Under(ns, c(k)))
      BY <1>2, <1>3, <2>2
    <3>2. ns[m].children[i] \in Under(ns, c(k))
      BY <2>2, <3>1 DEF Shut
    <3> QED BY <1>0, <3>2
  <2> QED BY <1>0, <2>1, <2>2
<1>7. All \subseteq DOMAIN ns
  BY <1>0, <1>2, <1>3
<1>8. Under(ns, n) \subseteq All
  <2>1. n # Null
    OBVIOUS
  <2> QED BY <1>6, <1>7, <2>1 DEF Under
<1> QED BY <1>0, <1>4, <1>5, <1>8

(* The place of a node's plane, and its children as the query sees them.    *)
Gap(pts, ns, q, n) == q[ns[n].axis + 1] - pts[ns[n].index][ns[n].axis + 1]
NearOf(pts, ns, q, n) == ns[n].children[IF Gap(pts, ns, q, n) < 0 THEN 0 ELSE 1]
FarOf(pts, ns, q, n) == ns[n].children[IF Gap(pts, ns, q, n) < 0 THEN 1 ELSE 0]

(* What a search relies on at a node: nothing is on both sides of it, and   *)
(* nothing beyond its plane is nearer than the plane.                       *)
Branch(pts, ns, q, n) ==
  LET near == Under(ns, NearOf(pts, ns, q, n))
      far == Under(ns, FarOf(pts, ns, q, n)) IN
  /\ NearOf(pts, ns, q, n) \in DOMAIN ns \cup {Null}
  /\ FarOf(pts, ns, q, n) \in DOMAIN ns \cup {Null}
  /\ Under(ns, n) = {n} \cup near \cup far
  /\ n \notin near /\ n \notin far /\ near \cap far = {}
  /\ Square(Gap(pts, ns, q, n)) \in Int
  /\ \A m \in far : Square(Gap(pts, ns, q, n)) <= Distance(q, pts[ns[m].index])

Branching(pts, ns, q) ==
  /\ Null \notin DOMAIN ns
  /\ DOMAIN ns # {} => 0 \in DOMAIN ns /\ Under(ns, 0) = DOMAIN ns
  /\ \A n \in DOMAIN ns : Branch(pts, ns, q, n)
  /\ \A n \in DOMAIN ns : ns[n].index \in DOMAIN ns
  /\ \A i \in DOMAIN ns : \E n \in DOMAIN ns : ns[n].index = i
  /\ \A m, n \in DOMAIN ns : ns[m].index = ns[n].index => m = n
  /\ \A i \in DOMAIN ns : Distance(q, pts[i]) \in Int

(* Farther along an axis is farther.                                        *)
LEMMA SquareGrows ==
  ASSUME NEW x \in Int, NEW y \in Int, (0 <= x /\ x <= y) \/ (y <= x /\ x <= 0)
  PROVE  Square(x) <= Square(y)
<1>1. CASE 0 <= x /\ x <= y
  <2>1. x * x <= x * y
    BY <1>1
  <2>2. x * y <= y * y
    BY <1>1
  <2> QED BY <2>1, <2>2 DEF Square
<1>2. CASE y <= x /\ x <= 0
  <2>1. x * x <= x * y
    BY <1>2
  <2>2. x * y <= y * y
    BY <1>2
  <2> QED BY <2>1, <2>2 DEF Square
<1> QED BY <1>1, <1>2

(* In a tree that was built each point is in one node.                      *)
LEMMA IndexOnce ==
  ASSUME NEW ns, IsFiniteSet(DOMAIN ns), {ns[n].index : n \in DOMAIN ns} = DOMAIN ns,
         NEW m \in DOMAIN ns, NEW n \in DOMAIN ns, ns[m].index = ns[n].index
  PROVE  m = n
<1> DEFINE f == [x \in DOMAIN ns |-> ns[x].index]
<1>1. \A x \in DOMAIN ns : ns[x].index \in DOMAIN ns
  OBVIOUS
<1>2. \A i \in DOMAIN ns : \E x \in DOMAIN ns : ns[x].index = i
  OBVIOUS
<1>3. f \in Surjection(DOMAIN ns, DOMAIN ns)
  BY <1>1, <1>2 DEF Surjection
<1>4. f \in Injection(DOMAIN ns, DOMAIN ns)
  BY <1>3, FS_SurjSameCardinalityImpliesInj
<1> QED BY <1>4 DEF Injection, IsInjective

(* The points of a tree have as many coordinates as there are dimensions.   *)
LEMMA PointsTyped ==
  ASSUME Sized, NEW i \in Ids
  PROVE  points[i] \in [1 .. Dim -> Int]
<1>1. i \in DOMAIN points
  BY DEF Sized, Ids
<1>2. points # <<>>
  <2>1. DOMAIN <<>> = {}
    OBVIOUS
  <2> QED BY <1>1, <2>1
<1> QED BY <1>1, <1>2, PointAssumption DEF Sized

(* A tree that was built is one a search can rely on, node by node,         *)
LEMMA BuiltBranch ==
  ASSUME Sized, TreeComplete, Built, NEW q \in [1 .. Dim -> Int], NEW n \in Ids
  PROVE  Branch(points, nodes, q, n)
<1> DEFINE gap == Gap(points, nodes, q, n)
           near == NearOf(points, nodes, q, n)
           far == FarOf(points, nodes, q, n)
           c(i) == nodes[n].children[i]
           a == nodes[n].axis + 1
           at(m) == points[nodes[m].index][a]
<1>0. 0 \in Child /\ 1 \in Child
  BY DEF Child
<1>1. /\ Shut(nodes, Ids) /\ Null \notin Ids
      /\ nodes[n].axis \in Range0(Dim) /\ \A m \in Ids : nodes[m].index \in Ids
  <2>1. Ids \in ClosedSets /\ nodes[n].axis \in Range0(Dim) /\ {nodes[m].index : m \in Ids} = Ids
    BY DEF TreeComplete
  <2>2. Null \notin Ids
    BY DEF Sized, Ids, Range0, Null
  <2> QED BY <2>1, <2>2, ShutClosed
<1>2. /\ Under(nodes, c(0)) \cap Under(nodes, c(1)) = {}
      /\ n \notin Under(nodes, c(0)) /\ n \notin Under(nodes, c(1))
      /\ \A m \in Under(nodes, c(0)) : at(m) <= at(n)
      /\ \A m \in Under(nodes, c(1)) : at(n) <= at(m)
  <2>1. \A i : Below(c(i), ClosedSets) = Under(nodes, c(i))
    BY BelowIsUnder
  <2> QED BY <2>1 DEF TreeComplete
<1>3. Under(nodes, n) = {n} \cup Under(nodes, c(0)) \cup Under(nodes, c(1))
  BY <1>1, UnderChildren DEF Ids
<1>4. a \in 1 .. Dim
  BY <1>1, SizeAssumption DEF Range0
<1>5. \A m \in Ids : at(m) \in Int
  BY <1>1, <1>4, PointsTyped
<1>6. gap \in Int /\ gap = q[a] - at(n)
  BY <1>4, <1>5 DEF Gap
<1>7. Square(gap) \in Int
  BY <1>6, SquareInt
<1>8. (gap < 0 /\ near = c(0) /\ far = c(1)) \/ (~(gap < 0) /\ near = c(1) /\ far = c(0))
  BY DEF NearOf, FarOf
<1>9. near \in Ids \cup {Null} /\ far \in Ids \cup {Null}
  BY <1>0, <1>1, <1>8 DEF Shut
<1>10. ASSUME NEW m \in Under(nodes, far)
       PROVE  Square(gap) <= Distance(q, points[nodes[m].index])
  <2>1. m \in Ids
    BY <1>10 DEF Under, Ids
  <2>2. PICK x \in Int, y \in Int, z \in Int : x = q[a] /\ y = at(n) /\ z = at(m)
    BY <1>4, <1>5, <2>1
  <2>3. (x - y < 0 /\ y <= z) \/ (~(x - y < 0) /\ z <= y)
    BY <1>2, <1>6, <1>8, <1>10, <2>2
  <2>4. Square(x - y) <= Square(x - z)
    <3>1. x - y \in Int /\ x - z \in Int
      OBVIOUS
    <3>2. (0 <= x - y /\ x - y <= x - z) \/ (x - z <= x - y /\ x - y <= 0)
      BY <2>3
    <3> QED BY <3>1, <3>2, SquareGrows
  <2>5. points[nodes[m].index] \in [1 .. Dim -> Int]
    BY <1>1, <2>1, PointsTyped
  <2>6. /\ Square(q[a] - at(m)) <= Distance(q, points[nodes[m].index])
        /\ Distance(q, points[nodes[m].index]) \in Int
    BY <1>4, <2>5, DistanceBound
  <2>7. PICK s \in Int, t \in Int, d \in Int :
               s = Square(x - y) /\ t = Square(x - z) /\ d = Distance(q, points[nodes[m].index])
    <3>1. x - y \in Int /\ x - z \in Int
      OBVIOUS
    <3>2. Square(x - y) \in Int /\ Square(x - z) \in Int
      BY <3>1, SquareInt
    <3> QED BY <2>6, <3>2
  <2>8. s <= t /\ t <= d
    BY <2>2, <2>4, <2>6, <2>7
  <2>9. s <= d
    BY <2>8
  <2> QED BY <1>6, <2>2, <2>7, <2>9
<1> QED BY <1>2, <1>3, <1>7, <1>8, <1>9, <1>10 DEF Branch, Ids

(* and as a whole.                                                          *)
LEMMA BuiltBranching ==
  ASSUME Sized, TreeComplete, Built, NEW q \in [1 .. Dim -> Int]
  PROVE  Branching(points, nodes, q)
<1>1. Null \notin Ids
  BY DEF Sized, Ids, Range0, Null
<1>2. Ids # {} => 0 \in Ids /\ Under(nodes, 0) = Ids
  <2> SUFFICES ASSUME Ids # {} PROVE 0 \in Ids /\ Under(nodes, 0) = Ids
    OBVIOUS
  <2>1. Under(nodes, 0) = Ids
    BY BelowIsUnder DEF TreeComplete
  <2>2. 0 \in Ids
    <3>1. Count \in Nat /\ Ids = Range0(Count)
      BY DEF Sized, Ids
    <3> QED BY <3>1 DEF Range0
  <2> QED BY <2>1, <2>2
<1>3. \A n \in Ids : Branch(points, nodes, q, n)
  BY BuiltBranch
<1>4. Ids # {} => {nodes[n].index : n \in Ids} = Ids
  BY DEF TreeComplete
<1>5. \A n \in Ids : nodes[n].index \in Ids
  BY <1>4
<1>6. \A i \in Ids : \E n \in Ids : nodes[n].index = i
  BY <1>4
<1>7. ASSUME NEW m \in Ids, NEW n \in Ids, nodes[m].index = nodes[n].index
      PROVE  m = n
  <2>1. IsFiniteSet(Ids)
    <3>1. Count \in Nat /\ Ids = 0 .. Count - 1
      BY DEF Sized, Ids, Range0
    <3> QED BY <3>1, FS_Interval
  <2> QED BY <1>4, <1>7, <2>1, IndexOnce DEF Ids
<1>8. \A i \in Ids : Distance(q, points[i]) \in Int
  BY PointsTyped, DistanceBound
<1> QED BY <1>1, <1>2, <1>3, <1>5, <1>6, <1>7, <1>8 DEF Branching, Ids
-----------------------------------------------------------------------------
(* What is used of sequences, of Front and of InsertAt.                     *)
LEMMA SeqFacts ==
  ASSUME NEW E, NEW s \in Seq(E)
  PROVE  /\ Len(s) \in Nat /\ DOMAIN s = 1 .. Len(s)
         /\ \A i \in 1 .. Len(s) : s[i] \in E
         /\ s # <<>> <=> Len(s) # 0
<1>1. Len(s) \in Nat /\ s \in [1 .. Len(s) -> E] /\ DOMAIN s = 1 .. Len(s)
  BY LenProperties
<1>2. s # <<>> => Len(s) # 0
  BY EmptySeq
<1>3. s = <<>> => Len(s) = 0
  BY EmptySeq
<1> QED BY <1>1, <1>2, <1>3

LEMMA FrontFacts ==
  ASSUME NEW E, NEW s \in Seq(E), s # <<>>
  PROVE  /\ Front(s) \in Seq(E) /\ Len(Front(s)) = Len(s) - 1
         /\ \A i \in 1 .. Len(s) - 1 : Front(s)[i] = s[i]
         /\ Last(s) = s[Len(s)] /\ Last(s) \in E
<1>1. PICK n \in Nat \ {0} : n = Len(s)
  BY SeqFacts
<1>2. \A i \in 1 .. n : s[i] \in E
  BY <1>1, SeqFacts
<1>3. \A i \in 1 .. n - 1 : s[i] \in E
  BY <1>2
<1>4. /\ SubSeq(s, 1, n - 1) \in Seq(E)
      /\ Len(SubSeq(s, 1, n - 1)) = IF 1 <= n - 1 THEN n - 1 - 1 + 1 ELSE 0
      /\ \A i \in 1 .. n - 1 - 1 + 1 : SubSeq(s, 1, n - 1)[i] = s[1 + i - 1]
  BY <1>3, SubSeqProperties
<1>5. Front(s) = SubSeq(s, 1, n - 1)
  BY <1>1 DEF Front
<1>6. Len(Front(s)) = n - 1
  BY <1>4, <1>5
<1>7. \A i \in 1 .. n - 1 : Front(s)[i] = s[i]
  BY <1>4, <1>5
<1> QED BY <1>1, <1>2, <1>4, <1>5, <1>6, <1>7 DEF Last

(* v is s with e put in at place p.                                         *)
With(E, s, p, e, v) ==
  /\ v \in Seq(E) /\ Len(v) = Len(s) + 1
  /\ \A i \in 1 .. Len(s) + 1 : v[i] = IF i < p THEN s[i] ELSE IF i = p THEN e ELSE s[i - 1]

LEMMA InsertFacts ==
  ASSUME NEW E, NEW s \in Seq(E), NEW e \in E, NEW p \in 1 .. Len(s) + 1
  PROVE  With(E, s, p, e, InsertAt(s, p, e))
<1>1. PICK n \in Nat : n = Len(s)
  BY SeqFacts
<1>2. \A i \in 1 .. n : s[i] \in E
  BY <1>1, SeqFacts
<1>3. PICK a : a = SubSeq(s, 1, p - 1)
  OBVIOUS
<1>4. PICK b : b = SubSeq(s, p, n)
  OBVIOUS
<1>5. p \in 1 .. n + 1
  BY <1>1
<1>6. a \in Seq(E) /\ Len(a) = p - 1 /\ \A i \in 1 .. p - 1 : a[i] = s[i]
  <2>1. \A i \in 1 .. p - 1 : s[i] \in E
    BY <1>2, <1>5
  <2>2. /\ a \in Seq(E)
        /\ Len(a) = IF 1 <= p - 1 THEN p - 1 - 1 + 1 ELSE 0
        /\ \A i \in 1 .. p - 1 - 1 + 1 : a[i] = s[1 + i - 1]
    BY <1>3, <1>5, <2>1, SubSeqProperties
  <2> QED BY <1>5, <2>2
<1>7. b \in Seq(E) /\ Len(b) = n - p + 1 /\ \A i \in 1 .. n - p + 1 : b[i] = s[p + i - 1]
  <2>1. \A i \in p .. n : s[i] \in E
    BY <1>2, <1>5
  <2>2. /\ b \in Seq(E)
        /\ Len(b) = IF p <= n THEN n - p + 1 ELSE 0
        /\ \A i \in 1 .. n - p + 1 : b[i] = s[p + i - 1]
    BY <1>1, <1>4, <1>5, <2>1, SubSeqProperties
  <2> QED BY <1>5, <2>2
<1>8. <<e>> \in Seq(E) /\ Len(<<e>>) = 1 /\ <<e>>[1] = e
  OBVIOUS
<1>9. PICK c : c = a \o <<e>>
  OBVIOUS
<1>10. c \in Seq(E) /\ Len(c) = p /\ \A i \in 1 .. p : c[i] = IF i < p THEN s[i] ELSE e
  <2>1. /\ c \in Seq(E) /\ Len(c) = Len(a) + Len(<<e>>)
        /\ \A i \in 1 .. Len(a) + Len(<<e>>) :
             c[i] = IF i <= Len(a) THEN a[i] ELSE <<e>>[i - Len(a)]
    BY <1>6, <1>8, <1>9, ConcatProperties
  <2>2. Len(c) = p
    BY <1>5, <1>6, <1>8, <2>1
  <2>3. ASSUME NEW i \in 1 .. p PROVE c[i] = IF i < p THEN s[i] ELSE e
    <3>1. c[i] = IF i <= p - 1 THEN a[i] ELSE <<e>>[i - (p - 1)]
      BY <1>5, <1>6, <1>8, <2>1
    <3>2. CASE i < p
      BY <1>5, <1>6, <3>1, <3>2
    <3>3. CASE i = p
      <4>1. i - (p - 1) = 1
        BY <1>5, <3>3
      <4> QED BY <1>5, <1>8, <3>1, <3>3, <4>1
    <3> QED BY <1>5, <3>2, <3>3
  <2> QED BY <2>1, <2>2, <2>3
<1>11. InsertAt(s, p, e) = c \o b
  BY <1>1, <1>3, <1>4, <1>9 DEF InsertAt
<1>12. /\ c \o b \in Seq(E) /\ Len(c \o b) = Len(c) + Len(b)
       /\ \A i \in 1 .. Len(c) + Len(b) : (c \o b)[i] = IF i <= Len(c) THEN c[i] ELSE b[i - Len(c)]
  BY <1>7, <1>10, ConcatProperties
<1>13. Len(c) + Len(b) = n + 1
  BY <1>5, <1>7, <1>10
<1>14. ASSUME NEW i \in 1 .. n + 1
       PROVE  (c \o b)[i] = IF i < p THEN s[i] ELSE IF i = p THEN e ELSE s[i - 1]
  <2>1. (c \o b)[i] = IF i <= p THEN c[i] ELSE b[i - p]
    BY <1>10, <1>12, <1>13
  <2>2. CASE i <= p
    BY <1>5, <1>10, <2>1, <2>2
  <2>3. CASE ~(i <= p)
    <3>1. i - p \in 1 .. n - p + 1 /\ p + (i - p) - 1 = i - 1
      BY <1>5, <2>3
    <3> QED BY <1>5, <1>7, <2>1, <2>3, <3>1
  <2> QED BY <2>2, <2>3
<1> QED BY <1>1, <1>11, <1>12, <1>13, <1>14 DEF With

(* The queue is in order.                                                   *)
Sorted(fd) == \A k, l \in DOMAIN fd : k < l => Before(fd[k], fd[l])

(* Pairs are ordered by the distance, then by the index.                    *)
LEMMA BeforeOrder ==
  ASSUME NEW x \in Int \X Int, NEW y \in Int \X Int, NEW z \in Int \X Int
  PROVE  /\ Before(x, y) \/ Before(y, x)
         /\ Before(x, y) /\ Before(y, z) => Before(x, z)
         /\ Before(x, y) => x[1] <= y[1]
<1>1. /\ x[1] \in Int /\ x[2] \in Int /\ y[1] \in Int /\ y[2] \in Int
      /\ z[1] \in Int /\ z[2] \in Int
  OBVIOUS
<1> QED BY <1>1 DEF Before

(* v is the queue u with e in its place: in order, with the same entries    *)
(* and e, and with no index twice if u had none twice and not that of e.    *)
InOrder(u, e, v) ==
  /\ v \in Seq(Int \X Int) /\ Len(v) = Len(u) + 1 /\ Sorted(v)
  /\ \A k \in DOMAIN v : v[k] = e \/ \E l \in DOMAIN u : v[k] = u[l]
  /\ \A l \in DOMAIN u : \E k \in DOMAIN v : v[k] = u[l]
  /\ \E k \in DOMAIN v : v[k] = e
  /\ \A k, l \in DOMAIN v :
       (\A i \in DOMAIN u : u[i][2] # e[2])
         /\ (\A i, j \in DOMAIN u : u[i][2] = u[j][2] => i = j)
         /\ v[k][2] = v[l][2] => k = l

LEMMA InsertedSorted ==
  ASSUME NEW u \in Seq(Int \X Int), Sorted(u), NEW e \in Int \X Int
  PROVE  InOrder(u, e, Inserted(u, e))
<1> DEFINE E == Int \X Int
<1>1. PICK n \in Nat : n = Len(u)
  BY SeqFacts
<1>2. DOMAIN u = 1 .. n /\ \A i \in 1 .. n : u[i] \in E
  BY <1>1, SeqFacts
<1> DEFINE Place(p) ==
             /\ p <= Len(u) => ~Before(u[p], e)
             /\ \A i \in 1 .. p - 1 : Before(u[i], e)
           Larger == {p \in 1 .. n + 1 : p <= n => ~Before(u[p], e)}
<1>3. \E p \in 1 .. Len(u) + 1 : Place(p)
  <2>1. n + 1 \in Larger
    OBVIOUS
  <2>2. PICK p \in Larger : \A i \in Larger : p <= i
    <3>1. Larger \in SUBSET Nat
      OBVIOUS
    <3>2. Larger # {}
      BY <2>1
    <3> HIDE DEF Larger
    <3> QED BY <3>1, <3>2, LeastOf
  <2>3. ASSUME NEW i \in 1 .. p - 1 PROVE Before(u[i], e)
    <3>1. i \in 1 .. n + 1 /\ i <= n /\ ~(p <= i)
      BY <2>2
    <3>2. i \notin Larger
      BY <2>2, <3>1
    <3> QED BY <3>1, <3>2
  <2> QED BY <1>1, <2>2, <2>3
<1>4. PICK p \in 1 .. Len(u) + 1 : Place(p) /\ Inserted(u, e) = InsertAt(u, p, e)
  BY <1>3 DEF Inserted
<1>5. p \in 1 .. n + 1
  BY <1>1, <1>4
<1>6. PICK v : v = InsertAt(u, p, e)
  OBVIOUS
<1> HIDE DEF Place
<1>7. u \in Seq(E) /\ e \in E /\ p \in 1 .. Len(u) + 1
  OBVIOUS
<1> HIDE DEF E
<1>8. With(E, u, p, e, v)
  BY <1>7, <1>6, InsertFacts, Zenon
<1>9. v \in Seq(E) /\ Len(v) = n + 1 /\ DOMAIN v = 1 .. n + 1
  <2>1. DOMAIN v = 1 .. Len(v)
    BY <1>8, SeqFacts DEF With
  <2> QED BY <1>1, <1>8, <2>1 DEF With
<1>10. \A i \in 1 .. n + 1 : v[i] = IF i < p THEN u[i] ELSE IF i = p THEN e ELSE u[i - 1]
  BY <1>1, <1>8 DEF With
<1> USE DEF E
<1>11. (p <= n => Before(e, u[p])) /\ \A i \in 1 .. p - 1 : Before(u[i], e)
  <2>1. p <= n => ~Before(u[p], e) /\ u[p] \in E
    BY <1>1, <1>2, <1>4, <1>5 DEF Place
  <2>2. p <= n => Before(e, u[p])
    BY <2>1, BeforeOrder
  <2> QED BY <1>4, <2>2 DEF Place
<1>12. \A i \in p .. n : Before(e, u[i])
  <2> SUFFICES ASSUME NEW i \in p .. n PROVE Before(e, u[i])
    OBVIOUS
  <2>1. CASE i = p
    BY <1>11, <2>1
  <2>2. CASE i # p
    <3>1. p < i /\ p \in 1 .. n /\ i \in 1 .. n
      BY <1>5, <2>2
    <3>2. u[p] \in E /\ u[i] \in E /\ Before(u[p], u[i])
      BY <1>2, <3>1 DEF Sorted
    <3>3. Before(e, u[p])
      BY <1>11, <3>1
    <3> QED BY <3>2, <3>3, BeforeOrder
  <2> QED BY <2>1, <2>2
<1>13. Sorted(v)
  <2> SUFFICES ASSUME NEW k \in 1 .. n + 1, NEW l \in 1 .. n + 1, k < l
               PROVE  Before(v[k], v[l])
    BY <1>9 DEF Sorted
  <2>1. CASE l < p
    <3>1. v[k] = u[k] /\ v[l] = u[l] /\ k \in 1 .. n /\ l \in 1 .. n
      BY <1>5, <1>10, <2>1
    <3> QED BY <1>2, <3>1 DEF Sorted
  <2>2. CASE l = p
    <3>1. v[k] = u[k] /\ v[l] = e /\ k \in 1 .. p - 1
      BY <1>5, <1>10, <2>2
    <3> QED BY <1>11, <3>1
  <2>3. CASE l > p /\ k = p
    <3>1. v[k] = e /\ v[l] = u[l - 1] /\ l - 1 \in p .. n
      BY <1>5, <1>10, <2>3
    <3> QED BY <1>12, <3>1
  <2>4. CASE l > p /\ k > p
    <3>1. v[k] = u[k - 1] /\ v[l] = u[l - 1] /\ k - 1 \in 1 .. n /\ l - 1 \in 1 .. n /\ k - 1 < l - 1
      BY <1>5, <1>10, <2>4
    <3> QED BY <1>2, <3>1 DEF Sorted
  <2>5. CASE l > p /\ k < p
    <3>1. v[k] = u[k] /\ v[l] = u[l - 1] /\ k \in 1 .. n /\ l - 1 \in 1 .. n /\ k < l - 1
      BY <1>5, <1>10, <2>5
    <3> QED BY <1>2, <3>1 DEF Sorted
  <2> QED BY <1>5, <2>1, <2>2, <2>3, <2>4, <2>5
<1>14. ASSUME NEW k \in 1 .. n + 1
       PROVE  v[k] = e \/ \E l \in 1 .. n : v[k] = u[l]
  <2>1. CASE k < p
    BY <1>5, <1>10, <2>1
  <2>2. CASE k = p
    BY <1>10, <2>2
  <2>3. CASE k > p
    <3>1. v[k] = u[k - 1] /\ k - 1 \in 1 .. n
      BY <1>5, <1>10, <2>3
    <3> QED BY <3>1
  <2> QED BY <1>5, <2>1, <2>2, <2>3
<1>15. ASSUME NEW l \in 1 .. n PROVE \E k \in 1 .. n + 1 : v[k] = u[l]
  <2>1. CASE l < p
    <3>1. v[l] = u[l] /\ l \in 1 .. n + 1
      BY <1>10, <2>1
    <3> QED BY <3>1
  <2>2. CASE ~(l < p)
    <3>1. v[l + 1] = u[l] /\ l + 1 \in 1 .. n + 1
      BY <1>5, <1>10, <2>2
    <3> QED BY <3>1
  <2> QED BY <2>1, <2>2
<1>16. v[p] = e
  BY <1>5, <1>10
<1>17. ASSUME NEW k \in 1 .. n + 1, NEW l \in 1 .. n + 1,
              \A i \in 1 .. n : u[i][2] # e[2],
              \A i, j \in 1 .. n : u[i][2] = u[j][2] => i = j,
              v[k][2] = v[l][2]
       PROVE  k = l
  <2> DEFINE from(i) == IF i < p THEN i ELSE i - 1
  <2>1. \A i \in 1 .. n + 1 : i # p => from(i) \in 1 .. n /\ v[i] = u[from(i)]
    BY <1>5, <1>10
  <2>2. CASE k = p /\ l = p
    BY <2>2
  <2>3. CASE k = p /\ l # p
    <3>1. from(l) \in 1 .. n /\ v[l] = u[from(l)]
      BY <2>1, <2>3
    <3>2. PICK i \in 1 .. n : v[l] = u[i]
      BY <3>1
    <3>3. u[i][2] = e[2]
      BY <1>16, <1>17, <2>3, <3>2
    <3> QED BY <1>17, <3>3
  <2>4. CASE k # p /\ l = p
    <3>1. from(k) \in 1 .. n /\ v[k] = u[from(k)]
      BY <2>1, <2>4
    <3>2. PICK i \in 1 .. n : v[k] = u[i]
      BY <3>1
    <3>3. u[i][2] = e[2]
      BY <1>16, <1>17, <2>4, <3>2
    <3> QED BY <1>17, <3>3
  <2>5. CASE k # p /\ l # p
    <3>1. /\ from(k) \in 1 .. n /\ v[k] = u[from(k)]
          /\ from(l) \in 1 .. n /\ v[l] = u[from(l)]
      BY <2>1, <2>5
    <3>2. PICK i \in 1 .. n, j \in 1 .. n :
                 i = from(k) /\ j = from(l) /\ v[k] = u[i] /\ v[l] = u[j]
      BY <3>1
    <3>3. u[i][2] = u[j][2]
      BY <1>17, <3>2
    <3>4. i = j
      BY <1>17, <3>3
    <3> QED BY <1>5, <2>5, <3>2, <3>4
  <2> QED BY <2>2, <2>3, <2>4, <2>5
<1>18. Inserted(u, e) = v
  BY <1>4, <1>6
<1> HIDE DEF Place, Larger
<1>19. /\ v \in Seq(Int \X Int) /\ Len(v) = Len(u) + 1 /\ Sorted(v)
       /\ \A k \in DOMAIN v : v[k] = e \/ \E l \in DOMAIN u : v[k] = u[l]
       /\ \A l \in DOMAIN u : \E k \in DOMAIN v : v[k] = u[l]
       /\ \E k \in DOMAIN v : v[k] = e
  <2>1. v \in Seq(Int \X Int) /\ Len(v) = Len(u) + 1 /\ Sorted(v)
    BY <1>1, <1>9, <1>13
  <2>2. DOMAIN v = 1 .. n + 1 /\ DOMAIN u = 1 .. n /\ p \in 1 .. n + 1
    BY <1>2, <1>5, <1>9
  <2> QED BY <1>14, <1>15, <1>16, <2>1, <2>2, Zenon
<1>20. \A k, l \in DOMAIN v :
         (\A i \in DOMAIN u : u[i][2] # e[2])
           /\ (\A i, j \in DOMAIN u : u[i][2] = u[j][2] => i = j)
           /\ v[k][2] = v[l][2] => k = l
  BY <1>2, <1>9, <1>17
<1> QED BY <1>18, <1>19, <1>20 DEF InOrder
-----------------------------------------------------------------------------
(* What the search sr has found so far, fd, among the points pts.           *)
Wanted(sr) ==
  /\ sr.kind = "radius" \/ sr.kind = "nearest" \/ sr.kind = "k_radius"
  /\ sr.query \in [1 .. Dim -> Int] /\ sr.sradius \in Int

Entries(pts, ids, q, fd) ==
  /\ fd \in Seq(Int \X Int)
  /\ \A k \in DOMAIN fd : fd[k][2] \in ids /\ fd[k][1] = Distance(q, pts[fd[k][2]])
  /\ \A k, l \in DOMAIN fd : fd[k][2] = fd[l][2] => k = l

OfKind(sr, fd) ==
  /\ sr.kind # "nearest" => \A k \in DOMAIN fd : fd[k][1] < sr.sradius
  /\ sr.kind = "nearest" => Len(fd) <= 1
  /\ sr.kind = "k_radius" => Len(fd) <= K /\ Sorted(fd)

(* The search needs the point no more: it is too far, or has been found, or *)
(* one not farther has.                                                     *)
Passed(pts, sr, fd, j) ==
  \/ sr.kind # "nearest" /\ sr.sradius <= Distance(sr.query, pts[j])
  \/ sr.kind = "radius" /\ \E k \in DOMAIN fd : fd[k][2] = j
  \/ sr.kind # "radius" /\ fd # <<>> /\ fd[1][1] <= Distance(sr.query, pts[j])

CloserOf(sr, fd, sdist) ==
  IF sr.kind = "radius" \/ fd = <<>>
  THEN sr.kind = "nearest" \/ sdist < sr.sradius
  ELSE sdist < Last(fd)[1]

NotedOf(sr, fd, e) ==
  CASE sr.kind = "radius"  -> Append(fd, e)
    [] sr.kind = "nearest" -> <<e>>
    [] sr.kind = "k_radius" -> Inserted(IF Len(fd) = K THEN Front(fd) ELSE fd, e)

(* The first entry of what was found is not farther than the others.        *)
LEMMA FirstNearest ==
  ASSUME NEW fd \in Seq(Int \X Int), fd # <<>>, Sorted(fd) \/ Len(fd) <= 1, NEW k \in DOMAIN fd
  PROVE  1 \in DOMAIN fd /\ fd[1][1] <= fd[k][1]
<1>1. PICK n \in Nat \ {0} : n = Len(fd) /\ DOMAIN fd = 1 .. n
  BY SeqFacts
<1>2. fd[1] \in Int \X Int /\ fd[k] \in Int \X Int
  BY <1>1, SeqFacts
<1>3. CASE k = 1
  BY <1>1, <1>2, <1>3
<1>4. CASE k # 1
  <2>1. Before(fd[1], fd[k])
    <3>1. Sorted(fd) /\ 1 < k /\ 1 \in DOMAIN fd
      BY <1>1, <1>4
    <3> QED BY <3>1 DEF Sorted
  <2> QED BY <1>1, <1>2, <2>1, BeforeOrder
<1> QED BY <1>3, <1>4

(* What is not closer than the limit is needed no more, nor anything beyond.*)
LEMMA FartherPassed ==
  ASSUME NEW pts, NEW ids, NEW sr, Wanted(sr), NEW fd, Entries(pts, ids, sr.query, fd),
         OfKind(sr, fd), NEW d \in Int, ~CloserOf(sr, fd, d),
         NEW j, Distance(sr.query, pts[j]) \in Int, d <= Distance(sr.query, pts[j])
  PROVE  Passed(pts, sr, fd, j)
<1>1. CASE sr.kind = "radius" \/ fd = <<>>
  <2>1. sr.kind # "nearest" /\ ~(d < sr.sradius)
    BY <1>1 DEF CloserOf
  <2>2. sr.sradius <= Distance(sr.query, pts[j])
    <3>1. sr.sradius \in Int
      BY DEF Wanted
    <3>2. PICK x \in Int, y \in Int : x = sr.sradius /\ y = Distance(sr.query, pts[j])
      BY <3>1
    <3>3. ~(d < x) /\ d <= y
      BY <2>1, <3>2
    <3>4. x <= y
      BY <3>3
    <3> QED BY <3>2, <3>4
  <2> QED BY <2>1, <2>2 DEF Passed
<1>2. CASE sr.kind # "radius" /\ fd # <<>>
  <2>1. ~(d < Last(fd)[1])
    BY <1>2 DEF CloserOf
  <2>2. fd \in Seq(Int \X Int) /\ (Sorted(fd) \/ Len(fd) <= 1)
    BY <1>2 DEF Entries, OfKind, Wanted
  <2>3. PICK n \in Nat \ {0} : n = Len(fd) /\ DOMAIN fd = 1 .. n
    BY <1>2, <2>2, SeqFacts
  <2>4. Last(fd) = fd[n] /\ n \in DOMAIN fd /\ 1 \in DOMAIN fd
    BY <2>3 DEF Last
  <2>5. fd[1] \in Int \X Int /\ fd[n] \in Int \X Int
    BY <2>2, <2>3, SeqFacts
  <2>6. fd[1][1] <= fd[n][1]
    BY <1>2, <2>2, <2>4, FirstNearest
  <2>7. PICK x \in Int, z \in Int, y \in Int :
               x = fd[1][1] /\ z = fd[n][1] /\ y = Distance(sr.query, pts[j])
    BY <2>5
  <2>8. x <= z /\ ~(d < z) /\ d <= y
    BY <2>1, <2>4, <2>6, <2>7
  <2>9. x <= y
    BY <2>8
  <2> QED BY <1>2, <2>7, <2>9 DEF Passed
<1> QED BY <1>1, <1>2

(* What noting an entry does for any of the searches.                       *)
Notes(pts, ids, sr, fd, e, new) ==
  /\ Entries(pts, ids, sr.query, new) /\ OfKind(sr, new)
  /\ \A k \in DOMAIN new : new[k] = e \/ \E l \in DOMAIN fd : new[k] = fd[l]
  /\ \A j \in ids : Passed(pts, sr, fd, j) => Passed(pts, sr, new, j)
  /\ Passed(pts, sr, new, e[2])

(* Each search notes an entry in its own way: within a radius at the end;   *)
LEMMA RadiusNotes ==
  ASSUME NEW pts, NEW ids, NEW sr, Wanted(sr), sr.kind = "radius",
         NEW fd, Entries(pts, ids, sr.query, fd), OfKind(sr, fd),
         NEW e \in Int \X Int, e[2] \in ids, e[1] = Distance(sr.query, pts[e[2]]),
         CloserOf(sr, fd, e[1]), \A k \in DOMAIN fd : fd[k][2] # e[2]
  PROVE  Notes(pts, ids, sr, fd, e, NotedOf(sr, fd, e))
<1> DEFINE new == Append(fd, e)
<1>1. NotedOf(sr, fd, e) = new
  BY DEF NotedOf
<1>2. PICK n \in Nat : n = Len(fd) /\ DOMAIN fd = 1 .. n
  BY SeqFacts DEF Entries
<1>3. /\ new \in Seq(Int \X Int) /\ Len(new) = n + 1
      /\ (\A i \in 1 .. n : new[i] = fd[i]) /\ new[n + 1] = e
  <2>1. /\ new \in Seq(Int \X Int) /\ Len(new) = Len(fd) + 1
        /\ (\A i \in 1 .. Len(fd) : new[i] = fd[i]) /\ new[Len(fd) + 1] = e
    BY AppendProperties DEF Entries
  <2> QED BY <1>2, <2>1
<1>4. DOMAIN new = 1 .. n + 1
  BY <1>3, SeqFacts
<1>5. PICK v : v = new
  OBVIOUS
<1> HIDE DEF new
<1>6. \A k \in DOMAIN v : (k \in 1 .. n /\ k \in DOMAIN fd /\ v[k] = fd[k]) \/ (k = n + 1 /\ v[k] = e)
  BY <1>2, <1>3, <1>4, <1>5
<1>7. e[1] < sr.sradius
  BY DEF CloserOf
<1>8. Entries(pts, ids, sr.query, v)
  <2>1. v \in Seq(Int \X Int)
    BY <1>3, <1>5
  <2>2. ASSUME NEW k \in DOMAIN v
        PROVE  v[k][2] \in ids /\ v[k][1] = Distance(sr.query, pts[v[k][2]])
    BY <1>6, <2>2 DEF Entries
  <2>3. ASSUME NEW k \in DOMAIN v, NEW l \in DOMAIN v, v[k][2] = v[l][2] PROVE k = l
    BY <1>6, <2>3 DEF Entries
  <2> QED BY <2>1, <2>2, <2>3 DEF Entries
<1>9. OfKind(sr, v)
  BY <1>6, <1>7 DEF OfKind
<1>10. \A j : Passed(pts, sr, fd, j) => Passed(pts, sr, v, j)
  <2> SUFFICES ASSUME NEW j, NEW k \in DOMAIN fd, fd[k][2] = j
               PROVE  \E l \in DOMAIN v : v[l][2] = j
    BY DEF Passed
  <2>1. k \in DOMAIN v /\ v[k] = fd[k]
    BY <1>2, <1>3, <1>4, <1>5
  <2> QED BY <2>1
<1>11. Passed(pts, sr, v, e[2])
  <2>1. n + 1 \in DOMAIN v /\ v[n + 1] = e
    BY <1>3, <1>4, <1>5
  <2> QED BY <2>1 DEF Passed
<1> QED BY <1>1, <1>5, <1>6, <1>8, <1>9, <1>10, <1>11 DEF Notes

LEMMA OneEntry ==
  ASSUME NEW e
  PROVE  DOMAIN <<e>> = {1} /\ <<e>>[1] = e /\ Len(<<e>>) = 1 /\ <<e>> # <<>>
OBVIOUS

(* the nearest instead of the one before;                                   *)
LEMMA NearestNotes ==
  ASSUME NEW pts, NEW ids, NEW sr, Wanted(sr), sr.kind = "nearest",
         NEW fd, Entries(pts, ids, sr.query, fd), OfKind(sr, fd),
         NEW e \in Int \X Int, e[2] \in ids, e[1] = Distance(sr.query, pts[e[2]]),
         \A i \in ids : Distance(sr.query, pts[i]) \in Int,
         CloserOf(sr, fd, e[1])
  PROVE  Notes(pts, ids, sr, fd, e, NotedOf(sr, fd, e))
<1>1. PICK v : v = <<e>> /\ NotedOf(sr, fd, e) = v
  BY DEF NotedOf
<1>2. DOMAIN v = {1} /\ v[1] = e /\ Len(v) = 1 /\ v # <<>>
  BY <1>1, OneEntry
<1>3. Entries(pts, ids, sr.query, v)
  <2>1. v \in Seq(Int \X Int)
    BY <1>1
  <2> QED BY <1>2, <2>1 DEF Entries
<1>4. OfKind(sr, v)
  BY <1>2 DEF OfKind
<1>5. ASSUME NEW j \in ids, Passed(pts, sr, fd, j)
      PROVE  Passed(pts, sr, v, j)
  <2>1. fd # <<>> /\ fd[1][1] <= Distance(sr.query, pts[j])
    BY <1>5 DEF Passed
  <2>2. PICK n \in Nat \ {0} : n = Len(fd) /\ DOMAIN fd = 1 .. n
    BY <2>1, SeqFacts DEF Entries
  <2>3. n = 1
    BY <2>2 DEF OfKind
  <2>4. e[1] < fd[1][1]
    BY <2>1, <2>2, <2>3 DEF CloserOf, Last
  <2>5. fd[1] \in Int \X Int
    BY <2>2, SeqFacts DEF Entries
  <2>6. PICK x \in Int, y \in Int, z \in Int :
               x = e[1] /\ y = fd[1][1] /\ z = Distance(sr.query, pts[j])
    BY <2>5
  <2>7. x <= z
    BY <2>1, <2>4, <2>6
  <2> QED BY <1>2, <2>6, <2>7 DEF Passed
<1>6. Passed(pts, sr, v, e[2])
  BY <1>2 DEF Passed
<1> QED BY <1>1, <1>2, <1>3, <1>4, <1>5, <1>6 DEF Notes

(* Without its last entry a full queue is what it was.                      *)
Room(fd) == IF Len(fd) = K THEN Front(fd) ELSE fd

LEMMA RoomFacts ==
  ASSUME NEW pts, NEW ids, NEW q, NEW fd, Entries(pts, ids, q, fd), Sorted(fd), Len(fd) <= K
  PROVE  /\ Entries(pts, ids, q, Room(fd)) /\ Sorted(Room(fd)) /\ Len(Room(fd)) < K
         /\ \A k \in DOMAIN Room(fd) : k \in DOMAIN fd /\ Room(fd)[k] = fd[k]
         /\ Len(fd) <= Len(Room(fd)) + 1
<1>1. PICK n \in Nat : n = Len(fd) /\ DOMAIN fd = 1 .. n
  BY SeqFacts DEF Entries
<1>2. PICK v : v = Room(fd)
  OBVIOUS
<1>3. /\ v \in Seq(Int \X Int) /\ Len(v) \in Nat /\ DOMAIN v = 1 .. Len(v)
      /\ Len(v) < K /\ Len(v) <= n /\ n <= Len(v) + 1
      /\ \A k \in 1 .. Len(v) : v[k] = fd[k]
  <2>1. CASE n = K
    <3>1. v = Front(fd)
      BY <1>1, <1>2, <2>1 DEF Room
    <3>2. fd # <<>>
      BY <1>1, <2>1, KAssumption, EmptySeq
    <3>3. /\ v \in Seq(Int \X Int) /\ Len(v) = n - 1
          /\ \A k \in 1 .. n - 1 : v[k] = fd[k]
      BY <1>1, <3>1, <3>2, FrontFacts DEF Entries
    <3>4. DOMAIN v = 1 .. Len(v)
      BY <3>3, SeqFacts
    <3> QED BY <1>1, <2>1, <3>3, <3>4, KAssumption
  <2>2. CASE n # K
    <3>1. v = fd
      BY <1>1, <1>2, <2>2 DEF Room
    <3> QED BY <1>1, <2>2, <3>1, KAssumption DEF Entries
  <2> QED BY <2>1, <2>2
<1>4. \A k \in DOMAIN v : k \in DOMAIN fd /\ v[k] = fd[k]
  BY <1>1, <1>3
<1>5. Entries(pts, ids, q, v)
  BY <1>3, <1>4 DEF Entries
<1>6. Sorted(v)
  BY <1>4 DEF Sorted
<1> QED BY <1>1, <1>2, <1>3, <1>4, <1>5, <1>6

(* the k nearest in its place, the farthest dropped if there is no room.    *)
(* The first of the queue stays the nearest that was found, even if K is 1  *)
(* and the one dropped was all there was.                                   *)
LEMMA KNotes ==
  ASSUME NEW pts, NEW ids, NEW sr, Wanted(sr), sr.kind = "k_radius",
         NEW fd, Entries(pts, ids, sr.query, fd), OfKind(sr, fd),
         NEW e \in Int \X Int, e[2] \in ids, e[1] = Distance(sr.query, pts[e[2]]),
         \A i \in ids : Distance(sr.query, pts[i]) \in Int,
         CloserOf(sr, fd, e[1]), \A k \in DOMAIN fd : fd[k][2] # e[2]
  PROVE  Notes(pts, ids, sr, fd, e, NotedOf(sr, fd, e))
<1>0. Sorted(fd) /\ Len(fd) <= K /\ \A k \in DOMAIN fd : fd[k][1] < sr.sradius
  BY DEF OfKind
<1>1. PICK u : u = Room(fd)
  OBVIOUS
<1>2. /\ Entries(pts, ids, sr.query, u) /\ Sorted(u) /\ Len(u) < K
      /\ \A k \in DOMAIN u : k \in DOMAIN fd /\ u[k] = fd[k]
      /\ Len(fd) <= Len(u) + 1
  BY <1>0, <1>1, RoomFacts
<1>3. PICK v : v = Inserted(u, e)
  OBVIOUS
<1>4. NotedOf(sr, fd, e) = v
  BY <1>1, <1>3 DEF NotedOf, Room
<1>5. u \in Seq(Int \X Int)
  BY <1>2 DEF Entries
<1>6. InOrder(u, e, v)
  <2>1. Sorted(u) /\ e \in Int \X Int
    BY <1>2
  <2>2. InOrder(u, e, Inserted(u, e))
    BY <1>5, <2>1, InsertedSorted, Zenon
  <2> QED BY <1>3, <2>2
<1>7. /\ v \in Seq(Int \X Int) /\ Len(v) = Len(u) + 1 /\ Sorted(v)
      /\ \A k \in DOMAIN v : v[k] = e \/ \E l \in DOMAIN u : v[k] = u[l]
      /\ \A l \in DOMAIN u : \E k \in DOMAIN v : v[k] = u[l]
      /\ \E k \in DOMAIN v : v[k] = e
  BY <1>6, Zenon DEF InOrder
<1>8. PICK n \in Nat : n = Len(fd) /\ DOMAIN fd = 1 .. n
  BY SeqFacts DEF Entries
<1>9. e[1] < sr.sradius
  <2>1. CASE fd = <<>>
    BY <2>1 DEF CloserOf
  <2>2. CASE fd # <<>>
    <3>1. n # 0
      BY <1>8, <2>2, SeqFacts DEF Entries
    <3>2. e[1] < fd[n][1] /\ fd[n][1] < sr.sradius /\ fd[n] \in Int \X Int
      BY <1>0, <1>8, <2>2, <3>1, SeqFacts DEF CloserOf, Last, Entries
    <3>3. sr.sradius \in Int /\ e[1] \in Int
      BY DEF Wanted
    <3>4. PICK x \in Int, y \in Int, z \in Int : x = e[1] /\ y = fd[n][1] /\ z = sr.sradius
      BY <3>2, <3>3
    <3>5. x < z
      BY <3>2, <3>4
    <3> QED BY <3>4, <3>5
  <2> QED BY <2>1, <2>2
<1>10. Entries(pts, ids, sr.query, v)
  <2>1. ASSUME NEW k \in DOMAIN v
        PROVE  v[k][2] \in ids /\ v[k][1] = Distance(sr.query, pts[v[k][2]])
    <3>1. CASE v[k] = e
      BY <3>1
    <3>2. ASSUME NEW l \in DOMAIN u, v[k] = u[l]
          PROVE  v[k][2] \in ids /\ v[k][1] = Distance(sr.query, pts[v[k][2]])
      BY <1>2, <3>2 DEF Entries
    <3> QED BY <1>7, <3>1, <3>2
  <2>2. ASSUME NEW k \in DOMAIN v, NEW l \in DOMAIN v, v[k][2] = v[l][2] PROVE k = l
    <3>1. \A i \in DOMAIN u : u[i][2] # e[2]
      BY <1>2
    <3>2. \A i, j \in DOMAIN u : u[i][2] = u[j][2] => i = j
      BY <1>2 DEF Entries
    <3> QED BY <1>6, <2>2, <3>1, <3>2, Zenon DEF InOrder
  <2> QED BY <1>7, <2>1, <2>2 DEF Entries
<1>11. OfKind(sr, v)
  <2>1. Len(v) <= K
    <3>1. PICK a \in Nat : a = Len(u)
      BY <1>5, SeqFacts
    <3> QED BY <1>2, <1>7, <3>1, KAssumption
  <2>2. ASSUME NEW k \in DOMAIN v PROVE v[k][1] < sr.sradius
    <3>1. CASE v[k] = e
      BY <1>9, <3>1
    <3>2. ASSUME NEW l \in DOMAIN u, v[k] = u[l] PROVE v[k][1] < sr.sradius
      BY <1>0, <1>2, <3>2
    <3> QED BY <1>7, <3>1, <3>2
  <2> QED BY <1>7, <2>1, <2>2 DEF OfKind
<1>12. v # <<>> /\ \A k \in DOMAIN v : v[1][1] <= v[k][1]
  <2>1. v # <<>>
    <3>1. PICK k : k \in DOMAIN v
      BY <1>7
    <3>2. DOMAIN <<>> = {}
      OBVIOUS
    <3> QED BY <3>1, <3>2
  <2> QED BY <1>7, <2>1, FirstNearest
<1>13. v[1][1] \in Int
  <2>1. 1 \in DOMAIN v
    BY <1>7, <1>12, FirstNearest
  <2>2. v[1] \in Int \X Int
    BY <1>7, <2>1, SeqFacts
  <2> QED BY <2>2
<1>14. Passed(pts, sr, v, e[2])
  <2>1. PICK k \in DOMAIN v : v[k] = e
    BY <1>7
  <2>2. v[1][1] <= e[1]
    BY <1>12, <2>1
  <2> QED BY <1>12, <2>2 DEF Passed
<1>15. ASSUME fd # <<>> PROVE v[1][1] <= fd[1][1] /\ fd[1][1] \in Int
  <2>1. n # 0
    BY <1>8, <1>15, SeqFacts DEF Entries
  <2>2. fd[1] \in Int \X Int
    BY <1>8, <2>1, SeqFacts DEF Entries
  <2>3. CASE Len(u) = 0
    <3>1. n = 1
      BY <1>2, <1>8, <2>1, <2>3
    <3>2. e[1] < fd[1][1]
      BY <1>8, <1>15, <3>1 DEF CloserOf, Last
    <3>3. PICK k \in DOMAIN v : v[k] = e
      BY <1>7
    <3>4. v[1][1] <= e[1]
      BY <1>12, <3>3
    <3>5. PICK x \in Int, y \in Int, z \in Int : x = v[1][1] /\ y = e[1] /\ z = fd[1][1]
      BY <1>13, <2>2
    <3>6. x <= z
      BY <3>2, <3>4, <3>5
    <3> QED BY <2>2, <3>5, <3>6
  <2>4. CASE Len(u) # 0
    <3>1. 1 \in DOMAIN u
      BY <1>5, <2>4, SeqFacts
    <3>2. PICK k \in DOMAIN v : v[k] = u[1]
      BY <1>7, <3>1
    <3>3. u[1] = fd[1]
      BY <1>2, <3>1
    <3> QED BY <1>12, <2>2, <3>2, <3>3
  <2> QED BY <2>3, <2>4
<1>16. ASSUME NEW j \in ids, Passed(pts, sr, fd, j)
       PROVE  Passed(pts, sr, v, j)
  <2>1. CASE sr.sradius <= Distance(sr.query, pts[j])
    BY <2>1 DEF Passed
  <2>2. CASE fd # <<>> /\ fd[1][1] <= Distance(sr.query, pts[j])
    <3>1. PICK x \in Int, y \in Int, z \in Int :
                 x = v[1][1] /\ y = fd[1][1] /\ z = Distance(sr.query, pts[j])
      BY <1>13, <1>15, <2>2
    <3>2. x <= z
      BY <1>15, <2>2, <3>1
    <3> QED BY <1>12, <3>1, <3>2 DEF Passed
  <2> QED BY <1>16, <2>1, <2>2 DEF Passed
<1>17. ASSUME NEW k \in DOMAIN v PROVE v[k] = e \/ \E l \in DOMAIN fd : v[k] = fd[l]
  BY <1>2, <1>7
<1> QED BY <1>4, <1>10, <1>11, <1>14, <1>16, <1>17 DEF Notes

(* So noting keeps what every search relies on, and what was passed is      *)
(* passed.                                                                  *)
LEMMA NotedNotes ==
  ASSUME NEW pts, NEW ids, NEW sr, Wanted(sr),
         NEW fd, Entries(pts, ids, sr.query, fd), OfKind(sr, fd),
         NEW e \in Int \X Int, e[2] \in ids, e[1] = Distance(sr.query, pts[e[2]]),
         \A i \in ids : Distance(sr.query, pts[i]) \in Int,
         CloserOf(sr, fd, e[1]), \A k \in DOMAIN fd : fd[k][2] # e[2]
  PROVE  Notes(pts, ids, sr, fd, e, NotedOf(sr, fd, e))
BY RadiusNotes, NearestNotes, KNotes DEF Wanted
-----------------------------------------------------------------------------
(* The calls of a search: a call that was made visits what is under its     *)
(* node, one that is crossing at most what is under the far side.           *)
Frame == [node : Int, crossing : BOOLEAN]

AheadOf(pts, ns, q, f) == Under(ns, IF f.crossing THEN FarOf(pts, ns, q, f.node) ELSE f.node)

(* The nodes that some call on the stack has ahead of it.                   *)
LeftOf(pts, ns, q, st) == {m \in DOMAIN ns : \E i \in DOMAIN st : m \in AheadOf(pts, ns, q, st[i])}

(* A call is for a node or for none, and one that crosses for a node.       *)
ForNode(ns, f) == f.node \in DOMAIN ns \cup {Null} /\ (f.crossing => f.node \in DOMAIN ns)

(* No node is ahead of two calls.                                           *)
Stacked(pts, ns, q, st) ==
  /\ st \in Seq(Frame)
  /\ \A i \in DOMAIN st : ForNode(ns, st[i])
  /\ \A i, j \in DOMAIN st :
       i # j => AheadOf(pts, ns, q, st[i]) \cap AheadOf(pts, ns, q, st[j]) = {}

LEMMA AheadInIds ==
  ASSUME NEW pts, NEW ns, NEW q, NEW f
  PROVE  AheadOf(pts, ns, q, f) \subseteq DOMAIN ns
BY DEF AheadOf, Under

(* Without its last call the stack has that much less ahead of it.          *)
LEMMA FrontLeft ==
  ASSUME NEW pts, NEW ns, NEW q, NEW st, Stacked(pts, ns, q, st), st # <<>>
  PROVE  /\ Stacked(pts, ns, q, Front(st))
         /\ LeftOf(pts, ns, q, st) =
              LeftOf(pts, ns, q, Front(st)) \cup AheadOf(pts, ns, q, Last(st))
         /\ LeftOf(pts, ns, q, Front(st)) \cap AheadOf(pts, ns, q, Last(st)) = {}
         /\ Last(st) \in Frame /\ ForNode(ns, Last(st))
<1>1. PICK n \in Nat \ {0} : n = Len(st) /\ DOMAIN st = 1 .. n
  BY SeqFacts DEF Stacked
<1>2. PICK v, l : v = Front(st) /\ l = Last(st)
  OBVIOUS
<1>3. /\ v \in Seq(Frame) /\ Len(v) = n - 1 /\ (\A i \in 1 .. n - 1 : v[i] = st[i])
      /\ l = st[n] /\ l \in Frame
  BY <1>1, <1>2, FrontFacts DEF Stacked
<1>4. DOMAIN v = 1 .. n - 1
  BY <1>3, SeqFacts
<1>5. \A i \in DOMAIN v : i \in DOMAIN st /\ i # n /\ v[i] = st[i]
  BY <1>1, <1>3, <1>4
<1>6. n \in DOMAIN st /\ \A i \in DOMAIN st : i = n \/ i \in DOMAIN v
  BY <1>1, <1>4
<1>7. Stacked(pts, ns, q, v)
  BY <1>3, <1>5 DEF Stacked
<1>8. LeftOf(pts, ns, q, st) = LeftOf(pts, ns, q, v) \cup AheadOf(pts, ns, q, l)
  BY <1>3, <1>5, <1>6, AheadInIds DEF LeftOf
<1>9. LeftOf(pts, ns, q, v) \cap AheadOf(pts, ns, q, l) = {}
  <2> SUFFICES ASSUME NEW i \in DOMAIN v, NEW m \in AheadOf(pts, ns, q, v[i]),
                      m \in AheadOf(pts, ns, q, l)
               PROVE  FALSE
    BY DEF LeftOf
  <2>1. i \in DOMAIN st /\ i # n /\ v[i] = st[i] /\ l = st[n] /\ n \in DOMAIN st
    BY <1>3, <1>5, <1>6
  <2>2. AheadOf(pts, ns, q, st[i]) \cap AheadOf(pts, ns, q, st[n]) = {}
    BY <2>1 DEF Stacked
  <2> QED BY <2>1, <2>2
<1>10. ForNode(ns, l)
  BY <1>3, <1>6 DEF Stacked
<1> QED BY <1>2, <1>3, <1>7, <1>8, <1>9, <1>10

(* A call added has its own ahead of it besides.                            *)
LEMMA PushLeft ==
  ASSUME NEW pts, NEW ns, NEW q, NEW st, Stacked(pts, ns, q, st),
         NEW f \in Frame, ForNode(ns, f),
         LeftOf(pts, ns, q, st) \cap AheadOf(pts, ns, q, f) = {}
  PROVE  /\ Stacked(pts, ns, q, Append(st, f))
         /\ LeftOf(pts, ns, q, Append(st, f)) =
              LeftOf(pts, ns, q, st) \cup AheadOf(pts, ns, q, f)
<1>1. PICK n \in Nat : n = Len(st) /\ DOMAIN st = 1 .. n
  BY SeqFacts DEF Stacked
<1>2. PICK v : v = Append(st, f)
  OBVIOUS
<1>3. /\ v \in Seq(Frame) /\ Len(v) = n + 1
      /\ (\A i \in 1 .. n : v[i] = st[i]) /\ v[n + 1] = f
  <2>1. /\ v \in Seq(Frame) /\ Len(v) = Len(st) + 1
        /\ (\A i \in 1 .. Len(st) : v[i] = st[i]) /\ v[Len(st) + 1] = f
    BY <1>2, AppendProperties DEF Stacked
  <2> QED BY <1>1, <2>1
<1>4. DOMAIN v = 1 .. n + 1
  BY <1>3, SeqFacts
<1>5. \A i \in DOMAIN v : (i \in DOMAIN st /\ v[i] = st[i]) \/ (i = n + 1 /\ v[i] = f)
  BY <1>1, <1>3, <1>4
<1>6. /\ \A i \in DOMAIN st : i \in DOMAIN v /\ v[i] = st[i]
      /\ n + 1 \in DOMAIN v /\ v[n + 1] = f
  BY <1>1, <1>3, <1>4
<1>7. \A i \in DOMAIN st : AheadOf(pts, ns, q, st[i]) \subseteq LeftOf(pts, ns, q, st)
  BY AheadInIds DEF LeftOf
<1>8. ASSUME NEW i \in DOMAIN v, NEW j \in DOMAIN v, i # j
      PROVE  AheadOf(pts, ns, q, v[i]) \cap AheadOf(pts, ns, q, v[j]) = {}
  <2>1. CASE i \in DOMAIN st /\ v[i] = st[i] /\ j \in DOMAIN st /\ v[j] = st[j]
    BY <1>8, <2>1 DEF Stacked
  <2>2. CASE i \in DOMAIN st /\ v[i] = st[i] /\ v[j] = f
    BY <1>7, <2>2
  <2>3. CASE j \in DOMAIN st /\ v[j] = st[j] /\ v[i] = f
    BY <1>7, <2>3
  <2> QED BY <1>5, <1>8, <2>1, <2>2, <2>3
<1>9. Stacked(pts, ns, q, v)
  <2>1. \A i \in DOMAIN v : ForNode(ns, v[i])
    BY <1>5 DEF Stacked
  <2> QED BY <1>3, <1>8, <2>1 DEF Stacked
<1>10. LeftOf(pts, ns, q, v) = LeftOf(pts, ns, q, st) \cup AheadOf(pts, ns, q, f)
  BY <1>5, <1>6, AheadInIds DEF LeftOf
<1> QED BY <1>2, <1>9, <1>10

LEMMA NothingStacked ==
  ASSUME NEW pts, NEW ns, NEW q
  PROVE  Stacked(pts, ns, q, <<>>) /\ LeftOf(pts, ns, q, <<>>) = {}
<1>1. DOMAIN <<>> = {} /\ <<>> \in Seq(Frame)
  OBVIOUS
<1> QED BY <1>1 DEF Stacked, LeftOf

(* A call replaced on top of the stack is taken off and another put on.     *)
LEMMA TopReplaced ==
  ASSUME NEW st \in Seq(Frame), st # <<>>, NEW f \in Frame
  PROVE  [st EXCEPT ![Len(st)] = f] = Append(Front(st), f)
<1>1. PICK n \in Nat \ {0} : n = Len(st) /\ DOMAIN st = 1 .. n
  BY SeqFacts
<1>2. PICK u : u = Front(st)
  OBVIOUS
<1>3. /\ u \in Seq(Frame) /\ Len(u) = n - 1 /\ \A i \in 1 .. n - 1 : u[i] = st[i]
  BY <1>1, <1>2, FrontFacts
<1>4. /\ Append(u, f) \in Seq(Frame) /\ Len(Append(u, f)) = n
      /\ (\A i \in 1 .. n - 1 : Append(u, f)[i] = u[i]) /\ Append(u, f)[n] = f
  <2>1. /\ Append(u, f) \in Seq(Frame) /\ Len(Append(u, f)) = Len(u) + 1
        /\ (\A i \in 1 .. Len(u) : Append(u, f)[i] = u[i]) /\ Append(u, f)[Len(u) + 1] = f
    BY <1>3, AppendProperties
  <2> QED BY <1>1, <1>3, <2>1
<1>5. PICK v, w : v = Append(u, f) /\ w = [st EXCEPT ![n] = f]
  OBVIOUS
<1>6. w \in Seq(Frame) /\ Len(w) = n /\ \A i \in 1 .. n : w[i] = IF i = n THEN f ELSE st[i]
  BY <1>1, <1>5
<1>7. \A i \in 1 .. n : w[i] = v[i]
  BY <1>3, <1>4, <1>5, <1>6
<1>8. w = v
  BY <1>4, <1>5, <1>6, <1>7, SeqEqual
<1> QED BY <1>1, <1>2, <1>5, <1>8
-----------------------------------------------------------------------------
(* The invariant of a search: no node is ahead of it twice or once its      *)
(* point is found, and one that is not ahead is needed no more.             *)
Covered(pts, ns, sr, left, fd) ==
  /\ \A m \in left, k \in DOMAIN fd : fd[k][2] # ns[m].index
  /\ \A m \in DOMAIN ns : m \in left \/ Passed(pts, sr, fd, ns[m].index)

SearchOf(pts, ns, sr, st, fd) ==
  /\ Wanted(sr)
  /\ Entries(pts, DOMAIN ns, sr.query, fd)
  /\ OfKind(sr, fd)
  /\ Stacked(pts, ns, sr.query, st)
  /\ Covered(pts, ns, sr, LeftOf(pts, ns, sr.query, st), fd)

(* A call that was just made has all that is under its node ahead of it.    *)
LEMMA EnteredNode ==
  ASSUME NEW pts, NEW ns, NEW q, NEW n
  PROVE  /\ AheadOf(pts, ns, q, Entered(n)) = Under(ns, n)
         /\ n \in DOMAIN ns \cup {Null} => ForNode(ns, Entered(n))
         /\ n \in Int => Entered(n) \in Frame
BY DEF AheadOf, Entered, ForNode, Frame

LEMMA EnteredCrosses ==
  ASSUME NEW n \in Int
  PROVE  [Entered(n) EXCEPT !.crossing = TRUE] = [node |-> n, crossing |-> TRUE]
<1>1. PICK f \in Frame : f = Entered(n)
  BY DEF Frame, Entered
<1>2. PICK g : g = [f EXCEPT !.crossing = TRUE]
  OBVIOUS
<1>3. g \in Frame
  BY <1>2 DEF Frame
<1>4. g.node = n /\ g.crossing = TRUE
  BY <1>1, <1>2 DEF Frame, Entered
<1>5. g = [node |-> n, crossing |-> TRUE]
  BY <1>3, <1>4 DEF Frame
<1> QED BY <1>1, <1>2, <1>5

(* A search starts with all of the tree ahead of it, or with no tree.       *)
LEMMA StartStep ==
  ASSUME NEW pts, NEW ns, NEW sr, Wanted(sr), Branching(pts, ns, sr.query)
  PROVE  SearchOf(pts, ns, sr, IF DOMAIN ns = {} THEN <<>> ELSE <<Entered(0)>>, <<>>)
<1> DEFINE left(st) == LeftOf(pts, ns, sr.query, st)
<1>1. DOMAIN <<>> = {} /\ <<>> \in Seq(Int \X Int) /\ Len(<<>>) = 0
  OBVIOUS
<1>2. Entries(pts, DOMAIN ns, sr.query, <<>>) /\ OfKind(sr, <<>>)
  BY <1>1, KAssumption DEF Entries, OfKind, Sorted
<1>3. Stacked(pts, ns, sr.query, <<>>) /\ left(<<>>) = {}
  BY NothingStacked
<1>4. CASE DOMAIN ns = {}
  BY <1>2, <1>3, <1>4 DEF SearchOf, Covered, Wanted
<1>5. CASE DOMAIN ns # {}
  <2>1. 0 \in DOMAIN ns /\ Under(ns, 0) = DOMAIN ns
    BY <1>5 DEF Branching
  <2>2. AheadOf(pts, ns, sr.query, Entered(0)) = DOMAIN ns
        /\ ForNode(ns, Entered(0)) /\ Entered(0) \in Frame
    BY <2>1, EnteredNode
  <2>3. <<Entered(0)>> = Append(<<>>, Entered(0))
    OBVIOUS
  <2>4. Stacked(pts, ns, sr.query, <<Entered(0)>>) /\ left(<<Entered(0)>>) = DOMAIN ns
    <3>1. left(<<>>) \cap AheadOf(pts, ns, sr.query, Entered(0)) = {}
      BY <1>3
    <3>2. /\ Stacked(pts, ns, sr.query, Append(<<>>, Entered(0)))
          /\ left(Append(<<>>, Entered(0))) = left(<<>>) \cup AheadOf(pts, ns, sr.query, Entered(0))
      BY <1>3, <2>2, <3>1, PushLeft
    <3> QED BY <1>3, <2>2, <2>3, <3>2
  <2>5. Covered(pts, ns, sr, left(<<Entered(0)>>), <<>>)
    BY <1>1, <2>4 DEF Covered
  <2> QED BY <1>2, <1>5, <2>4, <2>5 DEF SearchOf
<1> QED BY <1>4, <1>5

(* A call for no node had nothing ahead of it.                              *)
LEMMA NullStep ==
  ASSUME NEW pts, NEW ns, NEW sr, NEW st, NEW fd,
         SearchOf(pts, ns, sr, st, fd), st # <<>>, Last(st) = Entered(Null)
  PROVE  /\ SearchOf(pts, ns, sr, Front(st), fd)
         /\ LeftOf(pts, ns, sr.query, Front(st)) = LeftOf(pts, ns, sr.query, st)
<1>1. Stacked(pts, ns, sr.query, st)
  BY DEF SearchOf
<1>2. AheadOf(pts, ns, sr.query, Last(st)) = {}
  BY EnteredNode DEF Under
<1>3. /\ Stacked(pts, ns, sr.query, Front(st))
      /\ LeftOf(pts, ns, sr.query, Front(st)) = LeftOf(pts, ns, sr.query, st)
  <2>1. /\ Stacked(pts, ns, sr.query, Front(st))
        /\ LeftOf(pts, ns, sr.query, st) =
             LeftOf(pts, ns, sr.query, Front(st)) \cup AheadOf(pts, ns, sr.query, Last(st))
    BY <1>1, FrontLeft, Zenon
  <2> QED BY <1>2, <2>1, Zenon
<1> QED BY <1>3 DEF SearchOf

(* The stack and what was found after the step that visits node n.          *)
Visits(pts, ns, sr, st, fd, n, after, new) ==
  LET e == <<Distance(sr.query, pts[ns[n].index]), ns[n].index>>
      f == [node |-> n, crossing |-> TRUE] IN
  /\ st # <<>> /\ n \in DOMAIN ns /\ n \in Int /\ Last(st) = Entered(n)
  /\ new = IF CloserOf(sr, fd, e[1]) THEN NotedOf(sr, fd, e) ELSE fd
  /\ after = Append(Append(Front(st), f), Entered(NearOf(pts, ns, sr.query, n)))

(* The search goes on, with n no longer ahead of it.                        *)
Visited(pts, ns, sr, st, n, after, new) ==
  /\ SearchOf(pts, ns, sr, after, new)
  /\ LeftOf(pts, ns, sr.query, after) = LeftOf(pts, ns, sr.query, st) \ {n}

(* A call for a node visits it and has the rest of what is under it ahead:  *)
(* the near side by the call it makes, the far side after that.             *)
LEMMA VisitStep ==
  ASSUME NEW pts, NEW ns, NEW sr, NEW st, NEW fd, NEW n, NEW after, NEW new,
         SearchOf(pts, ns, sr, st, fd), Branching(pts, ns, sr.query), DOMAIN ns \subseteq Int,
         Visits(pts, ns, sr, st, fd, n, after, new)
  PROVE  Visited(pts, ns, sr, st, n, after, new)
<1> DEFINE q == sr.query
           near == NearOf(pts, ns, q, n)
           far == FarOf(pts, ns, q, n)
<1>0. PICK e, f :
        /\ st # <<>> /\ n \in DOMAIN ns /\ n \in Int /\ Last(st) = Entered(n)
        /\ e = <<Distance(sr.query, pts[ns[n].index]), ns[n].index>>
        /\ f = [node |-> n, crossing |-> TRUE]
        /\ new = IF CloserOf(sr, fd, e[1]) THEN NotedOf(sr, fd, e) ELSE fd
        /\ after = Append(Append(Front(st), f), Entered(NearOf(pts, ns, sr.query, n)))
  BY DEF Visits
<1>1. /\ near \in DOMAIN ns \cup {Null} /\ Under(ns, n) = {n} \cup Under(ns, near) \cup Under(ns, far)
      /\ n \notin Under(ns, near) /\ n \notin Under(ns, far)
      /\ Under(ns, near) \cap Under(ns, far) = {}
  BY <1>0 DEF Branching, Branch
<1>2. /\ Wanted(sr) /\ Entries(pts, DOMAIN ns, q, fd) /\ OfKind(sr, fd)
      /\ Stacked(pts, ns, q, st) /\ Covered(pts, ns, sr, LeftOf(pts, ns, q, st), fd)
  BY DEF SearchOf
<1> HIDE DEF near, far
<1>3. /\ AheadOf(pts, ns, q, Last(st)) = Under(ns, n)
      /\ AheadOf(pts, ns, q, Entered(near)) = Under(ns, near)
      /\ ForNode(ns, Entered(near)) /\ Entered(near) \in Frame
  <2>1. near \in Int
    BY <1>1 DEF Null
  <2>2. near \in DOMAIN ns \cup {Null}
    BY <1>1
  <2>3. ForNode(ns, Entered(near)) /\ Entered(near) \in Frame
    BY <2>1, <2>2, EnteredNode
  <2>4. AheadOf(pts, ns, q, Entered(near)) = Under(ns, near)
    BY EnteredNode, Zenon
  <2>5. AheadOf(pts, ns, q, Last(st)) = Under(ns, n)
    BY <1>0, EnteredNode, Zenon
  <2> QED BY <2>3, <2>4, <2>5
<1>4. f \in Frame /\ ForNode(ns, f) /\ AheadOf(pts, ns, q, f) = Under(ns, far)
  BY <1>0 DEF Frame, ForNode, AheadOf, far
<1>5. PICK u, v, w : u = Front(st) /\ v = Append(u, f) /\ w = Append(v, Entered(near))
  OBVIOUS
<1>6. after = w
  BY <1>0, <1>5 DEF near
<1>7. /\ Stacked(pts, ns, q, u) /\ LeftOf(pts, ns, q, st) = LeftOf(pts, ns, q, u) \cup Under(ns, n)
      /\ LeftOf(pts, ns, q, u) \cap Under(ns, n) = {}
  BY <1>0, <1>2, <1>3, <1>5, FrontLeft
<1>8. /\ Stacked(pts, ns, q, v)
      /\ LeftOf(pts, ns, q, v) = LeftOf(pts, ns, q, u) \cup Under(ns, far)
  <2>1. LeftOf(pts, ns, q, u) \cap AheadOf(pts, ns, q, f) = {}
    BY <1>1, <1>4, <1>7
  <2>2. /\ Stacked(pts, ns, q, Append(u, f))
        /\ LeftOf(pts, ns, q, Append(u, f)) = LeftOf(pts, ns, q, u) \cup AheadOf(pts, ns, q, f)
    BY <1>4, <1>7, <2>1, PushLeft, Zenon
  <2> QED BY <1>4, <1>5, <2>2, Zenon
<1>9. /\ Stacked(pts, ns, q, w)
      /\ LeftOf(pts, ns, q, w) = LeftOf(pts, ns, q, v) \cup Under(ns, near)
  <2>1. LeftOf(pts, ns, q, v) \cap AheadOf(pts, ns, q, Entered(near)) = {}
    BY <1>1, <1>3, <1>7, <1>8
  <2>2. /\ Stacked(pts, ns, q, Append(v, Entered(near)))
        /\ LeftOf(pts, ns, q, Append(v, Entered(near))) =
             LeftOf(pts, ns, q, v) \cup AheadOf(pts, ns, q, Entered(near))
    BY <1>3, <1>8, <2>1, PushLeft, Zenon
  <2> QED BY <1>3, <1>5, <2>2, Zenon
<1>10. LeftOf(pts, ns, q, w) = LeftOf(pts, ns, q, st) \ {n} /\ n \in LeftOf(pts, ns, q, st)
  BY <1>1, <1>7, <1>8, <1>9
<1>11. /\ ns[n].index \in DOMAIN ns /\ \A i \in DOMAIN ns : Distance(q, pts[i]) \in Int
       /\ \A m \in DOMAIN ns : ns[m].index = ns[n].index => m = n
       /\ \A m \in DOMAIN ns : ns[m].index \in DOMAIN ns
  BY <1>0 DEF Branching
<1>12. e \in Int \X Int /\ e[2] = ns[n].index /\ e[2] \in DOMAIN ns /\ e[1] = Distance(q, pts[e[2]])
  <2>1. e[1] = Distance(q, pts[ns[n].index]) /\ e[2] = ns[n].index
    BY <1>0
  <2>2. e[1] \in Int /\ e[2] \in Int
    BY <1>11, <2>1
  <2>3. e \in Int \X Int
    BY <1>0, <2>1, <2>2
  <2> QED BY <1>11, <2>1, <2>3
<1>13. \A k \in DOMAIN fd : fd[k][2] # e[2]
  BY <1>2, <1>10, <1>12 DEF Covered
<1>14. /\ Entries(pts, DOMAIN ns, q, new) /\ OfKind(sr, new)
       /\ \A k \in DOMAIN new : new[k] = e \/ \E l \in DOMAIN fd : new[k] = fd[l]
       /\ \A j \in DOMAIN ns : Passed(pts, sr, fd, j) => Passed(pts, sr, new, j)
       /\ Passed(pts, sr, new, e[2])
  <2>1. CASE CloserOf(sr, fd, e[1])
    <3>1. PICK x : x = NotedOf(sr, fd, e)
      OBVIOUS
    <3>2. Notes(pts, DOMAIN ns, sr, fd, e, x)
      BY <1>2, <1>11, <1>12, <1>13, <2>1, <3>1, NotedNotes
    <3>3. new = x
      BY <1>0, <2>1, <3>1
    <3> QED BY <3>2, <3>3 DEF Notes
  <2>2. CASE ~CloserOf(sr, fd, e[1])
    <3>1. new = fd
      BY <1>0, <2>2
    <3>2. e[1] \in Int /\ Distance(q, pts[e[2]]) \in Int /\ e[1] <= Distance(q, pts[e[2]])
      BY <1>11, <1>12
    <3>3. Passed(pts, sr, fd, e[2])
      BY <1>2, <2>2, <3>2, FartherPassed
    <3> QED BY <1>2, <3>1, <3>3
  <2> QED BY <2>1, <2>2
<1>15. Covered(pts, ns, sr, LeftOf(pts, ns, q, w), new)
  <2>1. ASSUME NEW m \in LeftOf(pts, ns, q, w), NEW k \in DOMAIN new
        PROVE  new[k][2] # ns[m].index
    <3>1. m \in LeftOf(pts, ns, q, st) /\ m # n /\ m \in DOMAIN ns
      BY <1>10 DEF LeftOf
    <3>2. CASE new[k] = e
      BY <1>11, <1>12, <3>1, <3>2
    <3>3. ASSUME NEW l \in DOMAIN fd, new[k] = fd[l] PROVE new[k][2] # ns[m].index
      BY <1>2, <3>1, <3>3 DEF Covered
    <3> QED BY <1>14, <3>2, <3>3
  <2>2. ASSUME NEW m \in DOMAIN ns
        PROVE  m \in LeftOf(pts, ns, q, w) \/ Passed(pts, sr, new, ns[m].index)
    <3>1. CASE m = n
      BY <1>12, <1>14, <3>1
    <3>2. CASE m # n
      <4>1. m \in LeftOf(pts, ns, q, st) \/ Passed(pts, sr, fd, ns[m].index)
        BY <1>2 DEF Covered
      <4> QED BY <1>10, <1>11, <1>14, <3>2, <4>1
    <3> QED BY <3>1, <3>2
  <2> QED BY <2>1, <2>2 DEF Covered
<1> QED BY <1>2, <1>6, <1>9, <1>10, <1>14, <1>15 DEF SearchOf, Visited

(* A call back from the near side has the far side visited, or leaves it    *)
(* out: then the plane is too far for anything beyond it to be needed.      *)
LEMMA CrossStep ==
  ASSUME NEW pts, NEW ns, NEW sr, NEW st, NEW fd,
         SearchOf(pts, ns, sr, st, fd), Branching(pts, ns, sr.query),
         \A i \in DOMAIN ns : i \in Int,
         st # <<>>, Last(st).crossing, NEW n, n = Last(st).node,
         NEW after,
         after = IF CloserOf(sr, fd, Square(Gap(pts, ns, sr.query, n)))
                 THEN Append(Front(st), Entered(FarOf(pts, ns, sr.query, n))) ELSE Front(st)
  PROVE  /\ SearchOf(pts, ns, sr, after, fd)
         /\ LeftOf(pts, ns, sr.query, after) \subseteq LeftOf(pts, ns, sr.query, st)
<1> DEFINE q == sr.query
           far == FarOf(pts, ns, q, n)
           d == Square(Gap(pts, ns, q, n))
<1>1. /\ Wanted(sr) /\ Entries(pts, DOMAIN ns, q, fd) /\ OfKind(sr, fd)
      /\ Stacked(pts, ns, q, st) /\ Covered(pts, ns, sr, LeftOf(pts, ns, q, st), fd)
  BY DEF SearchOf
<1>2. PICK u : u = Front(st)
  OBVIOUS
<1>3. /\ Stacked(pts, ns, q, u)
      /\ LeftOf(pts, ns, q, st) = LeftOf(pts, ns, q, u) \cup AheadOf(pts, ns, q, Last(st))
      /\ LeftOf(pts, ns, q, u) \cap AheadOf(pts, ns, q, Last(st)) = {}
      /\ ForNode(ns, Last(st))
  BY <1>1, <1>2, FrontLeft
<1>4. n \in DOMAIN ns /\ AheadOf(pts, ns, q, Last(st)) = Under(ns, far)
  BY <1>3 DEF ForNode, AheadOf
<1>5. /\ far \in DOMAIN ns \cup {Null} /\ d \in Int
      /\ \A m \in Under(ns, far) : d <= Distance(q, pts[ns[m].index])
      /\ \A m \in DOMAIN ns : Distance(q, pts[ns[m].index]) \in Int
  BY <1>4 DEF Branching, Branch
<1> HIDE DEF far, d
<1>6. CASE CloserOf(sr, fd, d)
  <2>1. /\ AheadOf(pts, ns, q, Entered(far)) = Under(ns, far)
        /\ ForNode(ns, Entered(far)) /\ Entered(far) \in Frame
    <3>1. far \in Int
      BY <1>5 DEF Null
    <3> QED BY <1>5, <3>1, EnteredNode
  <2>2. PICK v : v = Append(u, Entered(far))
    OBVIOUS
  <2>3. /\ Stacked(pts, ns, q, v)
        /\ LeftOf(pts, ns, q, v) = LeftOf(pts, ns, q, u) \cup AheadOf(pts, ns, q, Entered(far))
    <3>1. LeftOf(pts, ns, q, u) \cap AheadOf(pts, ns, q, Entered(far)) = {}
      BY <1>3, <1>4, <2>1
    <3> QED BY <1>3, <2>1, <2>2, <3>1, PushLeft
  <2>4. LeftOf(pts, ns, q, v) = LeftOf(pts, ns, q, st)
    BY <1>3, <1>4, <2>1, <2>3
  <2>5. after = v
    BY <1>2, <1>6, <2>2 DEF far, d
  <2> QED BY <1>1, <2>3, <2>4, <2>5 DEF SearchOf
<1>7. CASE ~CloserOf(sr, fd, d)
  <2>1. after = u
    BY <1>2, <1>7 DEF far, d
  <2>2. \A m \in Under(ns, far) \cap DOMAIN ns : Passed(pts, sr, fd, ns[m].index)
    BY <1>1, <1>5, <1>7, FartherPassed
  <2>3. Covered(pts, ns, sr, LeftOf(pts, ns, q, u), fd)
    BY <1>1, <1>3, <1>4, <2>2 DEF Covered
  <2> QED BY <1>1, <1>3, <2>1, <2>3 DEF SearchOf
<1> QED BY <1>6, <1>7
-----------------------------------------------------------------------------
(* Nobody searches while a tree is built; a search keeps its invariant.     *)
SearchInv ==
  /\ search = NoSearch => stack = <<>> /\ found = <<>>
  /\ search # NoSearch => Built /\ SearchOf(points, nodes, search, stack, found)

TreeInv == IInv /\ SearchInv

(* What the invariant of KdBuild says to a search.                          *)
LEMMA TreeFacts ==
  ASSUME IInv
  PROVE  /\ Sized /\ TreeComplete /\ \A i \in Ids : i \in Int /\ i # Null
         /\ Built => \A q \in [1 .. Dim -> Int] : Branching(points, nodes, q)
<1>1. Sized /\ TreeComplete
  BY GrownTreeComplete DEF IInv, ApartInv
<1>2. \A i \in Ids : i \in Int /\ i # Null
  BY <1>1 DEF Sized, Ids, Range0, Null
<1> QED BY <1>1, <1>2, BuiltBranching

LEMMA NotSearching ==
  ASSUME NEW sr, sr.kind # "none"
  PROVE  sr # NoSearch
BY DEF NoSearch

(* The operators of KdTree are those above, of the state as it is.          *)
LEMMA StateCalls ==
  ASSUME NEW n, NEW d, NEW e
  PROVE  /\ Near(search.query, n) = NearOf(points, nodes, search.query, n)
         /\ Far(search.query, n) = FarOf(points, nodes, search.query, n)
         /\ AxisDist(search.query, n) = Gap(points, nodes, search.query, n)
         /\ Closer(d) <=> CloserOf(search, found, d)
         /\ Noted(e) = NotedOf(search, found, e)
BY DEF Near, NearOf, Far, FarOf, AxisDist, Gap, Closer, CloserOf, Noted, NotedOf

LEMMA SearchInit == BuildInit /\ search = NoSearch /\ stack = <<>> /\ found = <<>> => TreeInv
BY InitInv DEF TreeInv, SearchInv

LEMMA StartKeeps ==
  ASSUME TreeInv, NEW kind \in {"radius", "nearest", "k_radius"}, NEW q \in [1 .. Dim -> Int],
         NEW r \in Int, Start(kind, q, r)
  PROVE  SearchInv'
<1>1. /\ Built /\ search = NoSearch /\ search' = [kind |-> kind, query |-> q, sradius |-> r]
      /\ stack' = (IF Ids = {} THEN <<>> ELSE <<Entered(0)>>)
      /\ points' = points /\ nodes' = nodes /\ calls' = calls /\ found' = found
  BY DEF Start
<1>2. found' = <<>>
  BY <1>1 DEF TreeInv, SearchInv
<1>3. Wanted(search')
  BY <1>1 DEF Wanted
<1>4. Branching(points, nodes, q)
  BY <1>1, TreeFacts DEF TreeInv
<1>5. PICK sr : sr = search'
  OBVIOUS
<1>6. SearchOf(points, nodes, sr, IF DOMAIN nodes = {} THEN <<>> ELSE <<Entered(0)>>, <<>>)
  <2>1. Wanted(sr) /\ Branching(points, nodes, sr.query)
    BY <1>1, <1>3, <1>4, <1>5
  <2> QED BY <2>1, StartStep
<1>7. SearchOf(points', nodes', search', stack', found')
  BY <1>1, <1>2, <1>5, <1>6 DEF Ids
<1>8. Built' /\ search' # NoSearch
  BY <1>1, NotSearching DEF Built
<1> QED BY <1>7, <1>8 DEF SearchInv

(* A step of a search that has not returned.                                *)
LEMMA Underway ==
  ASSUME TreeInv, stack # <<>>
  PROVE  /\ Built /\ SearchOf(points, nodes, search, stack, found) /\ search # NoSearch
         /\ Wanted(search) /\ Branching(points, nodes, search.query)
         /\ stack \in Seq(Frame)
<1>1. search # NoSearch
  BY DEF TreeInv, SearchInv
<1>2. Built /\ SearchOf(points, nodes, search, stack, found)
  BY <1>1 DEF TreeInv, SearchInv
<1>3. Wanted(search) /\ Stacked(points, nodes, search.query, stack)
  BY <1>2 DEF SearchOf
<1>4. Branching(points, nodes, search.query)
  BY <1>2, <1>3, TreeFacts DEF TreeInv, Wanted
<1> QED BY <1>1, <1>2, <1>3, <1>4 DEF Stacked

(* The nodes ahead of the search that has not returned.                     *)
AheadNow == LeftOf(points, nodes, search.query, stack)

(* The steps of a search keep its invariant, and only a visit changes what  *)
(* is ahead, by the node visited, but for what is left out.                 *)
LEMMA VisitNullKeeps ==
  ASSUME TreeInv, VisitNull
  PROVE  SearchInv' /\ AheadNow' = AheadNow
<1>1. /\ stack # <<>> /\ Last(stack) = Entered(Null) /\ stack' = Front(stack)
      /\ points' = points /\ nodes' = nodes /\ calls' = calls
      /\ search' = search /\ found' = found
  BY DEF VisitNull
<1>2. Built /\ SearchOf(points, nodes, search, stack, found) /\ search # NoSearch
  BY <1>1, Underway
<1>3. /\ SearchOf(points, nodes, search, Front(stack), found)
      /\ LeftOf(points, nodes, search.query, Front(stack)) = AheadNow
  BY <1>1, <1>2, NullStep DEF AheadNow
<1> QED BY <1>1, <1>2, <1>3 DEF SearchInv, AheadNow, Built

LEMMA VisitKeeps ==
  ASSUME TreeInv, NEW n \in Ids, Visit(n)
  PROVE  SearchInv' /\ AheadNow' = AheadNow \ {n}
<1> DEFINE q == search.query
           e == <<Distance(q, points[nodes[n].index]), nodes[n].index>>
           f == [node |-> n, crossing |-> TRUE]
<1>1. /\ stack # <<>> /\ Last(stack) = Entered(n)
      /\ found' = (IF Closer(e[1]) THEN Noted(e) ELSE found)
      /\ stack' = Append([stack EXCEPT ![Len(stack)].crossing = TRUE], Entered(Near(q, n)))
      /\ points' = points /\ nodes' = nodes /\ calls' = calls /\ search' = search
  BY DEF Visit
<1>2. /\ Built /\ SearchOf(points, nodes, search, stack, found) /\ search # NoSearch
      /\ Wanted(search) /\ Branching(points, nodes, q) /\ stack \in Seq(Frame)
  BY <1>1, Underway
<1>3. [stack EXCEPT ![Len(stack)].crossing = TRUE] = Append(Front(stack), f)
  <2>1. PICK k \in Nat \ {0} : k = Len(stack) /\ DOMAIN stack = 1 .. k
    BY <1>1, <1>2, SeqFacts
  <2>2. stack[k] = Entered(n)
    BY <1>1, <2>1 DEF Last
  <2>3. [stack[k] EXCEPT !.crossing = TRUE] = f
    <3>1. [Entered(n) EXCEPT !.crossing = TRUE] = f
      BY EnteredCrosses, TreeFacts DEF TreeInv
    <3> QED BY <2>2, <3>1
  <2>4. [stack EXCEPT ![k].crossing = TRUE] = [stack EXCEPT ![k] = f]
    BY <2>3
  <2>5. f \in Frame
    <3>1. n \in Int
      BY TreeFacts DEF TreeInv
    <3> QED BY <3>1 DEF Frame
  <2>6. [stack EXCEPT ![Len(stack)] = f] = Append(Front(stack), f)
    BY <1>1, <1>2, <2>5, TopReplaced
  <2> QED BY <2>1, <2>4, <2>6
<1>4. stack' = Append(Append(Front(stack), f), Entered(NearOf(points, nodes, q, n)))
  BY <1>1, <1>3, StateCalls
<1>5. found' = IF CloserOf(search, found, e[1]) THEN NotedOf(search, found, e) ELSE found
  BY <1>1, StateCalls
<1>6. Visits(points, nodes, search, stack, found, n, stack', found')
  <2>1. n \in DOMAIN nodes /\ n \in Int
    BY TreeFacts DEF TreeInv, Ids
  <2> QED BY <1>1, <1>4, <1>5, <2>1 DEF Visits
<1>7. PICK after, new : after = stack' /\ new = found'
  OBVIOUS
<1>8. Visits(points, nodes, search, stack, found, n, after, new)
  BY <1>6, <1>7
<1>9. Visited(points, nodes, search, stack, n, after, new)
  <2>1. DOMAIN nodes \subseteq Int
    BY TreeFacts DEF TreeInv, Ids
  <2> QED BY <1>2, <1>8, <2>1, VisitStep
<1> QED BY <1>1, <1>2, <1>7, <1>9 DEF SearchInv, Visited, AheadNow, Built

LEMMA CrossKeeps ==
  ASSUME TreeInv, Cross
  PROVE  SearchInv' /\ AheadNow' \subseteq AheadNow
<1> DEFINE q == search.query
           n == Last(stack).node
           far == FarOf(points, nodes, q, n)
<1>1. /\ stack # <<>> /\ Last(stack).crossing
      /\ stack' = (IF Crosses(q, n) THEN [stack EXCEPT ![Len(stack)] = Entered(Far(q, n))]
                   ELSE Front(stack))
      /\ points' = points /\ nodes' = nodes /\ calls' = calls
      /\ search' = search /\ found' = found
  BY DEF Cross
<1>2. /\ Built /\ SearchOf(points, nodes, search, stack, found) /\ search # NoSearch
      /\ Wanted(search) /\ Branching(points, nodes, q) /\ stack \in Seq(Frame)
  BY <1>1, Underway
<1>3. (\A i \in DOMAIN nodes : i \in Int) /\ Null \in Int
  BY TreeFacts DEF TreeInv, Ids, Null
<1>4. n \in DOMAIN nodes
  <2>1. Stacked(points, nodes, q, stack)
    BY <1>2 DEF SearchOf
  <2>2. ForNode(nodes, Last(stack))
    BY <1>1, <2>1, FrontLeft
  <2> QED BY <1>1, <2>2 DEF ForNode
<1>5. Entered(far) \in Frame
  <2>1. far \in DOMAIN nodes \cup {Null}
    BY <1>2, <1>4 DEF Branching, Branch
  <2>2. far \in Int
    BY <1>3, <2>1
  <2> QED BY <2>2, EnteredNode
<1>6. [stack EXCEPT ![Len(stack)] = Entered(far)] = Append(Front(stack), Entered(far))
  BY <1>1, <1>2, <1>5, TopReplaced
<1>7. stack' = IF CloserOf(search, found, Square(Gap(points, nodes, q, n)))
               THEN Append(Front(stack), Entered(far)) ELSE Front(stack)
  <2>1. Crosses(q, n) <=> CloserOf(search, found, Square(Gap(points, nodes, q, n)))
    BY StateCalls DEF Crosses
  <2>2. Far(q, n) = far
    BY StateCalls
  <2> QED BY <1>1, <1>6, <2>1, <2>2
<1>8. PICK after, m :
        /\ m = n
        /\ after = IF CloserOf(search, found, Square(Gap(points, nodes, search.query, m)))
                   THEN Append(Front(stack), Entered(FarOf(points, nodes, search.query, m)))
                   ELSE Front(stack)
  OBVIOUS
<1>9. /\ SearchOf(points, nodes, search, after, found)
      /\ LeftOf(points, nodes, search.query, after) \subseteq LeftOf(points, nodes, search.query, stack)
  BY <1>1, <1>2, <1>3, <1>8, CrossStep
<1>10. stack' = after
  BY <1>7, <1>8
<1> QED BY <1>1, <1>2, <1>9, <1>10 DEF SearchInv, AheadNow, Built

LEMMA BuildKeeps ==
  ASSUME TreeInv, search = NoSearch, UNCHANGED searchVars
  PROVE  SearchInv'
BY DEF TreeInv, SearchInv, searchVars

LEMMA FinishKeeps ==
  ASSUME TreeInv, Finish
  PROVE  SearchInv'
BY DEF Finish, SearchInv

LEMMA SearchStutter ==
  ASSUME TreeInv, UNCHANGED vars
  PROVE  SearchInv'
BY DEF TreeInv, SearchInv, vars, Built

LEMMA TreeInit == Init => TreeInv
BY SearchInit DEF Init

(* Every step of KdTree keeps the invariant of the build and that of the    *)
(* search.                                                                  *)
LEMMA TreeStep == TreeInv /\ [Next]_vars => TreeInv'
<1> SUFFICES ASSUME TreeInv, [Next]_vars PROVE TreeInv'
  OBVIOUS
<1>1. [BuildNext]_buildVars
  BY DEF Next, Searching, SearchNearest, SearchRadius, SearchKRadius, Start, VisitNull, Visit,
         Cross, Finish, vars, buildVars
<1>2. IInv'
  BY <1>1, StepInv DEF TreeInv
<1>3. SearchInv'
  <2>1. ASSUME search = NoSearch, BuildNext, UNCHANGED searchVars PROVE SearchInv'
    BY <2>1, BuildKeeps
  <2>2. ASSUME NEW q \in Queries, SearchNearest(q) PROVE SearchInv'
    BY <2>2, PointAssumption, StartKeeps DEF SearchNearest
  <2>3. ASSUME NEW q \in Queries, NEW r \in Radii, SearchRadius(q, r) \/ SearchKRadius(q, r)
        PROVE  SearchInv'
    <3>1. q \in [1 .. Dim -> Int] /\ Square(r) \in Int
      BY PointAssumption, SquareInt
    <3> QED BY <2>3, <3>1, StartKeeps DEF SearchRadius, SearchKRadius
  <2>4. ASSUME VisitNull PROVE SearchInv'
    BY <2>4, VisitNullKeeps
  <2>5. ASSUME NEW n \in Ids, Visit(n) PROVE SearchInv'
    BY <2>5, VisitKeeps
  <2>6. ASSUME Cross PROVE SearchInv'
    BY <2>6, CrossKeeps
  <2>7. ASSUME Finish PROVE SearchInv'
    BY <2>7, FinishKeeps
  <2>8. ASSUME UNCHANGED vars PROVE SearchInv'
    BY <2>8, SearchStutter
  <2> QED BY <2>1, <2>2, <2>3, <2>4, <2>5, <2>6, <2>7, <2>8 DEF Next, Searching
<1> QED BY <1>2, <1>3 DEF TreeInv

LEMMA TreeAlways == Spec => []TreeInv
BY TreeInit, TreeStep, PTL DEF Spec

(* When a search is about to return no point is needed any more.            *)
LEMMA AllPassed ==
  ASSUME TreeInv, search # NoSearch, stack = <<>>
  PROVE  /\ Entries(points, Ids, search.query, found) /\ OfKind(search, found)
         /\ \A i \in Ids : Passed(points, search, found, i) /\ DistanceTo(i) \in Int
         /\ Wanted(search)
<1>1. /\ Built /\ SearchOf(points, nodes, search, stack, found)
      /\ Entries(points, Ids, search.query, found) /\ OfKind(search, found) /\ Wanted(search)
  BY DEF TreeInv, SearchInv, SearchOf, Ids
<1>2. LeftOf(points, nodes, search.query, stack) = {}
  BY NothingStacked
<1>3. Branching(points, nodes, search.query)
  BY <1>1, TreeFacts DEF TreeInv, Wanted
<1>4. \A m \in Ids : Passed(points, search, found, nodes[m].index)
  BY <1>1, <1>2 DEF SearchOf, Covered, Ids
<1>5. \A i \in Ids : Passed(points, search, found, i)
  <2> SUFFICES ASSUME NEW i \in Ids PROVE Passed(points, search, found, i)
    OBVIOUS
  <2>1. PICK m \in Ids : nodes[m].index = i
    BY <1>3 DEF Branching, Ids
  <2> QED BY <1>4, <2>1
<1>6. \A i \in Ids : DistanceTo(i) \in Int
  BY <1>3 DEF Branching, Ids, DistanceTo
<1> QED BY <1>1, <1>5, <1>6

(* What each search has found when it returns.                              *)
LEMMA RadiusHolds == TreeInv => RadiusExact
<1> SUFFICES ASSUME TreeInv, Done("radius") PROVE FoundOnce /\ Index = Within
  BY DEF RadiusExact
<1>1. search.kind = "radius" /\ stack = <<>> /\ search # NoSearch
  BY NotSearching DEF Done
<1>2. /\ Entries(points, Ids, search.query, found) /\ OfKind(search, found)
      /\ \A i \in Ids : Passed(points, search, found, i) /\ DistanceTo(i) \in Int
      /\ Wanted(search)
  BY <1>1, AllPassed
<1>3. FoundOnce
  BY <1>2 DEF Entries, FoundOnce
<1>4. Index \subseteq Within
  BY <1>1, <1>2 DEF Entries, OfKind, Index, Within, DistanceTo
<1>5. ASSUME NEW i \in Within PROVE i \in Index
  <2>1. i \in Ids /\ DistanceTo(i) < search.sradius
    BY DEF Within
  <2>2. PICK d \in Int, r \in Int : d = DistanceTo(i) /\ r = search.sradius
    BY <1>2, <2>1 DEF Wanted
  <2>3. ~(search.sradius <= DistanceTo(i))
    BY <2>1, <2>2
  <2> QED BY <1>1, <1>2, <2>1, <2>3 DEF Passed, DistanceTo, Index
<1> QED BY <1>3, <1>4, <1>5

LEMMA NearestHolds == TreeInv => NearestExact
<1> SUFFICES ASSUME TreeInv, Done("nearest")
             PROVE  /\ Len(found) = IF Ids = {} THEN 0 ELSE 1
                    /\ \A i \in Index, j \in Ids : DistanceTo(i) <= DistanceTo(j)
  BY DEF NearestExact
<1>1. search.kind = "nearest" /\ stack = <<>> /\ search # NoSearch
  BY NotSearching DEF Done
<1>2. /\ Entries(points, Ids, search.query, found) /\ OfKind(search, found)
      /\ \A i \in Ids : Passed(points, search, found, i) /\ DistanceTo(i) \in Int
  BY <1>1, AllPassed
<1>3. PICK n \in Nat : n = Len(found) /\ DOMAIN found = 1 .. n /\ (found # <<>> <=> n # 0)
  BY <1>2, SeqFacts DEF Entries
<1>4. n <= 1
  BY <1>1, <1>2, <1>3 DEF OfKind
<1>5. CASE Ids = {}
  <2>1. DOMAIN found = {}
    BY <1>2, <1>5 DEF Entries
  <2> QED BY <1>3, <1>4, <1>5, <2>1
<1>6. CASE Ids # {}
  <2>1. \A j \in Ids : found # <<>> /\ found[1][1] <= DistanceTo(j)
    BY <1>1, <1>2 DEF Passed, DistanceTo
  <2>2. n = 1
    BY <1>3, <1>4, <1>6, <2>1
  <2>3. Index = {found[1][2]} /\ found[1][1] = DistanceTo(found[1][2])
    BY <1>2, <1>3, <2>2 DEF Index, Entries, DistanceTo
  <2> QED BY <1>3, <1>6, <2>1, <2>2, <2>3
<1> QED BY <1>5, <1>6

LEMMA KHolds == TreeInv => KSearchSound
<1> SUFFICES ASSUME TreeInv, Done("k_radius")
             PROVE  /\ Len(found) <= K /\ FoundOnce /\ Index \subseteq Within
                    /\ \A i \in DOMAIN found : found[i][1] = DistanceTo(found[i][2])
                    /\ \A i, j \in DOMAIN found : i < j => found[i][1] <= found[j][1]
                    /\ \A j \in Within : found # <<>> /\ found[1][1] <= DistanceTo(j)
  BY DEF KSearchSound
<1>1. search.kind = "k_radius" /\ stack = <<>> /\ search # NoSearch
  BY NotSearching DEF Done
<1>2. /\ Entries(points, Ids, search.query, found) /\ OfKind(search, found)
      /\ \A i \in Ids : Passed(points, search, found, i) /\ DistanceTo(i) \in Int
      /\ Wanted(search)
  BY <1>1, AllPassed
<1>3. Len(found) <= K /\ Sorted(found) /\ \A k \in DOMAIN found : found[k][1] < search.sradius
  BY <1>1, <1>2 DEF OfKind
<1>4. FoundOnce /\ \A i \in DOMAIN found : found[i][1] = DistanceTo(found[i][2])
  BY <1>2 DEF Entries, FoundOnce, DistanceTo
<1>5. Index \subseteq Within
  BY <1>2, <1>3 DEF Entries, Index, Within, DistanceTo
<1>6. ASSUME NEW i \in DOMAIN found, NEW j \in DOMAIN found, i < j
      PROVE  found[i][1] <= found[j][1]
  <2>1. found[i] \in Int \X Int /\ found[j] \in Int \X Int
    BY <1>2, SeqFacts DEF Entries
  <2>2. Before(found[i], found[j])
    BY <1>3, <1>6 DEF Sorted
  <2> QED BY <2>1, <2>2, BeforeOrder
<1>7. ASSUME NEW j \in Within PROVE found # <<>> /\ found[1][1] <= DistanceTo(j)
  <2>1. j \in Ids /\ DistanceTo(j) < search.sradius
    BY DEF Within
  <2>2. PICK d \in Int, r \in Int : d = DistanceTo(j) /\ r = search.sradius
    BY <1>2, <2>1 DEF Wanted
  <2>3. ~(search.sradius <= DistanceTo(j))
    BY <2>1, <2>2
  <2> QED BY <1>1, <1>2, <2>1, <2>3 DEF Passed, DistanceTo
<1> QED BY <1>3, <1>4, <1>5, <1>6, <1>7
-----------------------------------------------------------------------------
(* What NoNodeTwice calls pending is what is ahead of the search.           *)
PendingSame == Pending = AheadNow

LEMMA PendingIs == PendingSame
<1>1. \A i \in DOMAIN stack :
        Ahead(stack[i], ClosedSets) = AheadOf(points, nodes, search.query, stack[i])
  BY BelowIsUnder, StateCalls DEF Ahead, AheadOf
<1>2. \A i \in DOMAIN stack : AheadOf(points, nodes, search.query, stack[i]) \subseteq DOMAIN nodes
  BY AheadInIds
<1>3. Pending = UNION {AheadOf(points, nodes, search.query, stack[i]) : i \in DOMAIN stack}
  BY <1>1 DEF Pending
<1> QED BY <1>2, <1>3 DEF AheadNow, LeftOf, PendingSame

LEMMA PendingStays == PendingSame'
BY PendingIs, PTL

(* A step within a search leaves pending no more than before, and not the   *)
(* node it visits.                                                          *)
LEMMA PendingGetsLess ==
  ASSUME TreeInv, Next, search' = search
  PROVE  Pending' \subseteq {m \in Pending : ~Visit(m)}
<1>1. Pending = AheadNow /\ Pending' = AheadNow'
  BY PendingIs, PendingStays DEF PendingSame
<1>2. \A m \in AheadNow : m \in Ids /\ m # Null
  BY TreeFacts DEF AheadNow, LeftOf, TreeInv, Ids
<1>3. ASSUME stack' = <<>> PROVE AheadNow' = {}
  BY <1>3, NothingStacked DEF AheadNow
<1>4. ASSUME search = NoSearch, UNCHANGED searchVars PROVE AheadNow' = {}
  BY <1>3, <1>4 DEF TreeInv, SearchInv, searchVars
<1>5. ASSUME NEW kind, kind # "none", NEW q, NEW r, Start(kind, q, r) PROVE FALSE
  BY <1>5, NotSearching DEF Start
<1>6. ASSUME VisitNull PROVE AheadNow' \subseteq {m \in AheadNow : ~Visit(m)}
  <2>1. AheadNow' = AheadNow
    BY <1>6, VisitNullKeeps
  <2>2. \A m \in AheadNow : ~Visit(m)
    BY <1>2, <1>6 DEF VisitNull, Visit, Entered
  <2> QED BY <2>1, <2>2
<1>7. ASSUME NEW n \in Ids, Visit(n) PROVE AheadNow' \subseteq {m \in AheadNow : ~Visit(m)}
  <2>1. AheadNow' = AheadNow \ {n}
    BY <1>7, VisitKeeps
  <2>2. \A m \in AheadNow : Visit(m) => m = n
    BY <1>7 DEF Visit, Entered
  <2> QED BY <2>1, <2>2
<1>8. ASSUME Cross PROVE AheadNow' \subseteq {m \in AheadNow : ~Visit(m)}
  <2>1. AheadNow' \subseteq AheadNow
    BY <1>8, CrossKeeps
  <2>2. \A m \in AheadNow : ~Visit(m)
    BY <1>8 DEF Cross, Visit, Entered
  <2> QED BY <2>1, <2>2
<1>9. ASSUME Finish PROVE FALSE
  BY <1>9 DEF Finish
<1> QED
  BY <1>1, <1>4, <1>5, <1>6, <1>7, <1>8, <1>9
  DEF Next, Searching, SearchNearest, SearchRadius, SearchKRadius

(* The searches leave the tree to those that build it: what KdBuild comes   *)
(* to by itself, and so what is proved of it, is all there is to search     *)
(* (search, kdtree.h, is const).                                            *)
THEOREM SearchesOnlyRead == Spec => BuildSpec
<1>1. Init => BuildInit
  BY DEF Init
<1>2. [Next]_vars => [BuildNext]_buildVars
  BY DEF Next, Searching, SearchNearest, SearchRadius, SearchKRadius, Start, VisitNull, Visit,
         Cross, Finish, vars, buildVars
<1> QED BY <1>1, <1>2, PTL DEF Spec, BuildSpec

(* For any points, queries and radii: a search within a radius finds the    *)
(* points nearer than the radius, and each of them once (search_radius,     *)
(* kdtree.h), however the tree was built (build_resursive_multithread).     *)
THEOREM RadiusSearchExact == Spec => []RadiusExact
BY RadiusHolds, TreeAlways, PTL

(* The nearest search finds a point, if there is one, and no point is       *)
(* nearer than it (search_nearest, kdtree.h).                               *)
THEOREM NearestSearchExact == Spec => []NearestExact
BY NearestHolds, TreeAlways, PTL

(* The search for k within a radius finds at most k points, each once, all  *)
(* of them nearer than the radius and in the order of their distance, which *)
(* is the one noted, and no point within the radius is nearer than the      *)
(* first (search_k_radius, kdtree.h).                                       *)
THEOREM KSearchesSound == Spec => []KSearchSound
BY KHolds, TreeAlways, PTL

(* A search calls itself for no node of the tree twice: what is ahead of it *)
(* never grows and loses each node it visits (search_radius_recursive and   *)
(* its likes, kdtree.h), so that a search of n points visits n at most.     *)
THEOREM NoNodeSearchedTwice == Spec => NoNodeTwice
<1>1. TreeInv /\ [Next]_vars =>
        [search' = search => Pending' \subseteq {m \in Pending : ~Visit(m)}]_vars
  BY PendingGetsLess
<1> QED BY <1>1, TreeAlways, PTL DEF Spec, NoNodeTwice
=============================================================================
