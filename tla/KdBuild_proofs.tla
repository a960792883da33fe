--------------------------- MODULE KdBuild_proofs ---------------------------
(***************************************************************************)
(* Proofs about KdBuild: for any points, any threshold for tasks, and any  *)
(* interleaving of the tasks that build the halves.                        *)
(***************************************************************************)
EXTENDS KdBuild, TLAPS, FiniteSetTheorems

Count == Cardinality(DOMAIN points)

Node == [index : Nat \cup {Null}, axis : Nat \cup {Null},
         children : [Child -> Nat \cup {Null}]]

Call == [first : Nat, size : Nat \ {0}, depth : Nat, parent : Nat \cup {Null},
         side : Child, split : BOOLEAN, todo : SUBSET Child]

(* The vectors have one element for each point, and a call's parts of them  *)
(* lie within.                                                              *)
Fits(i, c, n) == i + c.size <= n /\ c.first + c.size <= n

Sized ==
  /\ points \in Clouds \cup {<<>>}
  /\ Count \in Nat /\ DOMAIN points = Range0(Count)
  /\ nodes \in [Range0(Count) -> Node]
  /\ indices \in Surjection(Range0(Count), Range0(Count))
  /\ DOMAIN calls \subseteq Range0(Count)
  /\ \A i \in DOMAIN calls : calls[i] \in Call /\ Fits(i, calls[i], Count)

(* Some call builds the half now.                                           *)
Open(i, s) == \E k \in DOMAIN calls : calls[k].parent = i /\ calls[k].side = s

(* A call was made for a half of its caller's, but for the first.           *)
MadeBy(i, c, p, d) ==
  /\ d.split = TRUE /\ c.side \notin d.todo
  /\ i = HalfId(p, d, c.side)
  /\ c.first = Half(p, d, c.side).first /\ c.size = Half(p, d, c.side).size

Caller(i) ==
  LET c == calls[i] IN
  /\ c.split = FALSE => c.todo = Child
  /\ i = 0 => c.parent = Null /\ c.first = 0 /\ c.size = Count
  /\ i # 0 => c.parent \in DOMAIN calls /\ MadeBy(i, c, c.parent, calls[c.parent])

Callers ==
  /\ \A i \in DOMAIN calls : Caller(i)
  /\ Built => DOMAIN calls = {}

(* Two calls have nothing in common,                                        *)
Apart(i, c, j, d) ==
  /\ i + c.size <= j \/ j + d.size <= i
  /\ c.first + c.size <= d.first \/ d.first + d.size <= c.first

(* or all of one is in a half that is being built for the other.            *)
InHalf(j, d, i, c, s) ==
  /\ HalfId(i, c, s) <= j /\ j + d.size <= HalfId(i, c, s) + Half(i, c, s).size
  /\ Half(i, c, s).first <= d.first
  /\ d.first + d.size <= Half(i, c, s).first + Half(i, c, s).size

InsideOf(j, i, s) ==
  /\ calls[i].split = TRUE /\ s \notin calls[i].todo
  /\ Open(i, s) /\ InHalf(j, calls[j], i, calls[i], s)
Inside(j, i) == \E s \in Child : InsideOf(j, i, s)

Nested ==
  \A i, j \in DOMAIN calls :
    i # j => Apart(i, calls[i], j, calls[j]) \/ Inside(i, j) \/ Inside(j, i)

ApartInv == Sized /\ Callers /\ Nested
-----------------------------------------------------------------------------
(* What follows reads the vectors only, given as they are before or after a *)
(* step: pts, ns and ix stand for points, nodes and indices.                *)
At(pts, ns, m, axis) == pts[ns[m].index][axis + 1]

Shut(ns, S) == \A n \in S, i \in Child : ns[n].children[i] \in S \cup {Null}

(* A child of m leads to a range of nodes it never leaves again, all on its *)
(* side of m; the other child leads to others, and neither back to m.       *)
OnSide(pts, ns, m, s, below) ==
  \A x \in below :
    IF s = 0 THEN At(pts, ns, x, ns[m].axis) <= At(pts, ns, m, ns[m].axis)
    ELSE At(pts, ns, m, ns[m].axis) <= At(pts, ns, x, ns[m].axis)

Separated(pts, ns, m, s, below) ==
  /\ ns[m].children[s] \in below /\ Shut(ns, below)
  /\ OnSide(pts, ns, m, s, below)

Parts(pts, ns, m, below) ==
  /\ below[0] \cap below[1] = {}
  /\ \A s \in Child : ns[m].children[s] # Null => Separated(pts, ns, m, s, below[s])

Leads(pts, ns, m, within) ==
  /\ ns[m].axis \in Range0(Dim)
  /\ \E below \in [Child -> SUBSET (within \ {m})] : Parts(pts, ns, m, below)

(* A part of the tree that is finished.                                     *)
Holds(ns, ix, id, first, size) ==
  /\ \A m \in Span(id, size) : \E i \in Span(first, size) : ns[m].index = ix[i]
  /\ \A i \in Span(first, size) : \E m \in Span(id, size) : ns[m].index = ix[i]

Reaches(ns, id, size) ==
  size > 0 => \A S \in SUBSET DOMAIN ns : id \in S /\ Shut(ns, S) => Span(id, size) \subseteq S

Grown(pts, ns, ix, id, first, size) ==
  /\ Holds(ns, ix, id, first, size)
  /\ \A m \in Span(id, size) : Leads(pts, ns, m, Span(id, size))
  /\ Reaches(ns, id, size)

(* A call that split its span keeps it split, whatever the calls for the    *)
(* halves do.                                                               *)
Pivot(pts, ns, ix, i, c) ==
  LET mid == c.first + Mid(c.size)
      at(j) == pts[ix[j]][Axis(c.depth) + 1] IN
  /\ ns[i].index = ix[mid] /\ ns[i].axis = Axis(c.depth)
  /\ \A j \in Span(c.first, c.size) :
       (j < mid => at(j) <= at(mid)) /\ (j > mid => at(mid) <= at(j))

HalfGrown(pts, ns, ix, i, c, s) ==
  LET h == Half(i, c, s) IN
  /\ ns[i].children[s] = IF h.size = 0 THEN Null ELSE HalfId(i, c, s)
  /\ Grown(pts, ns, ix, HalfId(i, c, s), h.first, h.size)

SplitOff(i) ==
  calls[i].split = TRUE =>
    /\ Pivot(points, nodes, indices, i, calls[i])
    /\ \A s \in Child : Returned(i, s) => HalfGrown(points, nodes, indices, i, calls[i], s)

Progress ==
  /\ \A i \in DOMAIN calls : SplitOff(i)
  /\ Built /\ Ids # {} => Grown(points, nodes, indices, 0, 0, Count)

IInv == ApartInv /\ Progress
-----------------------------------------------------------------------------
(* The two halves of a call lie in its range of nodes after its own, and in *)
(* its span around the middle, one after the other.                         *)
HalfBounds(i, c, s) ==
  LET h == Half(i, c, s)
      k == HalfId(i, c, s) IN
  /\ k \in Nat /\ h.first \in Nat /\ h.size \in Nat
  /\ i < k /\ k + h.size <= i + c.size
  /\ c.first <= h.first /\ h.first + h.size <= c.first + c.size

HalvesMeet(i, c) ==
  LET mid == c.first + Mid(c.size) IN
  /\ mid \in Nat /\ c.first <= mid /\ mid < c.first + c.size
  /\ HalfId(i, c, 0) = i + 1 /\ HalfId(i, c, 0) + Half(i, c, 0).size = HalfId(i, c, 1)
  /\ HalfId(i, c, 1) + Half(i, c, 1).size = i + c.size
  /\ Half(i, c, 0).first = c.first /\ Half(i, c, 0).first + Half(i, c, 0).size = mid
  /\ Half(i, c, 1).first = mid + 1
  /\ Half(i, c, 1).first + Half(i, c, 1).size = c.first + c.size

LEMMA MidBounds ==
  ASSUME NEW size \in Nat \ {0}
  PROVE  Mid(size) \in Nat /\ Mid(size) < size
BY SMT DEF Mid

LEMMA HalvesOf ==
  ASSUME NEW i \in Nat, NEW c \in Call
  PROVE  HalvesMeet(i, c) /\ \A s \in Child : HalfBounds(i, c, s)
<1>1. c.first \in Nat /\ c.size \in Nat \ {0}
  BY DEF Call
<1>2. PICK m \in Nat : m = Mid(c.size) /\ m < c.size
  BY <1>1, MidBounds
<1>3. /\ Half(i, c, 0).first = c.first /\ Half(i, c, 0).size = m
      /\ HalfId(i, c, 0) = i + 1
  BY <1>2 DEF Half, Called, HalfId, LeftSize, LeftId
<1>4. /\ Half(i, c, 1).first = c.first + m + 1 /\ Half(i, c, 1).size = c.size - m - 1
      /\ HalfId(i, c, 1) = i + 1 + m
  BY <1>2 DEF Half, Called, HalfId, RightSize, RightId
<1>5. HalvesMeet(i, c)
  BY <1>1, <1>2, <1>3, <1>4 DEF HalvesMeet
<1>6. HalfBounds(i, c, 0) /\ HalfBounds(i, c, 1)
  BY <1>1, <1>2, <1>3, <1>4 DEF HalfBounds
<1>7. \A s \in Child : s = 0 \/ s = 1
  BY DEF Child
<1> QED BY <1>5, <1>6, <1>7

(* A call for a half is one that makes nothing yet.                         *)
LEMMA HalfIsCall ==
  ASSUME NEW i \in Nat, NEW c \in Call, NEW s \in Child, Half(i, c, s).size > 0
  PROVE  /\ Half(i, c, s) \in Call
         /\ Half(i, c, s).parent = i /\ Half(i, c, s).side = s
         /\ Half(i, c, s).split = FALSE /\ Half(i, c, s).todo = Child
<1>1. HalfBounds(i, c, s) /\ c.depth \in Nat
  BY HalvesOf DEF Call
<1>2. \E f, z \in Nat : Half(i, c, s) = Called(f, z, c.depth + 1, i, s)
  <2>1. s = 0 \/ s = 1
    BY DEF Child
  <2>2. s = 0 => Half(i, c, s) = Called(c.first, LeftSize(c.size), c.depth + 1, i, s)
    BY DEF Half
  <2>3. s = 1 => Half(i, c, s)
          = Called(c.first + Mid(c.size) + 1, RightSize(c.size), c.depth + 1, i, s)
    BY DEF Half
  <2>4. \A f, z : Called(f, z, c.depth + 1, i, s).first = f /\ Called(f, z, c.depth + 1, i, s).size = z
    BY DEF Called
  <2> QED BY <1>1, <2>1, <2>2, <2>3, <2>4 DEF HalfBounds
<1>3. PICK f \in Nat, z \in Nat : Half(i, c, s) = Called(f, z, c.depth + 1, i, s)
  BY <1>2
<1>4. Half(i, c, s) = [first |-> f, size |-> z, depth |-> c.depth + 1, parent |-> i,
                       side |-> s, split |-> FALSE, todo |-> Child]
  BY <1>3 DEF Called
<1>5. z > 0
  BY <1>4
<1>6. Half(i, c, s) \in Call
  BY <1>1, <1>4, <1>5 DEF Call
<1> QED BY <1>4, <1>6
-----------------------------------------------------------------------------
LEMMA SpanElement ==
  ASSUME NEW a \in Nat, NEW n \in Nat
  PROVE  /\ Span(a, n) \subseteq Nat
         /\ \A x : x \in Span(a, n) <=> x \in Nat /\ a <= x /\ x < a + n
         /\ Span(a, n) = {} <=> n = 0
<1>1. \A x : x \in Span(a, n) <=> x \in Nat /\ a <= x /\ x < a + n
  BY SMT DEF Span
<1>2. n # 0 => a \in Span(a, n)
  BY <1>1
<1> QED BY <1>1, <1>2

(* What is below the children of a range's nodes is in the range, so no     *)
(* child leads out of it.                                                   *)
LEMMA LeadsShut ==
  ASSUME NEW pts, NEW ns, NEW within,
         \A m \in within : Leads(pts, ns, m, within)
  PROVE  Shut(ns, within)
<1> SUFFICES ASSUME NEW n \in within, NEW s \in Child, ns[n].children[s] # Null
             PROVE  ns[n].children[s] \in within
  BY DEF Shut
<1>1. PICK below \in [Child -> SUBSET (within \ {n})] : Parts(pts, ns, n, below)
  BY DEF Leads
<1>2. ns[n].children[s] \in below[s]
  BY <1>1 DEF Parts, Separated
<1> QED BY <1>1, <1>2

LEMMA SeparatedKept ==
  ASSUME NEW pts, NEW ns, NEW new, NEW within, NEW m \in within,
         \A x \in within : new[x] = ns[x],
         NEW s \in Child, NEW below \in SUBSET within, Separated(pts, ns, m, s, below)
  PROVE  Separated(pts, new, m, s, below)
<1>1. Shut(new, below)
  BY DEF Separated, Shut
<1>2. OnSide(pts, new, m, s, below)
  <2> SUFFICES ASSUME NEW x \in below
               PROVE  IF s = 0 THEN At(pts, new, x, new[m].axis) <= At(pts, new, m, new[m].axis)
                      ELSE At(pts, new, m, new[m].axis) <= At(pts, new, x, new[m].axis)
    BY DEF OnSide
  <2>1. new[x] = ns[x] /\ new[m] = ns[m]
    OBVIOUS
  <2> QED BY <2>1 DEF Separated, OnSide, At
<1>3. new[m].children[s] \in below
  BY DEF Separated
<1> QED BY <1>1, <1>2, <1>3 DEF Separated

LEMMA LeadsKept ==
  ASSUME NEW pts, NEW ns, NEW new, NEW within, NEW m \in within,
         \A x \in within : new[x] = ns[x],
         Leads(pts, ns, m, within)
  PROVE  Leads(pts, new, m, within)
<1>1. PICK below \in [Child -> SUBSET (within \ {m})] : Parts(pts, ns, m, below)
  BY DEF Leads
<1>2. new[m] = ns[m]
  OBVIOUS
<1>3. ASSUME NEW s \in Child, new[m].children[s] # Null
      PROVE  Separated(pts, new, m, s, below[s])
  <2>1. Separated(pts, ns, m, s, below[s])
    BY <1>1, <1>2, <1>3 DEF Parts
  <2>2. below[s] \in SUBSET within
    BY <1>1
  <2> QED BY <2>1, <2>2, SeparatedKept
<1>4. Parts(pts, new, m, below)
  BY <1>1, <1>3 DEF Parts
<1> QED BY <1>1, <1>2, <1>4 DEF Leads

(* A part of the tree stays finished while its nodes and its span of the    *)
(* indices are left alone.                                                  *)
LEMMA GrownKept ==
  ASSUME NEW pts, NEW ns, NEW new, NEW ix, NEW order,
         NEW id \in Nat, NEW first \in Nat, NEW size \in Nat,
         Grown(pts, ns, ix, id, first, size),
         DOMAIN new = DOMAIN ns, Span(id, size) \subseteq DOMAIN ns,
         \A m \in Span(id, size) : new[m] = ns[m],
         \A i \in Span(first, size) : order[i] = ix[i]
  PROVE  Grown(pts, new, order, id, first, size)
<1> DEFINE W == Span(id, size)
<1>1. Holds(new, order, id, first, size)
  BY DEF Grown, Holds
<1>2. \A m \in W : Leads(pts, new, m, W)
  BY LeadsKept DEF Grown
<1>3. Shut(ns, W)
  BY LeadsShut DEF Grown
<1>4. ASSUME size > 0, NEW S \in SUBSET DOMAIN new, id \in S, Shut(new, S)
      PROVE  W \subseteq S
  <2>1. id \in W
    <3>1. \A x : x \in W <=> x \in Nat /\ id <= x /\ x < id + size
      BY SpanElement
    <3> QED BY <1>4, <3>1
  <2>2. Shut(ns, S \cap W)
    BY <1>3, <1>4 DEF Shut
  <2>3. W \subseteq S \cap W
    BY <1>4, <2>1, <2>2 DEF Grown, Reaches
  <2> QED BY <2>3
<1>5. Reaches(new, id, size)
  BY <1>4 DEF Reaches
<1> QED BY <1>1, <1>2, <1>5 DEF Grown

(* Nothing is finished at once.                                             *)
LEMMA NothingGrown ==
  ASSUME NEW pts, NEW ns, NEW ix, NEW id \in Nat, NEW first \in Nat
  PROVE  Grown(pts, ns, ix, id, first, 0)
<1>1. Span(id, 0) = {} /\ Span(first, 0) = {}
  BY SpanElement
<1> QED BY <1>1 DEF Grown, Holds, Reaches

(* A span that was split is finished when its halves are.                   *)
LEMMA GrownTogether ==
  ASSUME NEW pts, NEW ns, NEW ix, NEW i \in Nat, NEW c \in Call,
         Pivot(pts, ns, ix, i, c),
         \A s \in Child : HalfGrown(pts, ns, ix, i, c, s)
  PROVE  Grown(pts, ns, ix, i, c.first, c.size)
<1> DEFINE K(s) == HalfId(i, c, s)
           H(s) == Half(i, c, s)
           W(s) == Span(K(s), H(s).size)
           F(s) == Span(H(s).first, H(s).size)
           All == Span(i, c.size)
           mid == c.first + Mid(c.size)
<1>0. c.first \in Nat /\ c.size \in Nat \ {0} /\ 0 \in Child /\ 1 \in Child
      /\ \A s \in Child : s = 0 \/ s = 1
  BY DEF Call, Child
<1>1. HalvesMeet(i, c) /\ HalfBounds(i, c, 0) /\ HalfBounds(i, c, 1)
  BY <1>0, HalvesOf
<1>a. \A s \in Child : K(s) \in Nat /\ H(s).first \in Nat /\ H(s).size \in Nat
  BY <1>0, <1>1 DEF HalfBounds
<1>b. \A s \in Child :
        /\ \A x : x \in W(s) <=> x \in Nat /\ K(s) <= x /\ x < K(s) + H(s).size
        /\ \A x : x \in F(s) <=> x \in Nat /\ H(s).first <= x /\ x < H(s).first + H(s).size
        /\ H(s).size = 0 => W(s) = {}
        /\ H(s).size > 0 => K(s) \in W(s)
  <2> SUFFICES ASSUME NEW s \in Child
               PROVE  /\ \A x : x \in W(s) <=> x \in Nat /\ K(s) <= x /\ x < K(s) + H(s).size
                      /\ \A x : x \in F(s) <=> x \in Nat /\ H(s).first <= x /\ x < H(s).first + H(s).size
                      /\ H(s).size = 0 => W(s) = {}
                      /\ H(s).size > 0 => K(s) \in W(s)
    OBVIOUS
  <2>1. PICK k \in Nat, f \in Nat, z \in Nat : k = K(s) /\ f = H(s).first /\ z = H(s).size
    BY <1>a
  <2>2. W(s) = Span(k, z) /\ F(s) = Span(f, z)
    BY <2>1
  <2>3. /\ \A x : x \in Span(k, z) <=> x \in Nat /\ k <= x /\ x < k + z
        /\ \A x : x \in Span(f, z) <=> x \in Nat /\ f <= x /\ x < f + z
        /\ z = 0 => Span(k, z) = {}
    BY SpanElement
  <2>4. z > 0 => k \in Span(k, z)
    BY <2>3
  <2> QED BY <2>1, <2>2, <2>3, <2>4
<1>c. /\ \A x : x \in All <=> x \in Nat /\ i <= x /\ x < i + c.size
      /\ \A x : x \in Span(c.first, c.size) <=> x \in Nat /\ c.first <= x /\ x < c.first + c.size
  BY <1>0, SpanElement
<1>2. \A x : x \in All <=> x = i \/ x \in W(0) \/ x \in W(1)
  BY <1>0, <1>1, <1>a, <1>b, <1>c DEF HalvesMeet
<1>3. \A x : x \in Span(c.first, c.size) <=> x = mid \/ x \in F(0) \/ x \in F(1)
  BY <1>0, <1>1, <1>a, <1>b, <1>c DEF HalvesMeet
<1>4. \A x \in F(0) : x < mid
  BY <1>0, <1>1, <1>a, <1>b, <1>c DEF HalvesMeet
<1>5. \A x \in F(1) : x > mid
  BY <1>0, <1>1, <1>a, <1>b, <1>c DEF HalvesMeet
<1>6. \A s \in Child : Grown(pts, ns, ix, K(s), H(s).first, H(s).size)
  BY DEF HalfGrown
<1>7. ns[i].index = ix[mid]
  BY DEF Pivot
<1>8. Holds(ns, ix, i, c.first, c.size)
  <2>1. Holds(ns, ix, K(0), H(0).first, H(0).size) /\ Holds(ns, ix, K(1), H(1).first, H(1).size)
    BY <1>0, <1>6 DEF Grown
  <2>2. \A m \in All : \E x \in Span(c.first, c.size) : ns[m].index = ix[x]
    <3> SUFFICES ASSUME NEW m \in All
                 PROVE  \E x \in Span(c.first, c.size) : ns[m].index = ix[x]
      OBVIOUS
    <3>1. CASE m = i
      BY <3>1, <1>3, <1>7
    <3>2. CASE m \in W(0)
      BY <3>2, <1>3, <2>1 DEF Holds
    <3>3. CASE m \in W(1)
      BY <3>3, <1>3, <2>1 DEF Holds
    <3> QED BY <1>2, <3>1, <3>2, <3>3
  <2>3. \A x \in Span(c.first, c.size) : \E m \in All : ns[m].index = ix[x]
    <3> SUFFICES ASSUME NEW x \in Span(c.first, c.size)
                 PROVE  \E m \in All : ns[m].index = ix[x]
      OBVIOUS
    <3>1. CASE x = mid
      BY <3>1, <1>2, <1>7
    <3>2. CASE x \in F(0)
      BY <3>2, <1>2, <2>1 DEF Holds
    <3>3. CASE x \in F(1)
      BY <3>3, <1>2, <2>1 DEF Holds
    <3> QED BY <1>3, <3>1, <3>2, <3>3
  <2> QED BY <2>2, <2>3 DEF Holds
<1>9. \A s \in Child : \A m \in W(s) : Leads(pts, ns, m, All)
  <2> SUFFICES ASSUME NEW s \in Child, NEW m \in W(s)
               PROVE  Leads(pts, ns, m, All)
    OBVIOUS
  <2>1. Leads(pts, ns, m, W(s))
    BY <1>6 DEF Grown
  <2>2. W(s) \subseteq All
    BY <1>0, <1>2
  <2>3. PICK below \in [Child -> SUBSET (W(s) \ {m})] : Parts(pts, ns, m, below)
    BY <2>1 DEF Leads
  <2>4. below \in [Child -> SUBSET (All \ {m})]
    BY <2>2, <2>3
  <2> QED BY <2>1, <2>3, <2>4 DEF Leads
<1>10. ASSUME NEW s \in Child, ns[i].children[s] # Null
       PROVE  Separated(pts, ns, i, s, W(s))
  <2>1. H(s).size # 0 /\ ns[i].children[s] = K(s)
    BY <1>10 DEF HalfGrown
  <2>2. K(s) \in W(s)
    BY <1>a, <1>b, <2>1
  <2>3. Shut(ns, W(s))
    BY <1>6, LeadsShut DEF Grown
  <2>4. OnSide(pts, ns, i, s, W(s))
    <3> SUFFICES ASSUME NEW x \in W(s)
                 PROVE  IF s = 0 THEN At(pts, ns, x, ns[i].axis) <= At(pts, ns, i, ns[i].axis)
                        ELSE At(pts, ns, i, ns[i].axis) <= At(pts, ns, x, ns[i].axis)
      BY DEF OnSide
    <3>1. PICK j \in F(s) : ns[x].index = ix[j]
      BY <1>6 DEF Grown, Holds
    <3>2. j \in Span(c.first, c.size)
      BY <1>0, <1>3, <3>1
    <3>3. ns[i].axis = Axis(c.depth)
      BY DEF Pivot
    <3>4. CASE s = 0
      <4>1. j < mid
        BY <1>4, <3>1, <3>4
      <4>2. pts[ix[j]][Axis(c.depth) + 1] <= pts[ix[mid]][Axis(c.depth) + 1]
        BY <3>2, <4>1 DEF Pivot
      <4> QED BY <1>7, <3>1, <3>3, <3>4, <4>2 DEF At
    <3>5. CASE s = 1
      <4>1. j > mid
        BY <1>5, <3>1, <3>5
      <4>2. pts[ix[mid]][Axis(c.depth) + 1] <= pts[ix[j]][Axis(c.depth) + 1]
        BY <3>2, <4>1 DEF Pivot
      <4> QED BY <1>7, <3>1, <3>3, <3>5, <4>2 DEF At
    <3> QED BY <1>0, <3>4, <3>5
  <2> QED BY <2>1, <2>2, <2>3, <2>4 DEF Separated
<1>d. Leads(pts, ns, i, All)
  <2>1. ns[i].axis \in Range0(Dim)
    <3>1. c.depth \in Nat /\ Dim \in Nat \ {0}
      BY SizeAssumption DEF Call
    <3>2. c.depth % Dim \in 0 .. Dim - 1
      BY <3>1
    <3> QED BY <3>2 DEF Pivot, Axis, Range0
  <2> DEFINE below == [s \in Child |-> W(s)]
  <2>2. W(0) \cap W(1) = {}
    BY <1>0, <1>1, <1>a, <1>b DEF HalvesMeet
  <2>3. ASSUME NEW s \in Child PROVE W(s) \in SUBSET (All \ {i})
    <3>1. \A x \in W(s) : i < x
      BY <1>0, <1>1, <1>a, <1>b DEF HalfBounds
    <3>2. W(s) \subseteq All
      BY <1>0, <1>2
    <3> QED BY <3>1, <3>2
  <2>4. below \in [Child -> SUBSET (All \ {i})]
    BY <2>3
  <2>5. below[0] \cap below[1] = {}
    BY <1>0, <2>2
  <2>6. Parts(pts, ns, i, below)
    <3> SUFFICES ASSUME NEW s \in Child, ns[i].children[s] # Null
                 PROVE  Separated(pts, ns, i, s, below[s])
      BY <2>5 DEF Parts
    <3>1. below[s] = W(s)
      OBVIOUS
    <3> QED BY <1>10, <3>1
  <2> QED BY <2>1, <2>4, <2>6 DEF Leads
<1>11. \A m \in All : Leads(pts, ns, m, All)
  BY <1>0, <1>2, <1>9, <1>d
<1>12. ASSUME NEW S \in SUBSET DOMAIN ns, i \in S, Shut(ns, S)
       PROVE  All \subseteq S
  <2>1. \A s \in Child : W(s) \subseteq S
    <3> SUFFICES ASSUME NEW s \in Child
                 PROVE  W(s) \subseteq S
      OBVIOUS
    <3>1. CASE H(s).size = 0
      BY <1>b, <3>1
    <3>2. CASE H(s).size # 0
      <4>1. K(s) # Null /\ H(s).size > 0
        BY <1>a, <3>2 DEF Null
      <4>2. K(s) \in S
        BY <1>12, <3>2, <4>1 DEF HalfGrown, Shut
      <4> QED BY <1>6, <1>12, <4>1, <4>2 DEF Grown, Reaches
    <3> QED BY <3>1, <3>2
  <2> QED BY <1>0, <1>2, <1>12, <2>1
<1>13. Reaches(ns, i, c.size)
  BY <1>12 DEF Reaches
<1> QED BY <1>8, <1>11, <1>13 DEF Grown
-----------------------------------------------------------------------------
LEMMA CallBounds ==
  ASSUME Sized, NEW i \in DOMAIN calls
  PROVE  /\ i \in Nat /\ calls[i] \in Call
         /\ calls[i].first \in Nat /\ calls[i].size \in Nat \ {0}
         /\ HalvesMeet(i, calls[i]) /\ \A s \in Child : HalfBounds(i, calls[i], s)
<1>1. i \in Nat /\ calls[i] \in Call
  BY DEF Sized, Range0
<1>2. calls[i].first \in Nat /\ calls[i].size \in Nat \ {0}
  BY <1>1 DEF Call
<1> QED BY <1>1, <1>2, HalvesOf

LEMMA HalvesDiffer ==
  ASSUME NEW i \in Nat, NEW c \in Call, NEW s \in Child, NEW t \in Child, s # t
  PROVE  /\ \/ HalfId(i, c, s) + Half(i, c, s).size <= HalfId(i, c, t)
            \/ HalfId(i, c, t) + Half(i, c, t).size <= HalfId(i, c, s)
         /\ \/ Half(i, c, s).first + Half(i, c, s).size <= Half(i, c, t).first
            \/ Half(i, c, t).first + Half(i, c, t).size <= Half(i, c, s).first
<1>1. HalvesMeet(i, c) /\ HalfBounds(i, c, 0) /\ HalfBounds(i, c, 1)
  BY HalvesOf DEF Child
<1>2. (s = 0 /\ t = 1) \/ (s = 1 /\ t = 0)
  BY DEF Child
<1>3. /\ HalfId(i, c, 0) + Half(i, c, 0).size <= HalfId(i, c, 1)
      /\ Half(i, c, 0).first + Half(i, c, 0).size <= Half(i, c, 1).first
  BY <1>1 DEF HalvesMeet, HalfBounds
<1> QED BY <1>2, <1>3

(* A call's node is not in a half that another call was returned, nor in    *)
(* one of its own.                                                          *)
LEMMA NodeOutside ==
  ASSUME Sized, Nested, NEW p \in DOMAIN calls, NEW q \in DOMAIN calls,
         NEW t \in Child, Returned(q, t)
  PROVE  p < HalfId(q, calls[q], t)
         \/ HalfId(q, calls[q], t) + Half(q, calls[q], t).size <= p
<1> DEFINE k == HalfId(q, calls[q], t)
           z == Half(q, calls[q], t).size
<1>1. /\ p \in Nat /\ calls[p].size \in Nat \ {0} /\ q \in Nat /\ calls[q].size \in Nat \ {0}
      /\ k \in Nat /\ z \in Nat /\ q < k /\ k + z <= q + calls[q].size
      /\ calls[p] \in Call /\ calls[q] \in Call
  BY CallBounds DEF HalfBounds
<1>2. CASE p = q
  BY <1>1, <1>2
<1>3. CASE p # q /\ Apart(p, calls[p], q, calls[q])
  BY <1>1, <1>3 DEF Apart
<1>4. ASSUME Inside(p, q) PROVE p < k \/ k + z <= p
  <2>1. PICK s \in Child : InsideOf(p, q, s)
    BY <1>4 DEF Inside
  <2>2. s # t
    BY <2>1 DEF InsideOf, Open, Returned
  <2>3. HalfBounds(q, calls[q], s)
    BY CallBounds
  <2>4. /\ HalfId(q, calls[q], s) <= p
        /\ p + calls[p].size <= HalfId(q, calls[q], s) + Half(q, calls[q], s).size
    BY <2>1 DEF InsideOf, InHalf
  <2>5. \/ HalfId(q, calls[q], s) + Half(q, calls[q], s).size <= k
        \/ k + z <= HalfId(q, calls[q], s)
    BY <1>1, <2>2, HalvesDiffer
  <2> QED BY <1>1, <2>3, <2>4, <2>5 DEF HalfBounds
<1>5. ASSUME Inside(q, p) PROVE p < k
  <2>1. PICK s \in Child : InsideOf(q, p, s)
    BY <1>5 DEF Inside
  <2>2. HalfId(p, calls[p], s) \in Nat /\ p < HalfId(p, calls[p], s)
    BY CallBounds DEF HalfBounds
  <2> QED BY <1>1, <2>1, <2>2 DEF InsideOf, InHalf
<1> QED BY <1>2, <1>3, <1>4, <1>5 DEF Nested

(* Nor does a call that is about to split its span share any of it.         *)
LEMMA SpanOutside ==
  ASSUME Sized, Nested, NEW p \in DOMAIN calls, calls[p].split = FALSE,
         NEW q \in DOMAIN calls, calls[q].split = TRUE, NEW t \in Child, Returned(q, t)
  PROVE  LET h == Half(q, calls[q], t) IN
         calls[p].first + calls[p].size <= h.first \/ h.first + h.size <= calls[p].first
<1> DEFINE h == Half(q, calls[q], t)
<1>1. /\ calls[p].first \in Nat /\ calls[p].size \in Nat
      /\ calls[q].first \in Nat /\ calls[q].size \in Nat
      /\ h.first \in Nat /\ h.size \in Nat
      /\ calls[q].first <= h.first /\ h.first + h.size <= calls[q].first + calls[q].size
      /\ q \in Nat /\ calls[q] \in Call
  BY CallBounds DEF HalfBounds
<1>2. p # q
  OBVIOUS
<1>3. CASE Apart(p, calls[p], q, calls[q])
  BY <1>1, <1>3 DEF Apart
<1>4. ASSUME Inside(p, q)
      PROVE  calls[p].first + calls[p].size <= h.first \/ h.first + h.size <= calls[p].first
  <2>1. PICK s \in Child : InsideOf(p, q, s)
    BY <1>4 DEF Inside
  <2>2. s # t
    BY <2>1 DEF InsideOf, Open, Returned
  <2>3. HalfBounds(q, calls[q], s)
    BY CallBounds
  <2>4. /\ Half(q, calls[q], s).first <= calls[p].first
        /\ calls[p].first + calls[p].size <= Half(q, calls[q], s).first + Half(q, calls[q], s).size
    BY <2>1 DEF InsideOf, InHalf
  <2>5. \/ Half(q, calls[q], s).first + Half(q, calls[q], s).size <= h.first
        \/ h.first + h.size <= Half(q, calls[q], s).first
    BY <1>1, <2>2, HalvesDiffer
  <2> QED BY <1>1, <2>3, <2>4, <2>5 DEF HalfBounds
<1>5. ~Inside(q, p)
  BY DEF Inside, InsideOf
<1> QED BY <1>2, <1>3, <1>4, <1>5 DEF Nested
-----------------------------------------------------------------------------
(* The invariant says what the runs check.                                  *)
LEMMA SizedTypes ==
  ASSUME Sized
  PROVE  TypeOK
<1>1. Range0(Count) = DOMAIN points /\ DOMAIN nodes = Range0(Count)
      /\ indices \in [Range0(Count) -> Range0(Count)]
  BY DEF Sized, Surjection
<1>2. \A n \in Ids : /\ nodes[n].index \in Nat \cup {Null} /\ nodes[n].axis \in Nat \cup {Null}
                     /\ nodes[n].children \in [Child -> Nat \cup {Null}]
  <2> SUFFICES ASSUME NEW n \in Ids
               PROVE  /\ nodes[n].index \in Nat \cup {Null} /\ nodes[n].axis \in Nat \cup {Null}
                      /\ nodes[n].children \in [Child -> Nat \cup {Null}]
    OBVIOUS
  <2>1. nodes[n] \in Node
    BY <1>1 DEF Sized, Ids
  <2> QED BY <2>1 DEF Node
<1> QED BY <1>1, <1>2 DEF TypeOK, Sized, Ids

LEMMA NestedTasksApart ==
  ASSUME Sized, Nested
  PROVE  TasksApart
<1> SUFFICES ASSUME NEW i \in DOMAIN calls, NEW j \in DOMAIN calls,
                    i # j, ~calls[i].split
             PROVE  /\ j \notin Span(i, calls[i].size)
                    /\ ~calls[j].split =>
                         /\ Span(calls[i].first, calls[i].size)
                              \cap Span(calls[j].first, calls[j].size) = {}
                         /\ Span(i, calls[i].size) \cap Span(j, calls[j].size) = {}
  BY DEF TasksApart
<1> DEFINE c == calls[i]
           d == calls[j]
<1>1. /\ i \in Nat /\ c.first \in Nat /\ c.size \in Nat \ {0}
      /\ j \in Nat /\ d.first \in Nat /\ d.size \in Nat \ {0}
  BY CallBounds
<1>2. /\ \A x : x \in Span(i, c.size) <=> x \in Nat /\ i <= x /\ x < i + c.size
      /\ \A x : x \in Span(c.first, c.size) <=> x \in Nat /\ c.first <= x /\ x < c.first + c.size
      /\ \A x : x \in Span(j, d.size) <=> x \in Nat /\ j <= x /\ x < j + d.size
      /\ \A x : x \in Span(d.first, d.size) <=> x \in Nat /\ d.first <= x /\ x < d.first + d.size
  BY <1>1, SpanElement
<1>3. ~Inside(j, i)
  BY DEF Inside, InsideOf
<1>4. CASE Apart(i, c, j, d)
  <2>1. i + c.size <= j \/ j + d.size <= i
    BY <1>4 DEF Apart
  <2>2. c.first + c.size <= d.first \/ d.first + d.size <= c.first
    BY <1>4 DEF Apart
  <2>3. j \notin Span(i, c.size)
    BY <1>1, <1>2, <2>1
  <2>4. Span(i, c.size) \cap Span(j, d.size) = {}
    BY <1>1, <1>2, <2>1
  <2>5. Span(c.first, c.size) \cap Span(d.first, d.size) = {}
    BY <1>1, <1>2, <2>2
  <2> QED BY <2>3, <2>4, <2>5
<1>5. CASE Inside(i, j)
  <2>1. PICK s \in Child : InsideOf(i, j, s)
    BY <1>5 DEF Inside
  <2>2. d.split = TRUE /\ HalfId(j, d, s) <= i
    BY <2>1 DEF InsideOf, InHalf
  <2>3. HalfId(j, d, s) \in Nat /\ j < HalfId(j, d, s)
    BY CallBounds DEF HalfBounds
  <2>4. j \notin Span(i, c.size)
    BY <1>1, <1>2, <2>2, <2>3
  <2> QED BY <2>2, <2>4
<1> QED BY <1>3, <1>4, <1>5 DEF Nested

(* All the points are in the tree when its first node is finished.          *)
LEMMA BelowInside ==
  ASSUME NEW n, NEW S \in ClosedSets, n \in S \cup {Null}
  PROVE  Below(n, ClosedSets) \subseteq S
BY DEF Below

LEMMA ShutClosed ==
  ASSUME NEW S \in SUBSET Ids
  PROVE  S \in ClosedSets <=> Shut(nodes, S)
BY DEF ClosedSets, Shut

LEMMA GrownTreeComplete ==
  ASSUME Sized, Progress
  PROVE  TreeComplete
<1> DEFINE side(n, i) == Below(nodes[n].children[i], ClosedSets)
<1> SUFFICES ASSUME Built, Ids # {}
             PROVE  /\ Ids \in ClosedSets /\ Below(0, ClosedSets) = Ids
                    /\ {nodes[n].index : n \in Ids} = Ids
                    /\ \A n \in Ids :
                         LET at(m) == points[nodes[m].index][nodes[n].axis + 1] IN
                         /\ nodes[n].axis \in Range0(Dim)
                         /\ side(n, 0) \cap side(n, 1) = {} /\ n \notin side(n, 0) \cup side(n, 1)
                         /\ \A m \in side(n, 0) : at(m) <= at(n)
                         /\ \A m \in side(n, 1) : at(n) <= at(m)
  BY DEF TreeComplete
<1>1. Grown(points, nodes, indices, 0, 0, Count)
  BY DEF Progress
<1>2. /\ Count \in Nat /\ Ids = Range0(Count) /\ Ids = Span(0, Count)
      /\ indices \in Surjection(Ids, Ids)
  <2>1. Count \in Nat /\ Ids = Range0(Count) /\ indices \in Surjection(Ids, Ids)
    BY DEF Sized, Ids
  <2>2. Range0(Count) = Span(0, Count)
    BY <2>1 DEF Range0, Span
  <2> QED BY <2>1, <2>2
<1>3. Count > 0 /\ 0 \in Ids /\ 0 # Null
  <2>1. Range0(Count) # {}
    BY <1>2
  <2> QED BY <1>2, <2>1 DEF Range0, Null
<1>4. Ids \in ClosedSets /\ Below(0, ClosedSets) = Ids
  <2>1. ASSUME NEW S \in ClosedSets, 0 \in S
        PROVE  Ids \subseteq S
    <3>1. S \in SUBSET Ids /\ Shut(nodes, S)
      BY ShutClosed DEF ClosedSets
    <3> QED BY <1>1, <1>2, <1>3, <2>1, <3>1 DEF Grown, Reaches, Ids
  <2>2. \A m \in Ids : \A S \in ClosedSets : 0 \in S => m \in S
    BY <2>1
  <2>3. Below(0, ClosedSets) = {m \in Ids : \A S \in ClosedSets : 0 \in S => m \in S}
    BY <1>3 DEF Below
  <2>4. \A m \in Span(0, Count) : Leads(points, nodes, m, Span(0, Count))
    BY <1>1 DEF Grown
  <2>5. Shut(nodes, Ids)
    BY <1>2, <2>4, LeadsShut
  <2> QED BY <2>2, <2>3, <2>5, ShutClosed
<1>5. {nodes[n].index : n \in Ids} = Ids
  <2>1. \A k \in Ids : \E i \in Ids : indices[i] = k
    BY <1>2 DEF Surjection
  <2>2. \A i \in Ids : indices[i] \in Ids
    BY <1>2 DEF Surjection
  <2>3. /\ \A m \in Ids : \E i \in Ids : nodes[m].index = indices[i]
        /\ \A i \in Ids : \E m \in Ids : nodes[m].index = indices[i]
    BY <1>1, <1>2 DEF Grown, Holds
  <2>4. \A m \in Ids : nodes[m].index \in Ids
    BY <2>2, <2>3
  <2>5. ASSUME NEW k \in Ids PROVE \E m \in Ids : nodes[m].index = k
    <3>1. PICK i \in Ids : indices[i] = k
      BY <2>1
    <3>2. PICK m \in Ids : nodes[m].index = indices[i]
      BY <2>3
    <3> QED BY <3>1, <3>2
  <2> QED BY <2>4, <2>5
<1>6. ASSUME NEW n \in Ids
      PROVE  /\ nodes[n].axis \in Range0(Dim)
             /\ \E below \in [Child -> SUBSET (Ids \ {n})] :
                  /\ Parts(points, nodes, n, below)
                  /\ \A s \in Child : side(n, s) \subseteq below[s]
  <2>1. Leads(points, nodes, n, Ids)
    BY <1>1, <1>2 DEF Grown
  <2>2. PICK below \in [Child -> SUBSET (Ids \ {n})] : Parts(points, nodes, n, below)
    BY <2>1 DEF Leads
  <2>3. ASSUME NEW s \in Child PROVE side(n, s) \subseteq below[s]
    <3>1. CASE nodes[n].children[s] = Null
      BY <3>1 DEF Below
    <3>2. CASE nodes[n].children[s] # Null
      <4>1. nodes[n].children[s] \in below[s] /\ Shut(nodes, below[s])
        BY <2>2, <3>2 DEF Parts, Separated
      <4>2. below[s] \in ClosedSets
        BY <2>2, <4>1, ShutClosed
      <4> QED BY <4>1, <4>2, BelowInside
    <3> QED BY <3>1, <3>2
  <2> QED BY <2>1, <2>2, <2>3 DEF Leads
<1>7. ASSUME NEW n \in Ids, NEW s \in Child, NEW m \in side(n, s)
      PROVE  IF s = 0 THEN At(points, nodes, m, nodes[n].axis) <= At(points, nodes, n, nodes[n].axis)
             ELSE At(points, nodes, n, nodes[n].axis) <= At(points, nodes, m, nodes[n].axis)
  <2>1. PICK below \in [Child -> SUBSET (Ids \ {n})] :
               Parts(points, nodes, n, below) /\ side(n, s) \subseteq below[s]
    BY <1>6
  <2>2. nodes[n].children[s] # Null
    BY <1>7 DEF Below
  <2> QED BY <1>7, <2>1, <2>2 DEF Parts, Separated, OnSide
<1>8. 0 \in Child /\ 1 \in Child /\ 1 # 0
  BY DEF Child
<1>9. ASSUME NEW n \in Ids, NEW m \in side(n, 0)
      PROVE  points[nodes[m].index][nodes[n].axis + 1] <= points[nodes[n].index][nodes[n].axis + 1]
  BY <1>7, <1>8 DEF At
<1>10. ASSUME NEW n \in Ids, NEW m \in side(n, 1)
       PROVE  points[nodes[n].index][nodes[n].axis + 1] <= points[nodes[m].index][nodes[n].axis + 1]
  BY <1>7, <1>8 DEF At
<1>11. ASSUME NEW n \in Ids
       PROVE  side(n, 0) \cap side(n, 1) = {} /\ n \notin side(n, 0) \cup side(n, 1)
  BY <1>6, <1>8 DEF Parts
<1> QED BY <1>4, <1>5, <1>6, <1>9, <1>10, <1>11
-----------------------------------------------------------------------------
(* What a step leaves of a call: its part, and whatever it did before.      *)
SamePart(c, d) ==
  /\ d.first = c.first /\ d.size = c.size /\ d.depth = c.depth
  /\ d.parent = c.parent /\ d.side = c.side

Kept(i) ==
  /\ i \in DOMAIN calls' /\ SamePart(calls[i], calls'[i])
  /\ calls[i].split = TRUE => calls'[i].split = TRUE
  /\ calls'[i].todo \subseteq calls[i].todo

LEMMA SameHalves ==
  ASSUME NEW c, NEW d, SamePart(c, d), NEW i, NEW s
  PROVE  Half(i, d, s) = Half(i, c, s) /\ HalfId(i, d, s) = HalfId(i, c, s)
BY DEF SamePart, Half, HalfId

LEMMA OpenKept ==
  ASSUME \A j \in DOMAIN calls : Kept(j), NEW i, NEW s, Open(i, s)
  PROVE  Open(i, s)'
<1>1. PICK k \in DOMAIN calls : calls[k].parent = i /\ calls[k].side = s
  BY DEF Open
<1>2. k \in DOMAIN calls' /\ calls'[k].parent = i /\ calls'[k].side = s
  BY <1>1 DEF Kept, SamePart
<1> QED BY <1>2 DEF Open

LEMMA CallerKept ==
  ASSUME \A j \in DOMAIN calls : Kept(j), UNCHANGED points,
         NEW i \in DOMAIN calls, Caller(i),
         calls'[i].split = FALSE => calls'[i].todo = Child
  PROVE  Caller(i)'
<1> DEFINE p == calls[i].parent
<1>1. Kept(i) /\ SamePart(calls[i], calls'[i]) /\ Count' = Count
  BY DEF Kept, Count
<1>2. i = 0 => calls'[i].parent = Null /\ calls'[i].first = 0 /\ calls'[i].size = Count'
  BY <1>1 DEF Caller, SamePart
<1>3. ASSUME i # 0
      PROVE  p \in DOMAIN calls' /\ MadeBy(i, calls'[i], p, calls'[p])
  <2>1. p \in DOMAIN calls /\ MadeBy(i, calls[i], p, calls[p])
    BY <1>3 DEF Caller
  <2>2. Kept(p)
    BY <2>1
  <2>3. \A s : /\ Half(p, calls'[p], s) = Half(p, calls[p], s)
               /\ HalfId(p, calls'[p], s) = HalfId(p, calls[p], s)
    BY <2>2, SameHalves DEF Kept
  <2> QED BY <1>1, <2>1, <2>2, <2>3 DEF MadeBy, Kept, SamePart
<1>4. calls'[i].parent = p
  BY <1>1 DEF SamePart
<1> QED BY <1>2, <1>3, <1>4 DEF Caller

(* How two calls lie to each other.                                         *)
Placed(i, j) == Apart(i, calls[i], j, calls[j]) \/ Inside(i, j) \/ Inside(j, i)

LEMMA InsideKept ==
  ASSUME \A j \in DOMAIN calls : Kept(j),
         NEW i \in DOMAIN calls, NEW j \in DOMAIN calls, Inside(i, j)
  PROVE  Inside(i, j)'
<1>1. PICK s \in Child : InsideOf(i, j, s)
  BY DEF Inside
<1>2. Kept(i) /\ Kept(j)
  OBVIOUS
<1>3. calls'[j].split = TRUE /\ s \notin calls'[j].todo
  BY <1>1, <1>2 DEF InsideOf, Kept
<1>4. Open(j, s)'
  BY <1>1, OpenKept DEF InsideOf
<1>5. Half(j, calls'[j], s) = Half(j, calls[j], s) /\ HalfId(j, calls'[j], s) = HalfId(j, calls[j], s)
  BY <1>2, SameHalves DEF Kept
<1>6. calls'[i].first = calls[i].first /\ calls'[i].size = calls[i].size
  BY <1>2 DEF Kept, SamePart
<1>7. InHalf(i, calls'[i], j, calls'[j], s)
  BY <1>1, <1>5, <1>6 DEF InsideOf, InHalf
<1>8. InsideOf(i, j, s)'
  BY <1>3, <1>4, <1>7 DEF InsideOf
<1> QED BY <1>8 DEF Inside

LEMMA PlacedKept ==
  ASSUME \A j \in DOMAIN calls : Kept(j),
         NEW i \in DOMAIN calls, NEW j \in DOMAIN calls, Placed(i, j)
  PROVE  Placed(i, j)'
<1>1. Kept(i) /\ Kept(j)
  OBVIOUS
<1>2. CASE Apart(i, calls[i], j, calls[j])
  BY <1>1, <1>2 DEF Placed, Apart, Kept, SamePart
<1>3. CASE Inside(i, j)
  BY <1>3, InsideKept DEF Placed
<1>4. CASE Inside(j, i)
  BY <1>4, InsideKept DEF Placed
<1> QED BY <1>2, <1>3, <1>4 DEF Placed
-----------------------------------------------------------------------------
(* A half that was returned stays as it is, if nothing of it is written.    *)
LEMMA HalfGrownKept ==
  ASSUME NEW pts, NEW ns, NEW new, NEW ix, NEW order, NEW i \in Nat,
         NEW c \in Call, NEW d, SamePart(c, d), NEW s \in Child,
         HalfGrown(pts, ns, ix, i, c, s),
         DOMAIN new = DOMAIN ns, Span(i, c.size) \subseteq DOMAIN ns,
         new[i].children[s] = ns[i].children[s],
         \A m \in Span(HalfId(i, c, s), Half(i, c, s).size) : new[m] = ns[m],
         \A j \in Span(Half(i, c, s).first, Half(i, c, s).size) : order[j] = ix[j]
  PROVE  HalfGrown(pts, new, order, i, d, s)
<1>1. Half(i, d, s) = Half(i, c, s) /\ HalfId(i, d, s) = HalfId(i, c, s)
  BY SameHalves
<1>2. HalfBounds(i, c, s) /\ c.size \in Nat
  BY HalvesOf DEF Call
<1>3. PICK k \in Nat, f \in Nat, z \in Nat :
        k = HalfId(i, c, s) /\ f = Half(i, c, s).first /\ z = Half(i, c, s).size
  BY <1>2 DEF HalfBounds
<1>4. Span(k, z) \subseteq DOMAIN ns
  <2>1. /\ \A x : x \in Span(k, z) <=> x \in Nat /\ k <= x /\ x < k + z
        /\ \A x : x \in Span(i, c.size) <=> x \in Nat /\ i <= x /\ x < i + c.size
    BY <1>2, SpanElement
  <2>2. i < k /\ k + z <= i + c.size
    BY <1>2, <1>3 DEF HalfBounds
  <2>3. Span(k, z) \subseteq Span(i, c.size)
    BY <1>2, <2>1, <2>2
  <2> QED BY <2>3
<1>5. Grown(pts, ns, ix, k, f, z)
  BY <1>3 DEF HalfGrown
<1>6. Grown(pts, new, order, k, f, z)
  BY <1>3, <1>4, <1>5, GrownKept
<1> QED BY <1>1, <1>3, <1>6 DEF HalfGrown

(* Nor is the pivot undone by a step that reorders one of the halves.       *)
LEMMA PivotKept ==
  ASSUME NEW pts, NEW ns, NEW new, NEW ix, NEW order, NEW i,
         NEW c, NEW d, SamePart(c, d), Pivot(pts, ns, ix, i, c),
         new[i].index = ns[i].index, new[i].axis = ns[i].axis,
         order[c.first + Mid(c.size)] = ix[c.first + Mid(c.size)],
         \A j \in Span(c.first, c.size) : j < c.first + Mid(c.size) =>
           \E k \in Span(c.first, c.size) : k < c.first + Mid(c.size) /\ order[j] = ix[k],
         \A j \in Span(c.first, c.size) : j > c.first + Mid(c.size) =>
           \E k \in Span(c.first, c.size) : k > c.first + Mid(c.size) /\ order[j] = ix[k]
  PROVE  Pivot(pts, new, order, i, d)
<1> DEFINE mid == c.first + Mid(c.size)
           axis == Axis(c.depth) + 1
<1>1. d.first = c.first /\ d.size = c.size /\ d.depth = c.depth
  BY DEF SamePart
<1>2. new[i].index = order[mid] /\ new[i].axis = Axis(c.depth)
  BY DEF Pivot
<1>3. ASSUME NEW j \in Span(c.first, c.size), j < mid
      PROVE  pts[order[j]][axis] <= pts[order[mid]][axis]
  <2>1. PICK k \in Span(c.first, c.size) : k < mid /\ order[j] = ix[k]
    BY <1>3
  <2>2. pts[ix[k]][axis] <= pts[ix[mid]][axis]
    BY <2>1 DEF Pivot
  <2> QED BY <2>1, <2>2
<1>4. ASSUME NEW j \in Span(c.first, c.size), j > mid
      PROVE  pts[order[mid]][axis] <= pts[order[j]][axis]
  <2>1. PICK k \in Span(c.first, c.size) : k > mid /\ order[j] = ix[k]
    BY <1>4
  <2>2. pts[ix[mid]][axis] <= pts[ix[k]][axis]
    BY <2>1 DEF Pivot
  <2> QED BY <2>1, <2>2
<1> QED BY <1>1, <1>2, <1>3, <1>4 DEF Pivot

(* nth_element loses no point, and touches nothing but its span.            *)
LEMMA RearrangedOf ==
  ASSUME Sized, NEW first \in Nat, NEW size \in Nat, first + size <= Count,
         NEW order \in Rearranged(first, size)
  PROVE  /\ order \in Surjection(Range0(Count), Range0(Count))
         /\ \A i \in Range0(Count) : i \notin Span(first, size) => order[i] = indices[i]
         /\ \A i \in Span(first, size) : \E k \in Span(first, size) : order[i] = indices[k]
<1> DEFINE R == Range0(Count)
           span == Span(first, size)
<1>1. /\ indices \in [R -> R] /\ Count \in Nat
      /\ \A v \in R : \E i \in R : indices[i] = v
  BY DEF Sized, Surjection
<1>2. span \subseteq R
  BY <1>1 DEF Span, Range0
<1>3. PICK f \in Surjection(span, span) :
        order = [i \in R |-> IF i \in span THEN indices[f[i]] ELSE indices[i]]
  BY <1>1 DEF Rearranged
<1>4. f \in [span -> span] /\ \A t \in span : \E k \in span : f[k] = t
  BY <1>3 DEF Surjection
<1>5. order \in [R -> R]
  BY <1>1, <1>2, <1>3, <1>4
<1>6. ASSUME NEW v \in R PROVE \E i \in R : order[i] = v
  <2>1. PICK i \in R : indices[i] = v
    BY <1>1
  <2>2. CASE i \notin span
    BY <1>3, <2>1, <2>2
  <2>3. CASE i \in span
    <3>1. PICK k \in span : f[k] = i
      BY <1>4, <2>3
    <3> QED BY <1>2, <1>3, <2>1, <3>1
  <2> QED BY <2>2, <2>3
<1>7. order \in Surjection(R, R)
  BY <1>5, <1>6 DEF Surjection
<1>8. \A i \in span : \E k \in span : order[i] = indices[k]
  BY <1>2, <1>3, <1>4
<1> QED BY <1>3, <1>7, <1>8
-----------------------------------------------------------------------------
LEMMA AxisIsNat ==
  ASSUME NEW depth \in Nat
  PROVE  Axis(depth) \in Nat
BY SizeAssumption DEF Axis

LEMMA SplitKeeps ==
  ASSUME Sized, NEW id \in DOMAIN calls, Split(id)
  PROVE  /\ DOMAIN calls' = DOMAIN calls
         /\ calls[id].split = FALSE /\ calls'[id].split = TRUE
         /\ calls'[id].todo = calls[id].todo
         /\ \A i \in DOMAIN calls : i # id => calls'[i] = calls[i]
         /\ \A i \in DOMAIN calls : Kept(i) /\ calls'[i] \in Call
<1>1. calls' = [calls EXCEPT ![id].split = TRUE] /\ ~calls[id].split
  BY DEF Split
<1>2. calls[id] \in Call
  BY DEF Sized
<1>3. calls[id].split = FALSE
  BY <1>1, <1>2 DEF Call
<1>4. DOMAIN calls' = DOMAIN calls
      /\ calls'[id] = [calls[id] EXCEPT !.split = TRUE]
      /\ \A i \in DOMAIN calls : i # id => calls'[i] = calls[i]
  BY <1>1
<1>5. calls'[id] \in Call /\ SamePart(calls[id], calls'[id])
      /\ calls'[id].split = TRUE /\ calls'[id].todo = calls[id].todo
  BY <1>2, <1>4 DEF Call, SamePart
<1>6. ASSUME NEW i \in DOMAIN calls PROVE Kept(i) /\ calls'[i] \in Call
  <2>1. CASE i = id
    BY <1>4, <1>5, <2>1 DEF Kept
  <2>2. CASE i # id
    BY <1>4, <2>2 DEF Kept, SamePart, Sized
  <2> QED BY <2>1, <2>2
<1> QED BY <1>3, <1>4, <1>5, <1>6

(* The node and the order that a split leaves.                              *)
SplitTo(id, order) ==
  LET c == calls[id] IN
  /\ order \in Rearranged(c.first, c.size)
  /\ indices' = order
  /\ DOMAIN nodes' = DOMAIN nodes
  /\ \A m \in DOMAIN nodes : m # id => nodes'[m] = nodes[m]
  /\ nodes'[id].children = nodes[id].children
  /\ Pivot(points, nodes', order, id, c)

LEMMA SplitWrites ==
  ASSUME Sized, NEW id \in DOMAIN calls, Split(id)
  PROVE  \E order : SplitTo(id, order) /\ nodes' \in [Range0(Count) -> Node]
<1> DEFINE c == calls[id]
           mid == c.first + Mid(c.size)
<1>1. PICK order \in Rearranged(c.first, c.size) :
        /\ SplitAtMid(order, c.first, c.size, c.depth)
        /\ indices' = order
        /\ nodes' = [nodes EXCEPT ![id].index = order[mid], ![id].axis = Axis(c.depth)]
  BY DEF Split
<1>2. /\ c \in Call /\ c.first \in Nat /\ c.size \in Nat \ {0} /\ c.depth \in Nat
      /\ mid \in Nat /\ mid < c.first + c.size /\ c.first + c.size <= Count
      /\ id \in Range0(Count) /\ Count \in Nat /\ nodes \in [Range0(Count) -> Node]
  <2>1. c \in Call /\ HalvesMeet(id, c)
    BY CallBounds
  <2>2. c.first + c.size <= Count
    BY DEF Sized, Fits
  <2>3. id \in Range0(Count) /\ Count \in Nat /\ nodes \in [Range0(Count) -> Node]
    BY DEF Sized
  <2>4. c.first \in Nat /\ c.size \in Nat \ {0} /\ c.depth \in Nat
    BY <2>1 DEF Call
  <2> QED BY <2>1, <2>2, <2>3, <2>4 DEF HalvesMeet
<1>3. order[mid] \in Nat
  <2>1. order \in [Range0(Count) -> Range0(Count)]
    BY <1>1, <1>2, RearrangedOf DEF Surjection
  <2>2. mid \in Range0(Count)
    BY <1>2 DEF Range0
  <2> QED BY <1>2, <2>1, <2>2 DEF Range0
<1>4. Axis(c.depth) \in Nat
  BY <1>2, AxisIsNat
<1>5. nodes[id] \in Node
  BY <1>2
<1>6. /\ DOMAIN nodes' = DOMAIN nodes
      /\ \A m \in DOMAIN nodes : m # id => nodes'[m] = nodes[m]
      /\ nodes'[id] = [nodes[id] EXCEPT !.index = order[mid], !.axis = Axis(c.depth)]
  BY <1>1, <1>2
<1>7. /\ nodes'[id].children = nodes[id].children
      /\ nodes'[id].index = order[mid] /\ nodes'[id].axis = Axis(c.depth)
      /\ nodes'[id] \in Node
  BY <1>3, <1>4, <1>5, <1>6 DEF Node
<1>8. nodes' \in [Range0(Count) -> Node]
  <2>1. \A m \in Range0(Count) : nodes'[m] \in Node
    BY <1>2, <1>6, <1>7
  <2>2. nodes' = [m \in Range0(Count) |-> nodes'[m]]
    BY <1>1, <1>2
  <2> QED BY <2>1, <2>2
<1>9. Pivot(points, nodes', order, id, c)
  BY <1>1, <1>7 DEF Pivot, SplitAtMid
<1> QED BY <1>1, <1>6, <1>7, <1>8, <1>9 DEF SplitTo

(* Another call's pivot stays in its place, with the same points on each    *)
(* side of it.                                                              *)
LEMMA PivotBesideSplit ==
  ASSUME Sized, Nested, NEW id \in DOMAIN calls, calls[id].split = FALSE,
         NEW i \in DOMAIN calls, i # id,
         NEW order \in Rearranged(calls[id].first, calls[id].size)
  PROVE  LET c == calls[i]
             mid == c.first + Mid(c.size) IN
         /\ order[mid] = indices[mid]
         /\ \A j \in Span(c.first, c.size) : j < mid =>
              \E k \in Span(c.first, c.size) : k < mid /\ order[j] = indices[k]
         /\ \A j \in Span(c.first, c.size) : j > mid =>
              \E k \in Span(c.first, c.size) : k > mid /\ order[j] = indices[k]
<1> DEFINE c == calls[i]
           mid == c.first + Mid(c.size)
           e == calls[id]
           S == Span(e.first, e.size)
<1>1. /\ c.first \in Nat /\ c.size \in Nat \ {0} /\ i \in Nat /\ c \in Call
      /\ e.first \in Nat /\ e.size \in Nat \ {0} /\ id \in Nat
      /\ HalvesMeet(i, c) /\ HalfBounds(i, c, 0) /\ HalfBounds(i, c, 1)
  BY CallBounds DEF Child
<1>2. mid \in Nat /\ c.first <= mid /\ mid < c.first + c.size
  BY <1>1 DEF HalvesMeet
<1>3. c.first + c.size <= Count /\ e.first + e.size <= Count /\ Count \in Nat
  BY DEF Sized, Fits
<1>4. /\ \A x : x \in S <=> x \in Nat /\ e.first <= x /\ x < e.first + e.size
      /\ \A x : x \in Span(c.first, c.size) <=> x \in Nat /\ c.first <= x /\ x < c.first + c.size
  BY <1>1, SpanElement
<1>5. /\ \A x \in Range0(Count) : x \notin S => order[x] = indices[x]
      /\ \A x \in S : \E k \in S : order[x] = indices[k]
  BY <1>1, <1>3, RearrangedOf
<1>6. \A x \in Span(c.first, c.size) : x \in Range0(Count)
  BY <1>1, <1>3, <1>4 DEF Range0
<1>7. mid \in Span(c.first, c.size)
  BY <1>1, <1>2, <1>4
<1>8. CASE Apart(id, e, i, c)
  <2>1. \A x \in Span(c.first, c.size) : x \notin S
    BY <1>1, <1>4, <1>8 DEF Apart
  <2>2. \A x \in Span(c.first, c.size) : order[x] = indices[x]
    BY <1>5, <1>6, <2>1
  <2> QED BY <1>7, <2>2
<1>9. ~Inside(i, id)
  BY DEF Inside, InsideOf
<1>10. CASE Inside(id, i)
  <2>1. PICK s \in Child : InsideOf(id, i, s)
    BY <1>10 DEF Inside
  <2>2. /\ Half(i, c, s).first <= e.first
        /\ e.first + e.size <= Half(i, c, s).first + Half(i, c, s).size
    BY <2>1 DEF InsideOf, InHalf
  <2>3. \A x \in S : x \in Span(c.first, c.size)
    <3>1. HalfBounds(i, c, s)
      BY CallBounds
    <3> QED BY <1>1, <1>4, <2>2, <3>1 DEF HalfBounds
  <2>4. (\A x \in S : x < mid) \/ (\A x \in S : x > mid)
    <3>1. CASE s = 0
      <4>1. e.first + e.size <= mid
        BY <1>1, <2>2, <3>1 DEF HalvesMeet
      <4> QED BY <1>1, <1>2, <1>4, <4>1
    <3>2. CASE s = 1
      <4>1. mid < e.first
        BY <1>1, <1>2, <2>2, <3>2 DEF HalvesMeet
      <4> QED BY <1>1, <1>2, <1>4, <4>1
    <3> QED BY <3>1, <3>2 DEF Child
  <2>5. mid \notin S
    BY <1>2, <2>4
  <2>6. order[mid] = indices[mid]
    BY <1>5, <1>6, <1>7, <2>5
  <2>7. ASSUME NEW j \in Span(c.first, c.size), j < mid
        PROVE  \E k \in Span(c.first, c.size) : k < mid /\ order[j] = indices[k]
    <3>1. CASE j \notin S
      BY <1>5, <1>6, <2>7, <3>1
    <3>2. CASE j \in S
      <4>1. PICK k \in S : order[j] = indices[k]
        BY <1>5, <3>2
      <4>2. k < mid
        BY <1>1, <1>2, <1>4, <2>4, <2>7, <3>2, <4>1
      <4> QED BY <2>3, <4>1, <4>2
    <3> QED BY <3>1, <3>2
  <2>8. ASSUME NEW j \in Span(c.first, c.size), j > mid
        PROVE  \E k \in Span(c.first, c.size) : k > mid /\ order[j] = indices[k]
    <3>1. CASE j \notin S
      BY <1>5, <1>6, <2>8, <3>1
    <3>2. CASE j \in S
      <4>1. PICK k \in S : order[j] = indices[k]
        BY <1>5, <3>2
      <4>2. k > mid
        BY <1>1, <1>2, <1>4, <2>4, <2>8, <3>2, <4>1
      <4> QED BY <2>3, <4>1, <4>2
    <3> QED BY <3>1, <3>2
  <2> QED BY <2>6, <2>7, <2>8
<1> QED BY <1>8, <1>9, <1>10 DEF Nested

LEMMA ReturnedBefore ==
  ASSUME \A j \in DOMAIN calls : Kept(j), NEW i, NEW s,
         calls'[i].todo = calls[i].todo, Returned(i, s)'
  PROVE  Returned(i, s)
BY DEF Returned, Kept, SamePart

LEMMA SplitApart ==
  ASSUME ApartInv, NEW id \in DOMAIN calls, Split(id)
  PROVE  ApartInv'
<1>1. /\ DOMAIN calls' = DOMAIN calls
      /\ calls'[id].split = TRUE
      /\ \A i \in DOMAIN calls : i # id => calls'[i] = calls[i]
      /\ \A i \in DOMAIN calls : Kept(i) /\ calls'[i] \in Call
  BY SplitKeeps DEF ApartInv
<1>2. points' = points /\ Count' = Count
  BY DEF Split, Count
<1>3. Sized'
  <2>1. PICK order : SplitTo(id, order) /\ nodes' \in [Range0(Count) -> Node]
    BY SplitWrites DEF ApartInv
  <2>2. calls[id].first \in Nat /\ calls[id].size \in Nat /\ calls[id].first + calls[id].size <= Count
    BY CallBounds DEF ApartInv, Sized, Fits
  <2>3. indices' \in Surjection(Range0(Count), Range0(Count))
    BY <2>1, <2>2, RearrangedOf DEF ApartInv, SplitTo
  <2>4. \A i \in DOMAIN calls' : calls'[i] \in Call /\ Fits(i, calls'[i], Count)
    BY <1>1 DEF ApartInv, Sized, Fits, Kept, SamePart
  <2> QED BY <1>1, <1>2, <2>1, <2>3, <2>4 DEF ApartInv, Sized
<1>4. Callers'
  <2>1. \A i \in DOMAIN calls : calls'[i].split = FALSE => calls'[i].todo = Child
    BY <1>1 DEF ApartInv, Callers, Caller
  <2>2. \A i \in DOMAIN calls : Caller(i)'
    BY <1>1, <1>2, <2>1, CallerKept DEF ApartInv, Callers
  <2>3. ~Built'
    BY <1>1 DEF ApartInv, Callers, Built
  <2> QED BY <1>1, <2>2, <2>3 DEF Callers
<1>5. Nested'
  <2>1. \A i, j \in DOMAIN calls : i # j => Placed(i, j)'
    BY <1>1, PlacedKept DEF ApartInv, Nested, Placed
  <2> QED BY <1>1, <2>1 DEF Nested, Placed
<1> QED BY <1>3, <1>4, <1>5 DEF ApartInv

LEMMA SplitProgress ==
  ASSUME IInv, NEW id \in DOMAIN calls, Split(id)
  PROVE  Progress'
<1> USE DEF IInv, ApartInv
<1>1. /\ DOMAIN calls' = DOMAIN calls
      /\ calls[id].split = FALSE /\ calls'[id].todo = calls[id].todo
      /\ \A i \in DOMAIN calls : i # id => calls'[i] = calls[i]
      /\ \A i \in DOMAIN calls : Kept(i)
  BY SplitKeeps
<1>2. PICK order : SplitTo(id, order)
  BY SplitWrites
<1>3. points' = points /\ indices' = order /\ order \in Rearranged(calls[id].first, calls[id].size)
  BY <1>2 DEF Split, SplitTo
<1>4. ~Built'
  BY <1>1 DEF Callers, Built
<1>5. SplitOff(id)'
  <2>1. Pivot(points, nodes', order, id, calls'[id])
    BY <1>1, <1>2 DEF SplitTo, Pivot, Kept, SamePart
  <2>2. \A s \in Child : ~Returned(id, s)'
    BY <1>1 DEF Callers, Caller, Returned
  <2> QED BY <1>3, <2>1, <2>2 DEF SplitOff
<1>6. ASSUME NEW i \in DOMAIN calls, i # id PROVE SplitOff(i)'
  <2>1. calls'[i] = calls[i] /\ SamePart(calls[i], calls[i])
    BY <1>1, <1>6 DEF SamePart
  <2> SUFFICES ASSUME calls[i].split = TRUE
               PROVE  /\ Pivot(points, nodes', order, i, calls[i])
                      /\ \A s \in Child : Returned(i, s)' =>
                           HalfGrown(points, nodes', order, i, calls[i], s)
    BY <1>3, <2>1 DEF SplitOff
  <2>2. /\ Pivot(points, nodes, indices, i, calls[i])
        /\ \A s \in Child : Returned(i, s) => HalfGrown(points, nodes, indices, i, calls[i], s)
    BY DEF Progress, SplitOff
  <2>3. i \in DOMAIN nodes /\ DOMAIN nodes' = DOMAIN nodes
        /\ \A m \in DOMAIN nodes : m # id => nodes'[m] = nodes[m]
    BY <1>2 DEF SplitTo, Sized
  <2>4. Pivot(points, nodes', order, i, calls[i])
    <3> DEFINE c == calls[i]
               mid == c.first + Mid(c.size)
    <3>1. /\ order[mid] = indices[mid]
          /\ \A j \in Span(c.first, c.size) : j < mid =>
               \E k \in Span(c.first, c.size) : k < mid /\ order[j] = indices[k]
          /\ \A j \in Span(c.first, c.size) : j > mid =>
               \E k \in Span(c.first, c.size) : k > mid /\ order[j] = indices[k]
      BY <1>1, <1>3, <1>6, PivotBesideSplit
    <3>2. nodes'[i].index = nodes[i].index /\ nodes'[i].axis = nodes[i].axis
      BY <1>6, <2>3
    <3>3. Pivot(points, nodes, indices, i, c) /\ SamePart(c, c)
      BY <2>1, <2>2
    <3> HIDE DEF c
    <3>4. Pivot(points, nodes', order, i, c)
      BY <3>1, <3>2, <3>3, PivotKept, Zenon
    <3> QED BY <3>4 DEF c
  <2>5. ASSUME NEW s \in Child, Returned(i, s)'
        PROVE  HalfGrown(points, nodes', order, i, calls[i], s)
    <3> DEFINE h == Half(i, calls[i], s)
               k == HalfId(i, calls[i], s)
    <3>1. Returned(i, s)
      BY <1>1, <2>1, <2>5, ReturnedBefore
    <3>2. /\ i \in Nat /\ calls[i] \in Call /\ calls[i].size \in Nat /\ calls[i].first \in Nat
          /\ id \in Nat /\ calls[id].first \in Nat /\ calls[id].size \in Nat
          /\ k \in Nat /\ h.first \in Nat /\ h.size \in Nat
          /\ h.first + h.size <= calls[i].first + calls[i].size
          /\ k + h.size <= i + calls[i].size /\ i < k
      BY CallBounds DEF HalfBounds
    <3>3. /\ \A x : x \in Span(k, h.size) <=> x \in Nat /\ k <= x /\ x < k + h.size
          /\ \A x : x \in Span(h.first, h.size) <=> x \in Nat /\ h.first <= x /\ x < h.first + h.size
          /\ \A x : x \in Span(i, calls[i].size) <=> x \in Nat /\ i <= x /\ x < i + calls[i].size
          /\ \A x : x \in Span(calls[id].first, calls[id].size)
               <=> x \in Nat /\ calls[id].first <= x /\ x < calls[id].first + calls[id].size
      BY <3>2, SpanElement
    <3>4. Count \in Nat /\ DOMAIN nodes = Range0(Count)
          /\ calls[i].first + calls[i].size <= Count /\ i + calls[i].size <= Count
          /\ calls[id].first + calls[id].size <= Count
      BY DEF Sized, Fits
    <3>5. Span(i, calls[i].size) \subseteq DOMAIN nodes
      BY <3>2, <3>3, <3>4 DEF Range0
    <3>6. id \notin Span(k, h.size)
      <4>1. id < k \/ k + h.size <= id
        BY <3>1, NodeOutside
      <4> QED BY <3>2, <3>3, <4>1
    <3>7. \A m \in Span(k, h.size) : nodes'[m] = nodes[m]
      <4>1. Span(k, h.size) \subseteq Span(i, calls[i].size)
        BY <3>2, <3>3
      <4> QED BY <2>3, <3>5, <3>6, <4>1
    <3>8. \A j \in Span(h.first, h.size) : order[j] = indices[j]
      <4>1. calls[id].first + calls[id].size <= h.first \/ h.first + h.size <= calls[id].first
        BY <1>1, <3>1, SpanOutside
      <4>2. \A j \in Span(h.first, h.size) : j \in Range0(Count)
        BY <3>2, <3>3, <3>4 DEF Range0
      <4>3. \A j \in Span(h.first, h.size) : j \notin Span(calls[id].first, calls[id].size)
        BY <3>2, <3>3, <4>1
      <4> QED BY <1>3, <3>2, <3>4, <4>2, <4>3, RearrangedOf
    <3>9. nodes'[i].children[s] = nodes[i].children[s]
      BY <1>6, <2>3
    <3> QED BY <2>1, <2>2, <2>3, <3>1, <3>2, <3>5, <3>7, <3>8, <3>9, HalfGrownKept
  <2> QED BY <2>4, <2>5
<1> QED BY <1>1, <1>4, <1>5, <1>6 DEF Progress
-----------------------------------------------------------------------------
(* A step that writes a child of one call's node disturbs no pivot, and no  *)
(* half that was returned.                                                  *)
Relinked(p) ==
  /\ points' = points /\ indices' = indices
  /\ DOMAIN nodes' = DOMAIN nodes
  /\ \A m \in DOMAIN nodes : m # p => nodes'[m] = nodes[m]
  /\ nodes'[p].index = nodes[p].index /\ nodes'[p].axis = nodes[p].axis

LEMMA RelinkKeeps ==
  ASSUME Sized, Nested, Progress, NEW p \in DOMAIN calls, Relinked(p),
         NEW i \in DOMAIN calls, calls[i].split = TRUE, NEW d, SamePart(calls[i], d)
  PROVE  /\ Pivot(points, nodes', indices, i, d)
         /\ \A s \in Child :
              Returned(i, s) /\ nodes'[i].children[s] = nodes[i].children[s] =>
                HalfGrown(points, nodes', indices, i, d, s)
<1> DEFINE c == calls[i]
<1>1. /\ Pivot(points, nodes, indices, i, c)
      /\ \A s \in Child : Returned(i, s) => HalfGrown(points, nodes, indices, i, c, s)
  BY DEF Progress, SplitOff
<1>2. Count \in Nat /\ DOMAIN nodes = Range0(Count) /\ i \in DOMAIN nodes
      /\ i + c.size <= Count
  BY DEF Sized, Fits
<1>3. Pivot(points, nodes', indices, i, d)
  <2>1. nodes'[i].index = nodes[i].index /\ nodes'[i].axis = nodes[i].axis
    BY <1>2 DEF Relinked
  <2> QED BY <1>1, <2>1 DEF Pivot, SamePart
<1>4. ASSUME NEW s \in Child, Returned(i, s), nodes'[i].children[s] = nodes[i].children[s]
      PROVE  HalfGrown(points, nodes', indices, i, d, s)
  <2> DEFINE h == Half(i, c, s)
             k == HalfId(i, c, s)
  <2>1. /\ i \in Nat /\ c \in Call /\ c.size \in Nat /\ p \in Nat
        /\ k \in Nat /\ h.size \in Nat /\ k + h.size <= i + c.size /\ i < k
    BY CallBounds DEF HalfBounds
  <2>2. /\ \A x : x \in Span(k, h.size) <=> x \in Nat /\ k <= x /\ x < k + h.size
        /\ \A x : x \in Span(i, c.size) <=> x \in Nat /\ i <= x /\ x < i + c.size
    BY <2>1, SpanElement
  <2>3. Span(i, c.size) \subseteq DOMAIN nodes
    BY <1>2, <2>1, <2>2 DEF Range0
  <2>4. p \notin Span(k, h.size)
    <3>1. p < k \/ k + h.size <= p
      BY <1>4, NodeOutside
    <3> QED BY <2>1, <2>2, <3>1
  <2>5. \A m \in Span(k, h.size) : nodes'[m] = nodes[m]
    <3>1. Span(k, h.size) \subseteq Span(i, c.size)
      BY <2>1, <2>2
    <3> QED BY <2>3, <2>4, <3>1 DEF Relinked
  <2>6. \A j \in Span(h.first, h.size) : indices[j] = indices[j]
    OBVIOUS
  <2> QED BY <1>1, <1>4, <2>1, <2>3, <2>5, <2>6, HalfGrownKept DEF Relinked
<1> QED BY <1>3, <1>4

(* The calls that were there, when one of them made a call for a half.      *)
TodoLess(id, s) ==
  /\ id \in DOMAIN calls' /\ calls'[id] = [calls[id] EXCEPT !.todo = @ \ {s}]
  /\ \A i \in DOMAIN calls : i # id => i \in DOMAIN calls' /\ calls'[i] = calls[i]

LEMMA TodoLessKeeps ==
  ASSUME Sized, NEW id \in DOMAIN calls, NEW s \in Child, TodoLess(id, s)
  PROVE  /\ calls'[id].todo = calls[id].todo \ {s} /\ calls'[id].split = calls[id].split
         /\ \A i \in DOMAIN calls : Kept(i) /\ calls'[i] \in Call /\ calls'[i].split = calls[i].split
<1>1. calls[id] \in Call
  BY DEF Sized
<1>2. /\ calls'[id] \in Call /\ SamePart(calls[id], calls'[id])
      /\ calls'[id].split = calls[id].split /\ calls'[id].todo = calls[id].todo \ {s}
  BY <1>1 DEF TodoLess, Call, SamePart
<1>3. ASSUME NEW i \in DOMAIN calls
      PROVE  Kept(i) /\ calls'[i] \in Call /\ calls'[i].split = calls[i].split
  <2>1. CASE i = id
    BY <1>2, <2>1 DEF TodoLess, Kept
  <2>2. CASE i # id
    BY <2>2 DEF TodoLess, Kept, SamePart, Sized
  <2> QED BY <2>1, <2>2
<1> QED BY <1>2, <1>3

LEMMA ReachedSplit ==
  ASSUME Sized, NEW id \in DOMAIN calls, NEW s \in Child, Reached(id, s)
  PROVE  calls[id].split = TRUE /\ s \in calls[id].todo
<1>1. calls[id].split \in BOOLEAN
  BY DEF Sized, Call
<1> QED BY <1>1 DEF Reached

LEMMA CallEmptyWrites ==
  ASSUME Sized, NEW id \in DOMAIN calls, NEW s \in Child, CallEmpty(id, s)
  PROVE  /\ Relinked(id) /\ nodes' \in [Range0(Count) -> Node]
         /\ nodes'[id].children[s] = Null
         /\ \A t \in Child : t # s => nodes'[id].children[t] = nodes[id].children[t]
         /\ TodoLess(id, s) /\ DOMAIN calls' = DOMAIN calls
<1>1. /\ nodes' = [nodes EXCEPT ![id].children[s] = Null]
      /\ calls' = [calls EXCEPT ![id].todo = @ \ {s}]
      /\ points' = points /\ indices' = indices
  BY DEF CallEmpty
<1>2. id \in Range0(Count) /\ nodes \in [Range0(Count) -> Node]
  BY DEF Sized
<1>3. nodes[id] \in Node
  BY <1>2
<1>4. /\ DOMAIN nodes' = DOMAIN nodes
      /\ \A m \in DOMAIN nodes : m # id => nodes'[m] = nodes[m]
      /\ nodes'[id] = [nodes[id] EXCEPT !.children[s] = Null]
  BY <1>1, <1>2
<1>5. /\ nodes'[id].index = nodes[id].index /\ nodes'[id].axis = nodes[id].axis
      /\ nodes'[id].children = [nodes[id].children EXCEPT ![s] = Null]
  BY <1>3, <1>4 DEF Node
<1>6. nodes[id].children \in [Child -> Nat \cup {Null}]
  BY <1>3 DEF Node
<1>7. /\ nodes'[id].children[s] = Null
      /\ \A t \in Child : t # s => nodes'[id].children[t] = nodes[id].children[t]
      /\ nodes'[id].children \in [Child -> Nat \cup {Null}]
  BY <1>5, <1>6
<1>8. nodes'[id] \in Node
  <2>1. nodes'[id] = [index |-> nodes[id].index, axis |-> nodes[id].axis,
                      children |-> nodes'[id].children]
    BY <1>3, <1>4, <1>5 DEF Node
  <2> QED BY <1>3, <1>7, <2>1 DEF Node
<1>9. nodes' \in [Range0(Count) -> Node]
  <2>1. \A m \in Range0(Count) : nodes'[m] \in Node
    BY <1>2, <1>4, <1>8
  <2>2. nodes' = [m \in Range0(Count) |-> nodes'[m]]
    BY <1>1, <1>2
  <2> QED BY <2>1, <2>2
<1>10. TodoLess(id, s) /\ DOMAIN calls' = DOMAIN calls
  BY <1>1 DEF TodoLess
<1> QED BY <1>1, <1>4, <1>5, <1>7, <1>9, <1>10 DEF Relinked

LEMMA CallEmptyApart ==
  ASSUME ApartInv, NEW id \in DOMAIN calls, NEW s \in Child, CallEmpty(id, s)
  PROVE  ApartInv'
<1>1. /\ DOMAIN calls' = DOMAIN calls
      /\ calls[id].split = TRUE
      /\ \A i \in DOMAIN calls : i # id => calls'[i] = calls[i]
      /\ \A i \in DOMAIN calls : Kept(i) /\ calls'[i] \in Call /\ calls'[i].split = calls[i].split
  BY CallEmptyWrites, TodoLessKeeps, ReachedSplit DEF ApartInv, CallEmpty, TodoLess
<1>2. points' = points /\ indices' = indices /\ Count' = Count
      /\ nodes' \in [Range0(Count) -> Node]
  BY CallEmptyWrites DEF ApartInv, Relinked, Count
<1>3. Sized'
  <2>1. \A i \in DOMAIN calls' : calls'[i] \in Call /\ Fits(i, calls'[i], Count)
    BY <1>1 DEF ApartInv, Sized, Fits, Kept, SamePart
  <2> QED BY <1>1, <1>2, <2>1 DEF ApartInv, Sized
<1>4. Callers'
  <2>1. \A i \in DOMAIN calls : calls'[i].split = FALSE => calls'[i].todo = Child
    BY <1>1 DEF ApartInv, Callers, Caller
  <2>2. \A i \in DOMAIN calls : Caller(i)'
    BY <1>1, <1>2, <2>1, CallerKept DEF ApartInv, Callers
  <2>3. ~Built'
    BY <1>1 DEF ApartInv, Callers, Built
  <2> QED BY <1>1, <2>2, <2>3 DEF Callers
<1>5. Nested'
  <2>1. \A i, j \in DOMAIN calls : i # j => Placed(i, j)'
    BY <1>1, PlacedKept DEF ApartInv, Nested, Placed
  <2> QED BY <1>1, <2>1 DEF Nested, Placed
<1> QED BY <1>3, <1>4, <1>5 DEF ApartInv

LEMMA CallEmptyProgress ==
  ASSUME IInv, NEW id \in DOMAIN calls, NEW s \in Child, CallEmpty(id, s)
  PROVE  Progress'
<1> USE DEF IInv, ApartInv
<1>1. /\ DOMAIN calls' = DOMAIN calls
      /\ \A i \in DOMAIN calls : i # id => calls'[i] = calls[i]
      /\ \A i \in DOMAIN calls : Kept(i) /\ calls'[i].split = calls[i].split
      /\ calls'[id].todo = calls[id].todo \ {s}
      /\ calls[id].split = TRUE
  BY CallEmptyWrites, TodoLessKeeps, ReachedSplit DEF CallEmpty, TodoLess
<1>2. /\ Relinked(id) /\ nodes'[id].children[s] = Null
      /\ \A t \in Child : t # s => nodes'[id].children[t] = nodes[id].children[t]
      /\ points' = points /\ indices' = indices
  BY CallEmptyWrites DEF Relinked
<1>3. ~Built'
  BY <1>1 DEF Callers, Built
<1>4. SplitOff(id)'
  <2>1. SamePart(calls[id], calls'[id])
    BY <1>1 DEF Kept
  <2>2. /\ Pivot(points, nodes', indices, id, calls'[id])
        /\ \A t \in Child :
             Returned(id, t) /\ nodes'[id].children[t] = nodes[id].children[t] =>
               HalfGrown(points, nodes', indices, id, calls'[id], t)
    BY <1>1, <1>2, <2>1, RelinkKeeps
  <2>3. ASSUME NEW t \in Child, Returned(id, t)'
        PROVE  HalfGrown(points, nodes', indices, id, calls'[id], t)
    <3>1. CASE t = s
      <4>1. Half(id, calls[id], s).size = 0
        BY DEF CallEmpty
      <4>2. HalfBounds(id, calls[id], s)
        BY CallBounds
      <4>3. Half(id, calls'[id], s) = Half(id, calls[id], s)
            /\ HalfId(id, calls'[id], s) = HalfId(id, calls[id], s)
        BY <2>1, SameHalves
      <4>4. Grown(points, nodes', indices, HalfId(id, calls[id], s), Half(id, calls[id], s).first, 0)
        BY <4>2, NothingGrown DEF HalfBounds
      <4> QED BY <1>2, <3>1, <4>1, <4>3, <4>4 DEF HalfGrown
    <3>2. CASE t # s
      <4>1. t \notin calls[id].todo
        BY <1>1, <2>3, <3>2 DEF Returned
      <4>2. Returned(id, t)
        BY <1>1, <2>3, <4>1 DEF Returned, Kept, SamePart
      <4> QED BY <1>2, <2>2, <3>2, <4>2
    <3> QED BY <3>1, <3>2
  <2> QED BY <1>2, <2>2, <2>3 DEF SplitOff
<1>5. ASSUME NEW i \in DOMAIN calls, i # id PROVE SplitOff(i)'
  <2> SUFFICES ASSUME calls[i].split = TRUE
               PROVE  /\ Pivot(points, nodes', indices, i, calls'[i])
                      /\ \A t \in Child : Returned(i, t)' =>
                           HalfGrown(points, nodes', indices, i, calls'[i], t)
    BY <1>1, <1>2 DEF SplitOff
  <2>1. SamePart(calls[i], calls'[i]) /\ calls'[i].todo = calls[i].todo
    BY <1>1, <1>5 DEF Kept
  <2>2. /\ Pivot(points, nodes', indices, i, calls'[i])
        /\ \A t \in Child :
             Returned(i, t) /\ nodes'[i].children[t] = nodes[i].children[t] =>
               HalfGrown(points, nodes', indices, i, calls'[i], t)
    BY <1>2, <2>1, RelinkKeeps
  <2>3. nodes'[i] = nodes[i]
    BY <1>2, <1>5 DEF Relinked, Sized
  <2>4. \A t \in Child : Returned(i, t)' => Returned(i, t)
    BY <1>1, <2>1, ReturnedBefore
  <2> QED BY <2>2, <2>3, <2>4
<1> QED BY <1>1, <1>3, <1>4, <1>5 DEF Progress
-----------------------------------------------------------------------------
(* No call makes the node of a half that was not called.                    *)
LEMMA HalfIdFresh ==
  ASSUME Sized, Nested, NEW id \in DOMAIN calls, NEW s \in Child,
         s \in calls[id].todo, Half(id, calls[id], s).size > 0
  PROVE  HalfId(id, calls[id], s) \notin DOMAIN calls
<1> DEFINE c == calls[id]
           k == HalfId(id, c, s)
           z == Half(id, c, s).size
           d == calls[k]
<1> SUFFICES ASSUME k \in DOMAIN calls PROVE FALSE
  OBVIOUS
<1>1. /\ id \in Nat /\ c \in Call /\ c.size \in Nat
      /\ k \in Nat /\ z \in Nat /\ id < k /\ k + z <= id + c.size
      /\ d.size \in Nat \ {0}
  BY CallBounds DEF HalfBounds
<1>2. ~Apart(k, d, id, c)
  BY <1>1 DEF Apart
<1>3. ASSUME Inside(k, id) PROVE FALSE
  <2>1. PICK t \in Child : InsideOf(k, id, t)
    BY <1>3 DEF Inside
  <2>2. t # s
    BY <2>1 DEF InsideOf
  <2>3. /\ HalfId(id, c, t) <= k
        /\ k + d.size <= HalfId(id, c, t) + Half(id, c, t).size
    BY <2>1 DEF InsideOf, InHalf
  <2>4. HalfBounds(id, c, t)
    BY CallBounds
  <2>5. \/ HalfId(id, c, s) + Half(id, c, s).size <= HalfId(id, c, t)
        \/ HalfId(id, c, t) + Half(id, c, t).size <= HalfId(id, c, s)
    BY <1>1, <2>2, HalvesDiffer
  <2> QED BY <1>1, <2>3, <2>4, <2>5 DEF HalfBounds
<1>4. ASSUME Inside(id, k) PROVE FALSE
  <2>1. PICK t \in Child : InsideOf(id, k, t)
    BY <1>4 DEF Inside
  <2>2. HalfId(k, d, t) \in Nat /\ k < HalfId(k, d, t)
    BY CallBounds DEF HalfBounds
  <2> QED BY <1>1, <2>1, <2>2 DEF InsideOf, InHalf
<1> QED BY <1>1, <1>2, <1>3, <1>4 DEF Nested

LEMMA CallHalfKeeps ==
  ASSUME Sized, Nested, NEW id \in DOMAIN calls, NEW s \in Child, CallHalf(id, s)
  PROVE  LET k == HalfId(id, calls[id], s) IN
         /\ k \notin DOMAIN calls /\ DOMAIN calls' = DOMAIN calls \cup {k}
         /\ calls'[k] = Half(id, calls[id], s) /\ Half(id, calls[id], s).size > 0
         /\ calls[id].split = TRUE /\ TodoLess(id, s)
<1> DEFINE k == HalfId(id, calls[id], s)
<1>1. /\ Half(id, calls[id], s).size > 0
      /\ calls' = [i \in DOMAIN calls \cup {k} |->
           IF i = k THEN Half(id, calls[id], s)
           ELSE IF i = id THEN [calls[id] EXCEPT !.todo = @ \ {s}] ELSE calls[i]]
      /\ calls[id].split = TRUE /\ s \in calls[id].todo
  BY ReachedSplit DEF CallHalf
<1>2. k \notin DOMAIN calls
  BY <1>1, HalfIdFresh
<1>3. DOMAIN calls' = DOMAIN calls \cup {k} /\ calls'[k] = Half(id, calls[id], s)
  BY <1>1
<1>4. TodoLess(id, s)
  BY <1>1, <1>2 DEF TodoLess
<1> QED BY <1>1, <1>2, <1>3, <1>4

(* A new call lies to the others as its caller does, and in its caller's    *)
(* half.                                                                    *)
LEMMA HalfPlaced ==
  ASSUME Sized, Nested, NEW id \in DOMAIN calls, NEW s \in Child, CallHalf(id, s),
         NEW j \in DOMAIN calls, NEW k, k = HalfId(id, calls[id], s)
  PROVE  Placed(k, j)' /\ Placed(j, k)'
<1> DEFINE c == calls[id]
           h == Half(id, c, s)
           d == calls[j]
<1>1. /\ k \notin DOMAIN calls /\ DOMAIN calls' = DOMAIN calls \cup {k}
      /\ calls'[k] = h /\ h.size > 0 /\ c.split = TRUE /\ TodoLess(id, s)
  BY CallHalfKeeps
<1>2. /\ id \in Nat /\ c \in Call /\ c.first \in Nat /\ c.size \in Nat
      /\ j \in Nat /\ d.first \in Nat /\ d.size \in Nat
      /\ HalfBounds(id, c, s)
  BY CallBounds
<1>3. /\ \A i \in DOMAIN calls : Kept(i)
      /\ calls'[id].split = TRUE /\ calls'[id].todo = c.todo \ {s}
  BY <1>1, TodoLessKeeps
<1>4. /\ calls'[j].first = d.first /\ calls'[j].size = d.size
      /\ \A t : Half(j, calls'[j], t) = Half(j, d, t) /\ HalfId(j, calls'[j], t) = HalfId(j, d, t)
  BY <1>3, SameHalves DEF Kept, SamePart
<1>5. Apart(k, h, j, d) => Placed(k, j)' /\ Placed(j, k)'
  <2> SUFFICES ASSUME Apart(k, h, j, d) PROVE Placed(k, j)' /\ Placed(j, k)'
    OBVIOUS
  <2>1. Apart(k, calls'[k], j, calls'[j]) /\ Apart(j, calls'[j], k, calls'[k])
    BY <1>1, <1>4 DEF Apart
  <2> QED BY <2>1 DEF Placed
<1>6. CASE j = id
  <2>1. h.parent = id /\ h.side = s
    <3>1. id \in Nat /\ calls[id] \in Call /\ Half(id, calls[id], s).size > 0
      BY <1>1, <1>2
    <3> QED BY <3>1, HalfIsCall, Zenon
  <2>2. Open(id, s)'
    BY <1>1, <2>1 DEF Open
  <2>3. InHalf(k, h, id, c, s)
    BY <1>2 DEF InHalf, HalfBounds
  <2>4. InHalf(k, calls'[k], id, calls'[id], s)
    BY <1>1, <1>4, <1>6, <2>3 DEF InHalf
  <2>5. InsideOf(k, id, s)'
    BY <1>3, <2>2, <2>4 DEF InsideOf
  <2> QED BY <1>6, <2>5 DEF Placed, Inside
<1>7. CASE Apart(id, c, j, d)
  <2>1. Apart(k, h, j, d)
    <3>1. k + h.size <= j \/ j + d.size <= k
      BY <1>2, <1>7 DEF Apart, HalfBounds
    <3>2. h.first + h.size <= d.first \/ d.first + d.size <= h.first
      BY <1>2, <1>7 DEF Apart, HalfBounds
    <3> QED BY <3>1, <3>2 DEF Apart
  <2> QED BY <1>5, <2>1
<1>8. CASE j # id /\ Inside(id, j)
  <2>1. PICK t \in Child : InsideOf(id, j, t)
    BY <1>8 DEF Inside
  <2>2. HalfBounds(j, d, t)
    BY CallBounds
  <2>3. InHalf(id, c, j, d, t)
    BY <2>1 DEF InsideOf
  <2>4. InHalf(k, h, j, d, t)
    BY <1>2, <2>2, <2>3 DEF InHalf, HalfBounds
  <2>5. InHalf(k, calls'[k], j, calls'[j], t)
    BY <1>1, <1>4, <2>4 DEF InHalf
  <2>6. Open(j, t)'
    BY <1>3, <2>1, OpenKept DEF InsideOf
  <2>7. calls'[j].split = TRUE /\ t \notin calls'[j].todo
    BY <1>3, <2>1 DEF InsideOf, Kept
  <2>8. InsideOf(k, j, t)'
    BY <2>5, <2>6, <2>7 DEF InsideOf
  <2> QED BY <2>8 DEF Placed, Inside
<1>9. CASE j # id /\ Inside(j, id)
  <2>1. PICK t \in Child : InsideOf(j, id, t)
    BY <1>9 DEF Inside
  <2>2. t # s
    BY <2>1, ReachedSplit DEF InsideOf, CallHalf
  <2>3. HalfBounds(id, c, t) /\ InHalf(j, d, id, c, t)
    BY <2>1, CallBounds DEF InsideOf
  <2>4. /\ \/ HalfId(id, c, s) + Half(id, c, s).size <= HalfId(id, c, t)
           \/ HalfId(id, c, t) + Half(id, c, t).size <= HalfId(id, c, s)
        /\ \/ Half(id, c, s).first + Half(id, c, s).size <= Half(id, c, t).first
           \/ Half(id, c, t).first + Half(id, c, t).size <= Half(id, c, s).first
    BY <1>2, <2>2, HalvesDiffer
  <2>5. k + h.size <= j \/ j + d.size <= k
    BY <1>2, <2>3, <2>4 DEF HalfBounds, InHalf
  <2>6. h.first + h.size <= d.first \/ d.first + d.size <= h.first
    BY <1>2, <2>3, <2>4 DEF HalfBounds, InHalf
  <2> QED BY <1>5, <2>5, <2>6 DEF Apart
<1> QED BY <1>6, <1>7, <1>8, <1>9 DEF Nested

LEMMA CallHalfApart ==
  ASSUME ApartInv, NEW id \in DOMAIN calls, NEW s \in Child, CallHalf(id, s)
  PROVE  ApartInv'
<1> USE DEF ApartInv
<1> DEFINE c == calls[id]
           h == Half(id, c, s)
<1>0. PICK k : k = HalfId(id, c, s)
  OBVIOUS
<1>1. /\ k \notin DOMAIN calls /\ DOMAIN calls' = DOMAIN calls \cup {k}
      /\ calls'[k] = h /\ h.size > 0 /\ c.split = TRUE /\ TodoLess(id, s)
  BY <1>0, CallHalfKeeps
<1>2. /\ \A i \in DOMAIN calls : Kept(i) /\ calls'[i] \in Call /\ calls'[i].split = calls[i].split
      /\ calls'[id].todo = calls[id].todo \ {s}
      /\ \A i \in DOMAIN calls : i # id => calls'[i] = calls[i]
  BY <1>1, TodoLessKeeps DEF TodoLess
<1>3. /\ points' = points /\ indices' = indices /\ nodes' = nodes /\ Count' = Count
  BY DEF CallHalf, Count
<1>4. /\ id \in Nat /\ c \in Call /\ c.first \in Nat /\ c.size \in Nat /\ HalfBounds(id, c, s)
  BY CallBounds
<1>5. h \in Call /\ h.parent = id /\ h.side = s /\ h.split = FALSE /\ h.todo = Child
  <2>1. id \in Nat /\ calls[id] \in Call /\ Half(id, calls[id], s).size > 0
    BY <1>1, <1>4
  <2> QED BY <2>1, HalfIsCall, Zenon
<1>6. Sized'
  <2>1. k \in Range0(Count) /\ Fits(k, h, Count)
    <3>1. id + c.size <= Count /\ c.first + c.size <= Count /\ Count \in Nat
      BY DEF Sized, Fits
    <3> QED BY <1>0, <1>1, <1>4, <3>1 DEF HalfBounds, Fits, Range0
  <2>2. \A i \in DOMAIN calls : calls'[i] \in Call /\ Fits(i, calls'[i], Count)
    BY <1>2 DEF Sized, Fits, Kept, SamePart
  <2>3. \A i \in DOMAIN calls' : calls'[i] \in Call /\ Fits(i, calls'[i], Count)
    BY <1>1, <1>5, <2>1, <2>2
  <2>4. DOMAIN calls' \subseteq Range0(Count)
    BY <1>1, <2>1 DEF Sized
  <2> QED BY <1>3, <2>3, <2>4 DEF Sized
<1>7. Callers'
  <2>1. \A i \in DOMAIN calls : calls'[i].split = FALSE => calls'[i].todo = Child
    BY <1>1, <1>2 DEF Callers, Caller
  <2>2. \A i \in DOMAIN calls : Caller(i)'
    BY <1>2, <1>3, <2>1, CallerKept DEF Callers
  <2>3. Caller(k)'
    <3>1. k # 0
      BY <1>0, <1>4 DEF HalfBounds
    <3>2. Half(id, calls'[id], s) = h /\ HalfId(id, calls'[id], s) = k
      BY <1>0, <1>2, SameHalves DEF Kept
    <3>3. MadeBy(k, h, id, calls'[id])
      BY <1>1, <1>2, <1>5, <3>2 DEF MadeBy
    <3> QED BY <1>1, <1>5, <3>1, <3>3 DEF Caller
  <2>4. ~Built'
    BY <1>1 DEF Callers, Built
  <2> QED BY <1>1, <2>2, <2>3, <2>4 DEF Callers
<1>8. Nested'
  <2>1. \A i, j \in DOMAIN calls : i # j => Placed(i, j)'
    BY <1>2, PlacedKept DEF Nested, Placed
  <2>2. \A j \in DOMAIN calls : Placed(k, j)' /\ Placed(j, k)'
    BY <1>0, HalfPlaced
  <2>3. \A i, j \in DOMAIN calls' : i # j => Placed(i, j)'
    BY <1>1, <2>1, <2>2
  <2> QED BY <2>3 DEF Nested, Placed
<1> QED BY <1>6, <1>7, <1>8

LEMMA CallHalfProgress ==
  ASSUME IInv, NEW id \in DOMAIN calls, NEW s \in Child, CallHalf(id, s)
  PROVE  Progress'
<1> USE DEF IInv, ApartInv
<1> DEFINE c == calls[id]
           h == Half(id, c, s)
<1>0. PICK k : k = HalfId(id, c, s)
  OBVIOUS
<1>1. /\ k \notin DOMAIN calls /\ DOMAIN calls' = DOMAIN calls \cup {k}
      /\ calls'[k] = h /\ h.size > 0 /\ c.split = TRUE /\ TodoLess(id, s)
  BY <1>0, CallHalfKeeps
<1>2. /\ \A i \in DOMAIN calls : Kept(i) /\ calls'[i].split = calls[i].split
      /\ calls'[id].todo = calls[id].todo \ {s}
      /\ \A i \in DOMAIN calls : i # id => calls'[i] = calls[i]
  BY <1>1, TodoLessKeeps DEF TodoLess
<1>3. points' = points /\ indices' = indices /\ nodes' = nodes /\ Relinked(id)
  BY DEF CallHalf, Relinked
<1>4. h.parent = id /\ h.side = s /\ h.split = FALSE
  <2>1. id \in Nat /\ calls[id] \in Call /\ Half(id, calls[id], s).size > 0
    BY <1>1, CallBounds
  <2> QED BY <2>1, HalfIsCall, Zenon
<1>5. ~Built'
  BY <1>1 DEF Callers, Built
<1>6. SplitOff(k)'
  BY <1>1, <1>4 DEF SplitOff
<1>7. ASSUME NEW i \in DOMAIN calls PROVE SplitOff(i)'
  <2> SUFFICES ASSUME calls[i].split = TRUE
               PROVE  /\ Pivot(points, nodes', indices, i, calls'[i])
                      /\ \A t \in Child : Returned(i, t)' =>
                           HalfGrown(points, nodes', indices, i, calls'[i], t)
    BY <1>2, <1>3 DEF SplitOff
  <2>1. SamePart(calls[i], calls'[i])
    BY <1>2 DEF Kept
  <2>2. /\ Pivot(points, nodes', indices, i, calls'[i])
        /\ \A t \in Child :
             Returned(i, t) /\ nodes'[i].children[t] = nodes[i].children[t] =>
               HalfGrown(points, nodes', indices, i, calls'[i], t)
    BY <1>3, <2>1, RelinkKeeps
  <2>3. ASSUME NEW t \in Child, Returned(i, t)' PROVE Returned(i, t)
    <3>1. CASE i # id
      <4>1. calls'[i].todo = calls[i].todo
        BY <1>2, <3>1
      <4> QED BY <1>2, <2>3, <4>1, ReturnedBefore
    <3>2. CASE i = id
      <4>1. t # s
        BY <1>1, <1>4, <2>3, <3>2 DEF Returned
      <4>2. t \notin calls[id].todo
        BY <1>2, <2>3, <3>2, <4>1 DEF Returned
      <4> QED BY <1>2, <2>3, <3>2, <4>2 DEF Returned, Kept, SamePart
    <3> QED BY <3>1, <3>2
  <2> QED BY <1>3, <2>2, <2>3
<1> QED BY <1>1, <1>5, <1>6, <1>7 DEF Progress
-----------------------------------------------------------------------------
(* The caller of a call, and what it made it for.                           *)
LEMMA ReturnKeeps ==
  ASSUME Sized, NEW id \in DOMAIN calls, Return(id)
  PROVE  /\ calls[id].split = TRUE /\ \A s \in Child : Returned(id, s)
         /\ DOMAIN calls' = DOMAIN calls \ {id}
         /\ \A i \in DOMAIN calls : i # id => calls'[i] = calls[i]
         /\ points' = points /\ indices' = indices
<1>1. calls[id].split \in BOOLEAN
  BY DEF Sized, Call
<1>2. calls' = [i \in DOMAIN calls \ {id} |-> calls[i]]
  BY DEF Return
<1> QED BY <1>1, <1>2 DEF Return

LEMMA ReturnWrites ==
  ASSUME Sized, NEW id \in DOMAIN calls, Return(id),
         NEW p \in DOMAIN calls, p = calls[id].parent
  PROVE  /\ Relinked(p) /\ nodes' \in [Range0(Count) -> Node]
         /\ nodes'[p].children[calls[id].side] = id
         /\ \A t \in Child : t # calls[id].side => nodes'[p].children[t] = nodes[p].children[t]
<1> DEFINE s == calls[id].side
<1>1. p \in Range0(Count) /\ id \in Nat /\ p # Null
      /\ s \in Child /\ nodes \in [Range0(Count) -> Node]
  BY DEF Sized, Call, Range0, Null
<1>2. nodes' = [nodes EXCEPT ![p].children[s] = id]
  BY <1>1 DEF Return, Linked
<1>3. nodes[p] \in Node
  BY <1>1
<1>4. /\ DOMAIN nodes' = DOMAIN nodes
      /\ \A m \in DOMAIN nodes : m # p => nodes'[m] = nodes[m]
      /\ nodes'[p] = [nodes[p] EXCEPT !.children[s] = id]
  BY <1>1, <1>2
<1>5. /\ nodes'[p].index = nodes[p].index /\ nodes'[p].axis = nodes[p].axis
      /\ nodes'[p].children = [nodes[p].children EXCEPT ![s] = id]
  BY <1>3, <1>4 DEF Node
<1>6. nodes[p].children \in [Child -> Nat \cup {Null}]
  BY <1>3 DEF Node
<1>7. /\ nodes'[p].children[s] = id
      /\ \A t \in Child : t # s => nodes'[p].children[t] = nodes[p].children[t]
      /\ nodes'[p].children \in [Child -> Nat \cup {Null}]
  BY <1>1, <1>5, <1>6
<1>8. nodes'[p] \in Node
  <2>1. nodes'[p] = [index |-> nodes[p].index, axis |-> nodes[p].axis,
                     children |-> nodes'[p].children]
    BY <1>3, <1>4, <1>5 DEF Node
  <2> QED BY <1>3, <1>7, <2>1 DEF Node
<1>9. nodes' \in [Range0(Count) -> Node]
  <2>1. \A m \in Range0(Count) : nodes'[m] \in Node
    BY <1>1, <1>4, <1>8
  <2>2. nodes' = [m \in Range0(Count) |-> nodes'[m]]
    BY <1>1, <1>2
  <2> QED BY <2>1, <2>2
<1> QED BY <1>4, <1>5, <1>7, <1>9, ReturnKeeps DEF Relinked

(* The first call is the last to return.                                    *)
LEMMA RootAlone ==
  ASSUME Sized, Callers, Nested, 0 \in DOMAIN calls, \A s \in Child : Returned(0, s)
  PROVE  DOMAIN calls = {0}
<1> SUFFICES ASSUME NEW j \in DOMAIN calls, j # 0 PROVE FALSE
  OBVIOUS
<1>1. calls[0].first = 0 /\ calls[0].size = Count
  BY DEF Callers, Caller
<1>2. j \in Nat /\ calls[j].size \in Nat \ {0} /\ Count \in Nat
  BY CallBounds DEF Sized
<1>3. j + calls[j].size <= Count
  BY DEF Sized, Fits
<1>4. ~Apart(0, calls[0], j, calls[j])
  BY <1>1, <1>2, <1>3 DEF Apart
<1>5. ~Inside(j, 0)
  BY DEF Inside, InsideOf, Open, Returned
<1>6. ~Inside(0, j)
  <2> SUFFICES ASSUME NEW s \in Child, InsideOf(0, j, s) PROVE FALSE
    BY DEF Inside
  <2>1. HalfId(j, calls[j], s) \in Nat /\ j < HalfId(j, calls[j], s)
    BY CallBounds DEF HalfBounds
  <2> QED BY <1>2, <2>1 DEF InsideOf, InHalf
<1> QED BY <1>4, <1>5, <1>6 DEF Nested

(* What was in a half that is being built still is when another returns.    *)
LEMMA InsideAfterReturn ==
  ASSUME ApartInv, NEW id \in DOMAIN calls, Return(id),
         NEW i \in DOMAIN calls, NEW j \in DOMAIN calls, i # id, j # id, Inside(i, j)
  PROVE  Inside(i, j)'
<1> USE DEF ApartInv
<1>1. PICK s \in Child : InsideOf(i, j, s)
  BY DEF Inside
<1>2. PICK w \in DOMAIN calls : calls[w].parent = j /\ calls[w].side = s
  BY <1>1 DEF InsideOf, Open
<1>3. CASE w # id
  <2>1. Open(j, s)'
    BY <1>2, <1>3, ReturnKeeps DEF Open
  <2>2. calls'[i] = calls[i] /\ calls'[j] = calls[j]
    BY ReturnKeeps
  <2>3. InsideOf(i, j, s)'
    BY <1>1, <2>1, <2>2 DEF InsideOf
  <2> QED BY <2>3 DEF Inside
<1>4. CASE w = id
  <2> DEFINE c == calls[id]
             d == calls[i]
  <2>1. /\ id \in Nat /\ c.first \in Nat /\ c.size \in Nat \ {0}
        /\ i \in Nat /\ d.first \in Nat /\ d.size \in Nat \ {0} /\ j \in Nat
    BY CallBounds
  <2>2. id # 0
    BY <1>2, <1>4, <2>1 DEF Callers, Caller, Null
  <2>3. /\ id = HalfId(j, calls[j], s)
        /\ c.first = Half(j, calls[j], s).first /\ c.size = Half(j, calls[j], s).size
    BY <1>2, <1>4, <2>2 DEF Callers, Caller, MadeBy
  <2>4. id <= i /\ i + d.size <= id + c.size
    BY <1>1, <2>3 DEF InsideOf, InHalf
  <2>5. ~Apart(i, d, id, c)
    BY <2>1, <2>4 DEF Apart
  <2>6. ~Inside(i, id)
    <3>1. \A t \in Child : Returned(id, t)
      BY ReturnKeeps
    <3> QED BY <3>1 DEF Inside, InsideOf, Open, Returned
  <2>7. ~Inside(id, i)
    <3> SUFFICES ASSUME NEW t \in Child, InsideOf(id, i, t) PROVE FALSE
      BY DEF Inside
    <3>1. HalfId(i, d, t) \in Nat /\ i < HalfId(i, d, t)
      BY CallBounds DEF HalfBounds
    <3> QED BY <2>1, <2>4, <3>1 DEF InsideOf, InHalf
  <2> QED BY <2>5, <2>6, <2>7 DEF Nested
<1> QED BY <1>3, <1>4

(* A call other than the first returns to one that goes on.                 *)
LEMMA CallerGoesOn ==
  ASSUME ApartInv, NEW id \in DOMAIN calls, Return(id), NEW i \in DOMAIN calls, i # 0
  PROVE  calls[i].parent \in DOMAIN calls /\ calls[i].parent # id
<1>1. calls[i].parent \in DOMAIN calls /\ calls[i].side \in Child
  BY DEF ApartInv, Callers, Caller, Sized, Call
<1>2. calls[i].parent # id
  BY <1>1, ReturnKeeps DEF ApartInv, Returned
<1> QED BY <1>1, <1>2

LEMMA ReturnApart ==
  ASSUME ApartInv, NEW id \in DOMAIN calls, Return(id)
  PROVE  ApartInv'
<1> USE DEF ApartInv
<1>1. /\ DOMAIN calls' = DOMAIN calls \ {id}
      /\ \A i \in DOMAIN calls : i # id => calls'[i] = calls[i]
      /\ points' = points /\ indices' = indices /\ Count' = Count
      /\ \A s \in Child : Returned(id, s)
  BY ReturnKeeps DEF Count
<1>2. Sized'
  <2>1. nodes' \in [Range0(Count) -> Node]
    <3>1. CASE id = 0
      <4>1. calls[id].parent = Null
        BY <3>1 DEF Callers, Caller
      <4> QED BY <4>1 DEF Return, Linked, Sized
    <3>2. CASE id # 0
      BY <3>2, CallerGoesOn, ReturnWrites
    <3> QED BY <3>1, <3>2
  <2>2. \A i \in DOMAIN calls' : calls'[i] \in Call /\ Fits(i, calls'[i], Count)
    BY <1>1 DEF Sized
  <2> QED BY <1>1, <2>1, <2>2 DEF Sized
<1>3. Callers'
  <2>1. ASSUME NEW i \in DOMAIN calls, i # id PROVE Caller(i)'
    <3>1. calls'[i] = calls[i] /\ Caller(i)
      BY <1>1, <2>1 DEF Callers
    <3>2. CASE i = 0
      BY <1>1, <3>1, <3>2 DEF Caller
    <3>3. CASE i # 0
      <4>1. calls[i].parent \in DOMAIN calls /\ calls[i].parent # id
        BY <3>3, CallerGoesOn
      <4>2. calls'[calls[i].parent] = calls[calls[i].parent]
        BY <1>1, <4>1
      <4> QED BY <1>1, <3>1, <3>3, <4>1, <4>2 DEF Caller
    <3> QED BY <3>2, <3>3
  <2>2. Built' => DOMAIN calls' = {}
    <3>1. CASE id = 0
      BY <1>1, <3>1, RootAlone
    <3>2. CASE id # 0
      BY <1>1, <3>2 DEF Callers, Built
    <3> QED BY <3>1, <3>2
  <2> QED BY <1>1, <2>1, <2>2 DEF Callers
<1>4. Nested'
  <2>1. ASSUME NEW i \in DOMAIN calls, NEW j \in DOMAIN calls, i # id, j # id, i # j
        PROVE  Placed(i, j)'
    <3>1. CASE Apart(i, calls[i], j, calls[j])
      BY <1>1, <2>1, <3>1 DEF Placed
    <3>2. CASE Inside(i, j)
      BY <2>1, <3>2, InsideAfterReturn DEF Placed
    <3>3. CASE Inside(j, i)
      BY <2>1, <3>3, InsideAfterReturn DEF Placed
    <3> QED BY <2>1, <3>1, <3>2, <3>3 DEF Nested
  <2> QED BY <1>1, <2>1 DEF Nested, Placed
<1> QED BY <1>2, <1>3, <1>4

LEMMA ReturnProgress ==
  ASSUME IInv, NEW id \in DOMAIN calls, Return(id)
  PROVE  Progress'
<1> USE DEF IInv, ApartInv
<1> DEFINE c == calls[id]
<1>1. /\ DOMAIN calls' = DOMAIN calls \ {id}
      /\ \A i \in DOMAIN calls : i # id => calls'[i] = calls[i]
      /\ points' = points /\ indices' = indices
      /\ c.split = TRUE /\ \A s \in Child : Returned(id, s)
  BY ReturnKeeps
<1>2. /\ id \in Nat /\ c \in Call /\ c.first \in Nat /\ c.size \in Nat \ {0}
  BY CallBounds
<1>3. Grown(points, nodes, indices, id, c.first, c.size)
  BY <1>1, <1>2, GrownTogether DEF Progress, SplitOff
<1>4. CASE id = 0
  <2>1. c.parent = Null /\ c.first = 0 /\ c.size = Count
    BY <1>4 DEF Callers, Caller
  <2>2. nodes' = nodes /\ Count' = Count
    BY <1>1, <2>1 DEF Return, Linked, Count
  <2>3. DOMAIN calls' = {}
    BY <1>1, <1>4, RootAlone
  <2> QED BY <1>1, <1>3, <1>4, <2>1, <2>2, <2>3 DEF Progress
<1>5. CASE id # 0
  <2>1. PICK p : p = c.parent
    OBVIOUS
  <2> DEFINE side == c.side
  <2>2. p \in DOMAIN calls /\ p # id /\ MadeBy(id, c, p, calls[p]) /\ side \in Child
    BY <1>2, <1>5, <2>1, CallerGoesOn DEF Callers, Caller, Call
  <2>3. /\ Relinked(p) /\ nodes'[p].children[side] = id
        /\ \A t \in Child : t # side => nodes'[p].children[t] = nodes[p].children[t]
    BY <2>1, <2>2, ReturnWrites
  <2>4. ~Built'
    BY <1>1, <1>5 DEF Callers, Built
  <2>5. HalfGrown(points, nodes', indices, p, calls[p], side)
    <3>1. /\ id = HalfId(p, calls[p], side)
          /\ c.first = Half(p, calls[p], side).first /\ c.size = Half(p, calls[p], side).size
      BY <2>2 DEF MadeBy
    <3>2. /\ \A x : x \in Span(id, c.size) <=> x \in Nat /\ id <= x /\ x < id + c.size
      BY <1>2, SpanElement
    <3>3. p \notin Span(id, c.size)
      <4>1. p \in Nat /\ p < id
        BY <2>2, <3>1, CallBounds DEF HalfBounds
      <4> QED BY <1>2, <3>2, <4>1
    <3>4. Span(id, c.size) \subseteq DOMAIN nodes
      <4>1. id + c.size <= Count /\ Count \in Nat /\ DOMAIN nodes = Range0(Count)
        BY DEF Sized, Fits
      <4> QED BY <1>2, <3>2, <4>1 DEF Range0
    <3>5. \A m \in Span(id, c.size) : nodes'[m] = nodes[m]
      BY <2>3, <3>3, <3>4 DEF Relinked
    <3>6. Grown(points, nodes', indices, id, c.first, c.size)
      BY <1>2, <1>3, <2>3, <3>4, <3>5, GrownKept DEF Relinked
    <3> QED BY <1>2, <2>3, <3>1, <3>6 DEF HalfGrown
  <2>6. ASSUME NEW i \in DOMAIN calls, i # id PROVE SplitOff(i)'
    <3>1. calls'[i] = calls[i] /\ SamePart(calls[i], calls[i])
      BY <1>1, <2>6 DEF SamePart
    <3> SUFFICES ASSUME calls[i].split = TRUE
                 PROVE  /\ Pivot(points, nodes', indices, i, calls[i])
                        /\ \A t \in Child : Returned(i, t)' =>
                             HalfGrown(points, nodes', indices, i, calls[i], t)
      BY <1>1, <3>1 DEF SplitOff
    <3>2. /\ Pivot(points, nodes', indices, i, calls[i])
          /\ \A t \in Child :
               Returned(i, t) /\ nodes'[i].children[t] = nodes[i].children[t] =>
                 HalfGrown(points, nodes', indices, i, calls[i], t)
      BY <2>2, <2>3, <3>1, RelinkKeeps
    <3>3. ASSUME NEW t \in Child, Returned(i, t)', ~(i = p /\ t = side)
          PROVE  HalfGrown(points, nodes', indices, i, calls[i], t)
      <4>1. Returned(i, t)
        BY <1>1, <2>1, <3>1, <3>3 DEF Returned
      <4>2. nodes'[i].children[t] = nodes[i].children[t]
        BY <2>3, <3>3 DEF Relinked, Sized
      <4> QED BY <3>2, <4>1, <4>2
    <3> QED BY <2>5, <3>2, <3>3
  <2> QED BY <1>1, <2>4, <2>6 DEF Progress
<1> QED BY <1>4, <1>5
-----------------------------------------------------------------------------
LEMMA FirstCall ==
  ASSUME NEW n \in Nat \ {0}
  PROVE  /\ Called(0, n, 0, Null, 0) \in Call
         /\ Called(0, n, 0, Null, 0).parent = Null /\ Called(0, n, 0, Null, 0).first = 0
         /\ Called(0, n, 0, Null, 0).size = n
         /\ Called(0, n, 0, Null, 0).split = FALSE /\ Called(0, n, 0, Null, 0).todo = Child
<1>1. 0 \in Nat
  OBVIOUS
<1>2. Null \in Nat \cup {Null}
  OBVIOUS
<1>3. 0 \in Child
  BY DEF Child
<1>4. PICK f \in Nat, p \in Nat \cup {Null}, s \in Child : f = 0 /\ p = Null /\ s = 0
  BY <1>1, <1>2, <1>3
<1>5. /\ Called(f, n, f, p, s) \in Call
      /\ Called(f, n, f, p, s).parent = p /\ Called(f, n, f, p, s).first = f
      /\ Called(f, n, f, p, s).size = n
      /\ Called(f, n, f, p, s).split = FALSE /\ Called(f, n, f, p, s).todo = Child
  BY DEF Called, Call
<1> QED BY <1>4, <1>5

LEMMA FreshIsNode == Fresh \in Node
BY DEF Fresh, Node

LEMMA InitializeInv ==
  ASSUME IInv, NEW cloud \in Clouds, Initialize(cloud)
  PROVE  IInv'
<1> USE DEF IInv, ApartInv
<1> DEFINE n == Cardinality(DOMAIN cloud)
<1>1. /\ points' = cloud
      /\ nodes' = [i \in Range0(n) |-> IF i \in Ids THEN nodes[i] ELSE Fresh]
      /\ indices' = [i \in Range0(n) |-> i]
      /\ calls' = [i \in (IF n = 0 THEN {} ELSE {0}) |-> Called(0, n, 0, Null, 0)]
  BY DEF Initialize
<1>2. n \in Nat /\ DOMAIN cloud = Range0(n) /\ Count' = n
  BY <1>1, CloudAssumption, FS_CardinalityType DEF Count
<1>3. nodes' \in [Range0(n) -> Node]
  <2>1. \A i \in Ids : nodes[i] \in Node
    BY DEF Sized, Ids
  <2> QED BY <1>1, <2>1, FreshIsNode
<1>4. indices' \in Surjection(Range0(n), Range0(n))
  <2>1. indices' \in [Range0(n) -> Range0(n)] /\ \A k \in Range0(n) : indices'[k] = k
    BY <1>1
  <2> QED BY <2>1 DEF Surjection
<1>5. CASE n = 0
  <2>1. DOMAIN calls' = {}
    BY <1>1, <1>5
  <2>2. Ids' = {}
    BY <1>1, <1>2, <1>5 DEF Ids, Range0
  <2>3. Sized'
    BY <1>1, <1>2, <1>3, <1>4, <2>1 DEF Sized
  <2>4. Callers' /\ Nested'
    BY <2>1 DEF Callers, Nested
  <2>5. Progress'
    BY <2>1, <2>2 DEF Progress
  <2> QED BY <2>3, <2>4, <2>5
<1>6. CASE n # 0
  <2>1. DOMAIN calls' = {0} /\ calls'[0] = Called(0, n, 0, Null, 0)
    BY <1>1, <1>6
  <2>2. /\ calls'[0] \in Call /\ calls'[0].parent = Null
        /\ calls'[0].first = 0 /\ calls'[0].size = n
        /\ calls'[0].split = FALSE /\ calls'[0].todo = Child
    <3>1. PICK k \in Nat \ {0} : k = n
      BY <1>2, <1>6
    <3> QED BY <2>1, <3>1, FirstCall
  <2>3. Sized'
    <3>1. 0 \in Range0(n) /\ Fits(0, calls'[0], n)
      BY <1>2, <1>6, <2>2 DEF Range0, Fits
    <3> QED BY <1>1, <1>2, <1>3, <1>4, <2>1, <2>2, <3>1 DEF Sized
  <2>4. ~Built'
    BY <2>1 DEF Built
  <2>5. Callers'
    BY <1>2, <2>1, <2>2, <2>4 DEF Callers, Caller
  <2>6. Nested'
    BY <2>1 DEF Nested
  <2>7. Progress'
    BY <2>1, <2>2, <2>4 DEF Progress, SplitOff
  <2> QED BY <2>3, <2>5, <2>6, <2>7
<1> QED BY <1>5, <1>6

LEMMA InitInv == BuildInit => IInv
<1> SUFFICES ASSUME BuildInit PROVE IInv
  OBVIOUS
<1>1. /\ DOMAIN points = {} /\ DOMAIN nodes = {} /\ DOMAIN calls = {}
      /\ nodes = [i \in {} |-> Fresh] /\ indices = [i \in {} |-> 0]
      /\ points = <<>>
  BY DEF BuildInit
<1>2. Count = 0 /\ Range0(Count) = {}
  BY <1>1, FS_EmptySet DEF Count, Range0
<1>3. Sized
  BY <1>1, <1>2 DEF Sized, Surjection
<1>4. Callers /\ Nested
  BY <1>1 DEF Callers, Nested
<1>5. Progress
  BY <1>1 DEF Progress, Ids
<1> QED BY <1>3, <1>4, <1>5 DEF IInv, ApartInv

LEMMA StutterInv == IInv /\ UNCHANGED buildVars => IInv'
<1> SUFFICES ASSUME IInv, UNCHANGED buildVars PROVE IInv'
  OBVIOUS
<1>1. points' = points /\ nodes' = nodes /\ indices' = indices /\ calls' = calls
  BY DEF buildVars
<1>2. Count' = Count /\ (Built' <=> Built) /\ Ids' = Ids
  BY <1>1 DEF Count, Built, Ids
<1>3. Sized'
  BY <1>1, <1>2 DEF IInv, ApartInv, Sized
<1>4. Callers'
  BY <1>1, <1>2 DEF IInv, ApartInv, Callers, Caller
<1>5. Nested'
  BY <1>1 DEF IInv, ApartInv, Nested, Inside, InsideOf, Open
<1>6. Progress'
  BY <1>1, <1>2 DEF IInv, Progress, SplitOff, Returned
<1> QED BY <1>3, <1>4, <1>5, <1>6 DEF IInv, ApartInv

LEMMA StepInv == IInv /\ [BuildNext]_buildVars => IInv'
<1> SUFFICES ASSUME IInv, [BuildNext]_buildVars PROVE IInv'
  OBVIOUS
<1> USE DEF IInv
<1>1. ASSUME NEW id \in DOMAIN calls, Split(id) PROVE IInv'
  BY <1>1, SplitApart, SplitProgress
<1>2. ASSUME NEW id \in DOMAIN calls, Return(id) PROVE IInv'
  BY <1>2, ReturnApart, ReturnProgress
<1>3. ASSUME NEW id \in DOMAIN calls, NEW s \in Child, CallHalf(id, s) PROVE IInv'
  BY <1>3, CallHalfApart, CallHalfProgress
<1>4. ASSUME NEW id \in DOMAIN calls, NEW s \in Child, CallEmpty(id, s) PROVE IInv'
  BY <1>4, CallEmptyApart, CallEmptyProgress
<1>5. ASSUME NEW cloud \in Clouds, Initialize(cloud) PROVE IInv'
  BY <1>5, InitializeInv
<1>6. CASE UNCHANGED buildVars
  BY <1>6, StutterInv
<1> QED BY <1>1, <1>2, <1>3, <1>4, <1>5, <1>6 DEF BuildNext, Build

LEMMA Invariant == BuildSpec => []IInv
BY InitInv, StepInv, PTL DEF BuildSpec

(* The vectors always have one element for each of the points, and the      *)
(* calls that build the tree make nodes of it (initialize, kdtree.h).       *)
THEOREM TypeCorrect == BuildSpec => []TypeOK
<1>1. IInv => TypeOK
  BY SizedTypes DEF IInv, ApartInv
<1> QED BY <1>1, Invariant, PTL

(* For any points and any order of the tasks, no two calls that are still   *)
(* to split have any of the nodes or of the indices in common, and no other *)
(* call's node is among theirs (build_resursive_multithread, kdtree.h): the *)
(* tasks need no lock.                                                      *)
THEOREM TasksStayApart == BuildSpec => []TasksApart
<1>1. IInv => TasksApart
  BY NestedTasksApart DEF IInv, ApartInv
<1> QED BY <1>1, Invariant, PTL

(* A tree that was built holds each point once, all of it is reached from   *)
(* its first node and nothing of the tree before it is left, and each node  *)
(* separates what is below it on its axis (build_resursive_multithread,     *)
(* build_recursive, kdtree.h).                                              *)
THEOREM TreesComplete == BuildSpec => []TreeComplete
<1>1. IInv => TreeComplete
  BY GrownTreeComplete DEF IInv, ApartInv
<1> QED BY <1>1, Invariant, PTL
=============================================================================
