------------------------------ MODULE KdBuild ------------------------------
(***************************************************************************)
(* How Boids builds the k-d trees its passes search (KdTree).  A large     *)
(* span of points is split by two tasks of the scheduler, a small one by   *)
(* plain recursion; all of them write one vector of nodes and one of       *)
(* indices, each in its own part.                                          *)
(*                                                                         *)
(* The tree is rebuilt in place: its nodes are those of the frame before   *)
(* until they are written again.  That nobody searches while it is built   *)
(* is the pipeline's business (EcsPipeline).                               *)
(*                                                                         *)
(* A definition that shares the name of the one after it, with a suffix,   *)
(* is a slip that could be made in its place; nothing uses it.             *)
(***************************************************************************)
EXTENDS Integers, FiniteSets, Functions, TLC

CONSTANTS
  Clouds,     \* the vectors of points the tree is built from
  Dim,        \* Point::dim
  MinParallel \* points from which on a span is split by tasks: 500

VARIABLES
  points,
  nodes,
  indices, \* the vector the spans are parts of
  calls    \* of build_resursive_multithread and build_recursive that have
           \* not returned, by the node each one makes

buildVars == <<points, nodes, indices, calls>>

Null == -1
Child == {0, 1}
Range0(n) == 0 .. n - 1
Ids == DOMAIN nodes

ASSUME SizeAssumption == MinParallel \in Nat /\ Dim \in Nat \ {0}
ASSUME CloudAssumption ==
  \A c \in Clouds : IsFiniteSet(DOMAIN c) /\ DOMAIN c = Range0(Cardinality(DOMAIN c))

Fresh == [index |-> Null, axis |-> Null, children |-> [i \in Child |-> Null]]

(* split: the node is written but for its children; todo: the halves that   *)
(* no call was made for yet; parent, side: where the call's result goes.    *)
Called(first, size, depth, parent, side) ==
  [first |-> first, size |-> size, depth |-> depth, parent |-> parent,
   side |-> side, split |-> FALSE, todo |-> Child]

Built == 0 \notin DOMAIN calls

TypeOK ==
  /\ points \in Clouds \cup {<<>>}
  /\ Ids = DOMAIN points /\ DOMAIN indices = DOMAIN points
  /\ \A n \in Ids :
       /\ nodes[n].index \in Nat \cup {Null} /\ nodes[n].axis \in Nat \cup {Null}
       /\ nodes[n].children \in [Child -> Nat \cup {Null}]
  /\ indices \in [DOMAIN points -> DOMAIN points]
  /\ DOMAIN calls \subseteq Ids

BuildInit ==
  points = <<>> /\ nodes = <<>> /\ indices = <<>> /\ calls = <<>>
-----------------------------------------------------------------------------
(* initialize: the vectors are resized, what stays of the nodes is kept; an *)
(* empty span returns at once.                                              *)
Initialize(cloud) ==
  LET n == Cardinality(DOMAIN cloud) IN
  /\ Built
  /\ points' = cloud
  /\ nodes' = [i \in Range0(n) |-> IF i \in Ids THEN nodes[i] ELSE Fresh]
  /\ indices' = [i \in Range0(n) |-> i]
  /\ calls' = [i \in (IF n = 0 THEN {} ELSE {0}) |-> Called(0, n, 0, Null, 0)]

Mid(size) == (size - 1) \div 2
Axis(depth) == depth % Dim

Span(first, size) == first .. first + size - 1

(* The vector after its span was put into another order.  (A permutation is *)
(* a function onto its domain; TLC has the one, the provers the other.)     *)
Rearranged(first, size) ==
  LET span == Span(first, size) IN
  {[i \in DOMAIN indices |-> IF i \in span THEN indices[f[i]] ELSE indices[i]] :
     f \in Permutations(span) \cap Surjection(span, span)}

(* What nth_element promises of a span: nothing before the middle is larger *)
(* than it on the axis, nothing after it smaller.                           *)
SplitAtMid(order, first, size, depth) ==
  LET mid == first + Mid(size)
      at(i) == points[order[i]][Axis(depth) + 1] IN
  \A i \in Span(first, size) :
    (i < mid => at(i) <= at(mid)) /\ (i > mid => at(mid) <= at(i))

LeftSize(size) == Mid(size)
RightSize(size) == size - Mid(size) - 1
LeftId(id) == id + 1
RightIdNear(id, size) == id + Mid(size)
RightIdFar(id, size) == id + 2 + Mid(size)
RightId(id, size) == id + 1 + Mid(size)

(* nth_element, and the node is written.                                    *)
Split(id) ==
  LET c == calls[id] IN
  /\ ~c.split
  /\ \E order \in Rearranged(c.first, c.size) :
       /\ SplitAtMid(order, c.first, c.size, c.depth)
       /\ indices' = order
       /\ nodes' = [nodes EXCEPT ![id].index = order[c.first + Mid(c.size)],
                                 ![id].axis = Axis(c.depth)]
  /\ calls' = [calls EXCEPT ![id].split = TRUE]
  /\ UNCHANGED points

(* The call that c makes for a half, and the node of it.                    *)
Half(id, c, side) ==
  IF side = 0
  THEN Called(c.first, LeftSize(c.size), c.depth + 1, id, 0)
  ELSE Called(c.first + Mid(c.size) + 1, RightSize(c.size), c.depth + 1, id, 1)
HalfId(id, c, side) == IF side = 0 THEN LeftId(id) ELSE RightId(id, c.size)

(* The call for a half was made, and has returned: taska.wait(), taskb.wait(). *)
Returned(id, side) ==
  /\ side \notin calls[id].todo
  /\ \A i \in DOMAIN calls : ~(calls[i].parent = id /\ calls[i].side = side)

(* Two tasks build the halves of a large span at once; of a small one the   *)
(* right half is built after the left.                                      *)
Reached(id, side) ==
  /\ calls[id].split /\ side \in calls[id].todo
  /\ calls[id].size >= MinParallel \/ side = 0 \/ Returned(id, 0)

CallHalf(id, side) ==
  LET half == Half(id, calls[id], side)
      k == HalfId(id, calls[id], side) IN
  /\ Reached(id, side) /\ half.size > 0
  /\ calls' = [i \in DOMAIN calls \cup {k} |->
       IF i = k THEN half
       ELSE IF i = id THEN [calls[id] EXCEPT !.todo = @ \ {side}] ELSE calls[i]]
  /\ UNCHANGED <<points, nodes, indices>>

(* The call for an empty half returns nullptr.                              *)
CallEmpty(id, side) ==
  /\ Reached(id, side) /\ Half(id, calls[id], side).size = 0
  /\ nodes' = [nodes EXCEPT ![id].children[side] = Null]
  /\ calls' = [calls EXCEPT ![id].todo = @ \ {side}]
  /\ UNCHANGED <<points, indices>>

LinkedToNone(from, id) == from
(* The caller stores the result in its node.                                *)
Linked(from, id) ==
  LET c == calls[id] IN
  IF c.parent = Null THEN from ELSE [from EXCEPT ![c.parent].children[c.side] = id]

Return(id) ==
  /\ calls[id].split /\ \A side \in Child : Returned(id, side)
  /\ nodes' = Linked(nodes, id)
  /\ calls' = [i \in DOMAIN calls \ {id} |-> calls[i]]
  /\ UNCHANGED <<points, indices>>

Build ==
  \E id \in DOMAIN calls :
    \/ Split(id) \/ Return(id)
    \/ \E side \in Child : CallHalf(id, side) \/ CallEmpty(id, side)

BuildNext == Build \/ \E cloud \in Clouds : Initialize(cloud)

BuildSpec == BuildInit /\ [][BuildNext]_buildVars
-----------------------------------------------------------------------------
(* The tasks that build a tree at once need no lock: each one's span of the *)
(* indices and its range of the nodes are its own, and no other call's node *)
(* is in that range.                                                        *)
TasksApart ==
  \A i, j \in DOMAIN calls :
    i # j /\ ~calls[i].split =>
      /\ j \notin Span(i, calls[i].size)
      /\ ~calls[j].split =>
           /\ Span(calls[i].first, calls[i].size) \cap Span(calls[j].first, calls[j].size) = {}
           /\ Span(i, calls[i].size) \cap Span(j, calls[j].size) = {}

(* The sets of nodes no child leads out of.                                 *)
ClosedSets ==
  {S \in SUBSET Ids : \A n \in S, i \in Child : nodes[n].children[i] \in S \cup {Null}}

(* The nodes below one, itself included: all that children lead to.         *)
Below(n, closed) ==
  IF n = Null THEN {} ELSE {m \in Ids : \A S \in closed : n \in S => m \in S}

(* A tree that was built has every point in one node, reached from the      *)
(* first, with nothing left of the tree before it; no node is below both    *)
(* children of another or below itself; and each node separates what is     *)
(* below it on its axis, one of the dimensions.                             *)
TreeComplete ==
  Built /\ Ids # {} =>
    LET closed == ClosedSets
        side(n, i) == Below(nodes[n].children[i], closed) IN
    /\ Ids \in closed /\ Below(0, closed) = Ids
    /\ {nodes[n].index : n \in Ids} = Ids
    /\ \A n \in Ids :
         LET at(m) == points[nodes[m].index][nodes[n].axis + 1] IN
         /\ nodes[n].axis \in Range0(Dim)
         /\ side(n, 0) \cap side(n, 1) = {} /\ n \notin side(n, 0) \cup side(n, 1)
         /\ \A m \in side(n, 0) : at(m) <= at(n)
         /\ \A m \in side(n, 1) : at(n) <= at(m)
=============================================================================
