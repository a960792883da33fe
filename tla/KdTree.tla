------------------------------- MODULE KdTree -------------------------------
(***************************************************************************)
(* The k-d tree Boids builds each frame of the positions of its boids and  *)
(* of its targets (KdBuild), and searches from every boid.  A search only  *)
(* reads the tree and keeps what it finds to itself, so one at a time is   *)
(* all there is to see; its recursion is a stack of calls.                 *)
(*                                                                         *)
(* A definition that shares the name of the one after it, with a suffix,   *)
(* is a slip that could be made in its place; nothing uses it.             *)
(***************************************************************************)
EXTENDS KdBuild, SequencesExt

CONSTANTS
  Queries, \* the points searched from
  Radii,   \* the radii searched within
  K        \* the k of search_k_radius

VARIABLES
  search, \* the search that has not returned, if any
  stack,  \* of the calls for nodes it has made, the last one on top
  found   \* what it has found: pairs of a distance and an index.  (The
          \* search within a radius keeps the index alone.)

searchVars == <<search, stack, found>>
vars == <<points, nodes, indices, calls, search, stack, found>>

ASSUME KAssumption == K \in Nat \ {0}
ASSUME PointAssumption ==
  /\ \A c \in Clouds : \A i \in DOMAIN c : c[i] \in [1 .. Dim -> Int]
  /\ \A q \in Queries : q \in [1 .. Dim -> Int]
  /\ \A r \in Radii : r \in Int

NoSearch == [kind |-> "none", query |-> <<>>, sradius |-> 0]

(* crossing: the call for the child on the query's side has returned, or is *)
(* above on the stack.                                                      *)
Entered(n) == [node |-> n, crossing |-> FALSE]

Init == BuildInit /\ search = NoSearch /\ stack = <<>> /\ found = <<>>
-----------------------------------------------------------------------------
Square(x) == x * x

(* sdistance: the square of the distance.                                   *)
Distance(lhs, rhs) ==
  LET dist[a \in 0 .. Dim] ==
        IF a = 0 THEN 0 ELSE dist[a - 1] + Square(lhs[a] - rhs[a])
  IN dist[Dim]

AxisDist(q, n) ==
  q[nodes[n].axis + 1] - points[nodes[n].index][nodes[n].axis + 1]

(* The child on the query's side of the node, and the other one.            *)
Near(q, n) == nodes[n].children[IF AxisDist(q, n) < 0 THEN 0 ELSE 1]
FarAlways(q, n) == nodes[n].children[0]
Far(q, n)  == nodes[n].children[IF AxisDist(q, n) < 0 THEN 1 ELSE 0]

(* Whether something as near as this is of use: the radius is the limit, or *)
(* the last of the queue, or the nearest found (no limit before any is).    *)
Closer(sdist) ==
  IF search.kind = "radius" \/ found = <<>>
  THEN search.kind = "nearest" \/ sdist < search.sradius
  ELSE sdist < Last(found)[1]

(* The other side is visited if the plane between is closer than the limit. *)
CrossesDoubled(q, n) == Closer(Square(2 * AxisDist(q, n)))
Crosses(q, n) == Closer(Square(AxisDist(q, n)))

Before(x, y) == x[1] < y[1] \/ (x[1] = y[1] /\ x[2] <= y[2])

InsertedLast(queue, e) == Append(queue, e)
(* insert at the upper_bound *)
Inserted(queue, e) ==
  LET place == CHOOSE p \in 1 .. Len(queue) + 1 :
        /\ p <= Len(queue) => ~Before(queue[p], e)
        /\ \A i \in 1 .. p - 1 : Before(queue[i], e)
  IN InsertAt(queue, place, e)

(* push_back; the new nearest alone; the farthest of k makes room.          *)
Noted(e) ==
  CASE search.kind = "radius"  -> Append(found, e)
    [] search.kind = "nearest" -> <<e>>
    [] search.kind = "k_radius" ->
         Inserted(IF Len(found) = K THEN Front(found) ELSE found, e)
-----------------------------------------------------------------------------
(* A search of an empty tree returns at once.                               *)
Start(kind, q, sradius) ==
  /\ Built /\ search = NoSearch
  /\ search' = [kind |-> kind, query |-> q, sradius |-> sradius]
  /\ stack' = IF Ids = {} THEN <<>> ELSE <<Entered(0)>>
  /\ UNCHANGED <<points, nodes, indices, calls, found>>

SearchRadius(q, r) == Start("radius", q, Square(r))
SearchKRadius(q, r) == Start("k_radius", q, Square(r))
SearchNearest(q) == Start("nearest", q, 0)

(* The call for no node returns.                                            *)
VisitNull ==
  /\ stack # <<>> /\ Last(stack) = Entered(Null)
  /\ stack' = Front(stack)
  /\ UNCHANGED <<points, nodes, indices, calls, search, found>>

(* The call for a node notes its point and calls itself for the near side.  *)
Visit(n) ==
  LET q == search.query
      e == <<Distance(q, points[nodes[n].index]), nodes[n].index>> IN
  /\ stack # <<>> /\ Last(stack) = Entered(n)
  /\ found' = IF Closer(e[1]) THEN Noted(e) ELSE found
  /\ stack' = Append([stack EXCEPT ![Len(stack)].crossing = TRUE], Entered(Near(q, n)))
  /\ UNCHANGED <<points, nodes, indices, calls, search>>

(* Back from the near side it has nothing to do after the far side, whose   *)
(* call takes its place.                                                    *)
Cross ==
  LET q == search.query
      n == Last(stack).node IN
  /\ stack # <<>> /\ Last(stack).crossing
  /\ stack' = IF Crosses(q, n)
              THEN [stack EXCEPT ![Len(stack)] = Entered(Far(q, n))] ELSE Front(stack)
  /\ UNCHANGED <<points, nodes, indices, calls, search, found>>

(* The search has returned, and what it found goes to its caller.           *)
Finish ==
  /\ search # NoSearch /\ stack = <<>>
  /\ search' = NoSearch /\ found' = <<>>
  /\ UNCHANGED <<points, nodes, indices, calls, stack>>

Searching == VisitNull \/ Cross \/ Finish \/ \E n \in Ids : Visit(n)

Next ==
  \/ search = NoSearch /\ BuildNext /\ UNCHANGED searchVars
  \/ \E q \in Queries : SearchNearest(q)
       \/ \E r \in Radii : SearchRadius(q, r) \/ SearchKRadius(q, r)
  \/ Searching

Spec == Init /\ [][Next]_vars
-----------------------------------------------------------------------------
(* Properties                                                              *)

(* The search of a kind is about to return.                                 *)
Done(kind) == search.kind = kind /\ stack = <<>>

DistanceTo(i) == Distance(search.query, points[i])

Index == {found[i][2] : i \in DOMAIN found}
FoundOnce == \A i, j \in DOMAIN found : found[i][2] = found[j][2] => i = j
Within == {i \in Ids : DistanceTo(i) < search.sradius}

(* search_radius finds the points within the radius, each of them once.     *)
RadiusExact == Done("radius") => FoundOnce /\ Index = Within

(* search_nearest finds a point no other is closer than, if there is one.   *)
NearestExact ==
  Done("nearest") =>
    /\ Len(found) = IF Ids = {} THEN 0 ELSE 1
    /\ \A i \in Index, j \in Ids : DistanceTo(i) <= DistanceTo(j)

(* search_k_radius finds, in the order of their distance, at most k points  *)
(* within the radius, the nearest among them.  (Not the k nearest: a point  *)
(* farther than all found so far is passed over while the queue has room.)  *)
KSearchSound ==
  Done("k_radius") =>
    /\ Len(found) <= K /\ FoundOnce /\ Index \subseteq Within
    /\ \A i \in DOMAIN found : found[i][1] = DistanceTo(found[i][2])
    /\ \A i, j \in DOMAIN found : i < j => found[i][1] <= found[j][1]
    /\ \A j \in Within : found # <<>> /\ found[1][1] <= DistanceTo(j)

(* The nodes that calls on the stack may still be made for.                 *)
Ahead(call, closed) ==
  Below(IF call.crossing THEN Far(search.query, call.node) ELSE call.node, closed)
Pending ==
  LET closed == ClosedSets IN UNION {Ahead(stack[i], closed) : i \in DOMAIN stack}

(* A search comes to no node twice, by whichever side: what is ahead of it  *)
(* only gets less, and the node it visits is not ahead any more.            *)
NoNodeTwice ==
  [][search' = search =>
       Pending' \subseteq {m \in Pending : ~Visit(m)}]_vars
=============================================================================
