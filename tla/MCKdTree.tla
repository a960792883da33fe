------------------------------ MODULE MCKdTree ------------------------------
(* Points of a small grid, some of them on the same line or in the same      *)
(* place: no point, one, a few for the recursion alone, and enough for a     *)
(* task that splits its span again.                                          *)
EXTENDS KdTree

Vector(s) == [i \in Range0(Len(s)) |-> s[i + 1]]

MCClouds == {Vector(s) : s \in {
  <<>>,
  <<<<1, 1>>>>,
  <<<<0, 2>>, <<2, 0>>, <<2, 2>>>>,
  <<<<1, 0>>, <<1, 2>>, <<0, 1>>, <<1, 1>>, <<1, 0>>>>,
  <<<<0, 0>>, <<0, 2>>, <<1, 1>>, <<2, 0>>, <<2, 2>>, <<3, 1>>, <<3, 2>>>>}}

MCQueries == (0 .. 3) \X (0 .. 2)
=============================================================================
