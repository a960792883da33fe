------------------------------ MODULE EcsShapes ------------------------------
(***************************************************************************)
(* What a pass declares of itself when it is made, and when two passes     *)
(* conflict.  The codebase that computes this is not in the repository:    *)
(* this is the part of it the pipeline and its programs rely on.           *)
(***************************************************************************)

Touched(s) == s.reads \cup s.writes

Conflict(s, t) ==
  \/ s.writes \cap Touched(t) # {}
  \/ t.writes \cap Touched(s) # {}
=============================================================================
