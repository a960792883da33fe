---------------------------- MODULE MCBoidsFrame ----------------------------
(* Boids with every box checked, and with one of them unchecked in any frame; *)
(* without the last, what is collected is older than the simulation.          *)
(* Started with none, the model is Boids as it is built; started with boids,  *)
(* Boids built without a user interface.                                      *)
EXTENDS BoidsFrame

AllOn == [boids |-> TRUE, move |-> TRUE, l2w |-> TRUE]
OnlyOn == {AllOn}
OneOff == {AllOn, [AllOn EXCEPT !.boids = FALSE], [AllOn EXCEPT !.move = FALSE],
           [AllOn EXCEPT !.l2w = FALSE]}

(* Bound: the steps of a second frame that begins before the program has      *)
(* settled are left out.  Only TypeOK and CollectedAtRest would ask anything  *)
(* of them before it has, and the proofs leave out no frame.                  *)
SettledInTime == settled \/ frame < MaxFrames
=============================================================================
