---------------------------- MODULE MCEcsPipeline ----------------------------
(* Three passes of the shapes Boids makes, on a component array, a shared   *)
(* vector and what is built from it: copy the component to the vector,      *)
(* build from the vector (a custom pass), move the component at random.     *)
EXTENDS EcsPipeline

CONSTANTS heading, vector, tree, Groups

MCResources == {heading, vector, tree}

Job(reads, writes, random, force) ==
  [custom |-> FALSE, init |-> ~random, reads |-> reads, writes |-> writes,
   groups |-> Groups, hasRandomWrite |-> random, force |-> force]

CopyComponent == Job({heading}, {vector}, FALSE, "no")
FillComponent == Job({vector}, {heading}, TRUE, "no")
BuildTree     == [custom |-> TRUE, init |-> FALSE, reads |-> {vector}, writes |-> {tree}, groups |-> 1,
                  hasRandomWrite |-> FALSE, force |-> "no"]

AllSwitches == BOOLEAN \X BOOLEAN
NoFibers    == BOOLEAN \X {FALSE}

BoidsShapes == {CopyComponent, FillComponent, BuildTree}
=============================================================================
