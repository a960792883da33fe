----------------------------- MODULE BoidsFrame -----------------------------
(***************************************************************************)
(* The frame loop of Boids, written against the schedule of the pipeline   *)
(* (EcsSchedule).  In each frame the main thread collects what is to be    *)
(* drawn, makes the passes of the simulation, lets the user interface      *)
(* change how many boids there are, and draws; the passes run beside it.   *)
(*                                                                         *)
(* What is modelled of the data is the size of each vector the passes      *)
(* share.  A vector is resized by the init function of the pass that fills *)
(* it, before that pass waits for anything, so nothing but the order the   *)
(* program makes its passes in keeps a vector from being moved under a     *)
(* pass that is using it.                                                  *)
(*                                                                         *)
(* A definition that shares the name of the one after it, with a suffix,   *)
(* is a slip that could be made in its place; nothing uses it.             *)
(***************************************************************************)
EXTENDS Naturals, Sequences, EcsShapes

CONSTANTS
  Targets,      \* how many targets there are
  MaxBoids,     \* TARGET_NUM, the end of the slider
  InitialBoids, \* how many boids there may be before the first frame: none as
                \* the program is built, TARGET_NUM without a user interface
  Switches,     \* settings of the three checkboxes the program is run with
  MaxFrames     \* bound: frames

ASSUME CountAssumption ==
  /\ Targets \in Nat /\ MaxBoids \in Nat /\ MaxFrames \in Nat
  /\ InitialBoids \subseteq 0 .. MaxBoids
ASSUME SwitchAssumption ==
  Switches \subseteq [boids : BOOLEAN, move : BOOLEAN, l2w : BOOLEAN]

VARIABLES
  shape, phase, \* the schedule
  pc,           \* where the main thread is in the frame
  enabled,      \* bEnableBoids, bEnableBoidsMove, bEnableL2W of the last frame
  boids,        \* how many boids there are
  spawned,      \* is there an archetype of boids?
  size,         \* of each vector, and of each tree
  frame,        \* frames begun
  settled       \* history: was there, since the first spawn, a moment at which
                \* every pass was over?

schedule == <<shape, phase>>
thread   == <<pc, enabled, frame>>
world    == <<boids, spawned>>
vars     == <<schedule, thread, world, size, settled>>

(* The vectors by what they have an element for.                            *)
BoidVectors   == {"positions", "kdtree", "headings", "newHeadings", "worlds", "ids"}
TargetVectors == {"targets", "targetEntities", "targetTree", "target_worlds"}
Vectors == BoidVectors \cup TargetVectors
Trees   == {"kdtree", "targetTree"}
-----------------------------------------------------------------------------
(* The passes                                                              *)

(* A component of the boids is a resource of its own, once some boids have  *)
(* been spawned; before that a pass finds no archetype to work on.          *)
OfBoids(C) == IF spawned THEN C ELSE {}

(* of: whose entities the pass is made for; vector: what its init function  *)
(* resizes.  The vectors of CollectAndUpload are no shared_resources.       *)
Pass(name, of, reads, writes, vector) ==
  [name |-> name, of |-> IF of = "boids" /\ ~spawned THEN "none" ELSE of,
   reads |-> reads, writes |-> writes, vector |-> vector, init |-> vector # "none"]

CollectPasses == <<
  Pass("CollectTargets", "targets", {"l2w"}, {}, "target_worlds"),
  Pass("CollectWorlds", "boids", OfBoids({"boid l2w"}), {}, "worlds"),
  Pass("CollectIds", "boids", OfBoids({"boid debug"}), {}, "ids")>>

TargetPasses == <<
  Pass("RandomTarget", "targets", {"translation"}, {"moveToward"}, "none"),
  Pass("MoveToward", "targets", {"moveToward"}, {"translation"}, "none")>>

BoidsSystem == <<
  Pass("CopyPosition", "boids", OfBoids({"boid translation"}), {"positions"}, "positions"),
  Pass("BoidKdTree", "none", {"positions"}, {"kdtree"}, "none"),
  Pass("CopyTargetPosition", "targets", {"translation"}, {"targets"}, "targets"),
  Pass("CopyTargetEntities", "targets", {}, {"targetEntities"}, "targetEntities"),
  Pass("TargetKdTree", "none", {"targets"}, {"targetTree"}, "none"),
  Pass("CopyHeading", "boids", OfBoids({"boid heading"}), {"headings"}, "headings"),
  Pass("BoidMain", "boids",
       OfBoids({"boid heading", "boid translation"}) \cup
         {"kdtree", "headings", "targetTree", "targetEntities"},
       OfBoids({"boid debug"}) \cup {"newHeadings"}, "newHeadings"),
  Pass("CopyBackHeading", "boids", {"newHeadings"}, OfBoids({"boid heading"}), "none")>>

BoidMoveSystem == <<
  Pass("BoidMove", "boids", OfBoids({"boid heading"}), OfBoids({"boid translation"}), "none")>>

Local2XSystemTargets == <<
  Pass("LocalToWorld", "targets", {"translation"}, {"l2w"} \cup OfBoids({"boid l2w"}), "none")>>
(* It works on the targets and on the boids.                                *)
Local2XSystem == <<
  Pass("LocalToWorld", "targets", {"translation"} \cup OfBoids({"boid translation", "boid heading"}),
       {"l2w"} \cup OfBoids({"boid l2w"}), "none")>>

(* The passes on parents and children match nothing in this program.        *)
BoidMainLoop(on) ==
  TargetPasses
  \o (IF on.boids THEN BoidsSystem ELSE <<>>)
  \o (IF on.move THEN BoidMoveSystem ELSE <<>>)
  \o (IF on.l2w THEN Local2XSystem ELSE <<>>)

(* Fifteen passes in a frame with every box checked.                        *)
Schedule == INSTANCE EcsSchedule WITH Shapes <- {}, MaxPasses <- 15 * MaxFrames

Made == Schedule!Made
AllOver(P) == \A p \in P : Schedule!Over(p)

Quiet  == spawned /\ AllOver(Made)
Settle == settled' = (settled \/ Quiet')
-----------------------------------------------------------------------------
(* The main thread.  Making a pass commutes with the steps of the passes    *)
(* made before it, and a wait ends for good, so the passes of one part of   *)
(* the frame are made in a step, and the waits for several are one.         *)

(* worlds and ids begin with TARGET_NUM elements, target_worlds with ten,   *)
(* which is how many targets main spawns; the other vectors begin empty.    *)
Init ==
  /\ Schedule!ScheduleInit
  /\ pc = "frame" /\ frame = 0
  /\ enabled \in Switches
  /\ boids \in InitialBoids /\ spawned = (boids > 0)
  /\ size = [v \in Vectors |-> CASE v \in {"worlds", "ids"} -> MaxBoids
                                 [] v = "target_worlds" -> Targets
                                 [] OTHER -> 0]
  /\ settled = spawned

(* CollectAndUpload makes its three passes.                                 *)
Collect ==
  /\ pc = "frame" /\ pc' = "collect"
  /\ frame < MaxFrames /\ frame' = frame + 1
  /\ Schedule!Make(CollectPasses)
  /\ UNCHANGED <<enabled, world, size>>
  /\ Settle

CollectedTargets == {Len(shape) - 2}
(* passes[0], passes[1] and passes[2], whose events it waits for.           *)
Collected == Len(shape) - 2 .. Len(shape)

(* CollectAndUpload returns, and BoidMainLoop makes the passes of the frame *)
(* with the boxes as the last frame's user interface left them.             *)
Simulate ==
  /\ pc = "collect" /\ AllOver(Collected) /\ pc' = "ui"
  /\ enabled' \in Switches
  /\ Schedule!Make(BoidMainLoop(enabled'))
  /\ UNCHANGED <<frame, world, size>>
  /\ Settle

(* The passes sync_archetype waits for: they use a component of the boids.  *)
OfArchetypeDrawn ==
  {p \in Made : Touched(shape[p]) \cap OfBoids({"boid l2w"}) # {}}
OfArchetype ==
  {p \in Made : Touched(shape[p]) \cap
                   OfBoids({"boid l2w", "boid debug", "boid translation", "boid heading"}) # {}}

(* The slider.  SpawnBoids synchronises if there is an archetype of boids,  *)
(* and DestroyBoids with the archetypes it finds.  The sliders of the       *)
(* boids' settings and the mode that saves a snapshot in every frame are    *)
(* not modelled; they only wait for more passes.                            *)
UpdateBoidsCount ==
  /\ pc = "ui" /\ pc' = "frame"
  /\ AllOver(OfArchetype)
  /\ boids' \in 0 .. MaxBoids \ {boids}
  /\ spawned' = TRUE
  /\ UNCHANGED <<schedule, enabled, frame, size>>
  /\ Settle

(* The button that loads a snapshot: sync_all, then the entities saved.     *)
LoadSnapshot ==
  /\ pc = "ui" /\ pc' = "frame"
  /\ AllOver(Made)
  /\ boids' \in 0 .. MaxBoids
  /\ spawned' = (spawned \/ boids' > 0)
  /\ UNCHANGED <<schedule, enabled, frame, size>>
  /\ Settle

(* The frame is drawn with nothing changed.                                 *)
Render ==
  /\ pc = "ui" /\ pc' = "frame"
  /\ UNCHANGED <<schedule, enabled, frame, world, size>>
  /\ Settle

MainThread ==
  Collect \/ Simulate \/ UpdateBoidsCount \/ LoadSnapshot \/ Render
-----------------------------------------------------------------------------
(* The passes run                                                          *)

CalcSizeAppended(s) ==
  size[s.vector] + CASE s.of = "boids" -> boids [] s.of = "targets" -> Targets [] OTHER -> 0
(* calc_size: the entities the pass was made for.                           *)
CalcSize(s) ==
  CASE s.of = "boids" -> boids [] s.of = "targets" -> Targets [] OTHER -> 0

(* The init function: the vector is resized.                                *)
InitializePass(p) ==
  /\ Schedule!Initialize(p)
  /\ size' = [size EXCEPT ![shape[p].vector] = CalcSize(shape[p])]
  /\ UNCHANGED <<thread, world>>
  /\ Settle

BeginPass(p) ==
  /\ Schedule!Begin(p)
  /\ UNCHANGED <<thread, world, size>>
  /\ Settle

(* The body is over; a tree is as large as the vector it was built from.    *)
EndPass(p) ==
  /\ Schedule!End(p)
  /\ size' = CASE shape[p].name = "BoidKdTree"   -> [size EXCEPT !["kdtree"] = size["positions"]]
               [] shape[p].name = "TargetKdTree" -> [size EXCEPT !["targetTree"] = size["targets"]]
               [] OTHER -> size
  /\ UNCHANGED <<thread, world>>
  /\ Settle

Next ==
  \/ MainThread
  \/ \E p \in Made : InitializePass(p) \/ BeginPass(p) \/ EndPass(p)

Spec == Init /\ [][Next]_vars
-----------------------------------------------------------------------------
(* Properties                                                              *)

TypeOK ==
  /\ phase \in [Schedule!Pass -> {"unmade", "made", "initialized", "begun", "over"}]
  /\ pc \in {"frame", "collect", "ui"} /\ enabled \in Switches
  /\ boids \in 0 .. MaxBoids /\ (boids > 0 => spawned)
  /\ spawned \in BOOLEAN /\ settled \in BOOLEAN
  /\ \A v \in Vectors : size[v] \in 0 .. (IF v \in BoidVectors THEN MaxBoids ELSE Targets)
  /\ frame \in 0 .. MaxFrames

Uses(s) == (Touched(s) \cup {s.vector}) \cap Vectors

Running(p) == phase[p] = "begun"

(* The next three are about the program once it has settled: the passes of  *)
(* the frames before the first spawn are made without a component of the    *)
(* boids, nothing that follows waits for them, and a number of boids they   *)
(* do not know of comes in their way.  Settled is for good.                 *)

(* A vector changes its size, and so its memory, only while no pass that    *)
(* uses it runs: the init functions, which wait for nothing, do no harm.    *)
ResizedAlone ==
  [][settled =>
       \A v \in Vectors \ Trees : size'[v] # size[v] =>
         \A p \in Made : Running(p) => v \notin Uses(shape[p])]_vars

(* A pass that runs finds every vector and every tree it uses with one      *)
(* element for each entity, so that no index it takes from one of them is   *)
(* out of the bounds of another.                                            *)
Fits ==
  settled =>
    \A p \in Made : Running(p) /\ shape[p].of # "none" =>
      \A v \in Uses(shape[p]) :
        size[v] = IF v \in BoidVectors THEN boids ELSE Targets

(* What the main thread prepares and uploads is not being collected: worlds, *)
(* ids and target_worlds are its own from the collection to the next one.   *)
CollectedAtRest ==
  pc # "collect" =>
    \A p \in Made : shape[p].vector \in {"worlds", "ids", "target_worlds"} => Schedule!Over(p)

(* Boids.cpp: collecting ends the gameplay cycle.  When CollectAndUpload    *)
(* returns, no pass of the frames before is left.                           *)
CycleEnded == pc = "collect" /\ AllOver(Collected) => AllOver(Made)

(* So it does once the program has settled, if the last frame computed what *)
(* is collected.                                                            *)
SettledCycleEnded == settled /\ enabled.l2w => CycleEnded
=============================================================================
