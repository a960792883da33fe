-------------------------- MODULE BoidsFrame_proofs --------------------------
(***************************************************************************)
(* Proofs about BoidsFrame: for any number of boids, targets and frames,   *)
(* any settings of the checkboxes, and any interleaving of the main thread *)
(* with the passes.                                                        *)
(***************************************************************************)
EXTENDS BoidsFrame, TLAPS, SequenceTheorems

(* What is collected: vectors of the main thread's, no shared_resources.    *)
CollectVectors == {"worlds", "ids", "target_worlds"}

Names == {"CollectTargets", "CollectWorlds", "CollectIds", "RandomTarget", "MoveToward",
  "CopyPosition", "BoidKdTree", "CopyTargetPosition", "CopyTargetEntities", "TargetKdTree",
  "CopyHeading", "BoidMain", "CopyBackHeading", "BoidMove", "LocalToWorld"}

Resources == Vectors \cup
  {"translation", "moveToward", "l2w", "boid l2w", "boid debug", "boid translation",
   "boid heading"}

(* A pass of either kind of entities resizes vectors of that kind only.     *)
Filed ==
  {s \in [name : Names, of : {"boids", "targets", "none"}, reads : SUBSET Resources,
          writes : SUBSET Resources, vector : Vectors \cup {"none"}, init : BOOLEAN] :
     /\ s.init = (s.vector # "none") /\ s.vector \notin Trees
     /\ (s.vector \in BoidVectors => s.of \in {"boids", "none"})
     /\ (s.vector \in TargetVectors => s.of = "targets")}

(* The passes of BoidMainLoop collect nothing.                              *)
FiledLoop == {s \in Filed : s.vector \notin CollectVectors}

PassesFiled ==
  /\ shape \in Seq(Filed) /\ Len(shape) <= 15 * MaxFrames
  /\ size \in [Vectors -> Nat]

(* Collecting passes are over, but for the three the main thread waits for. *)
CollectingLast ==
  \A p \in Made : shape[p].vector \in CollectVectors =>
    Schedule!Over(p) \/ (pc = "collect" /\ p > Len(shape) - 3)

FiledInv == TypeOK /\ PassesFiled /\ CollectingLast
-----------------------------------------------------------------------------
(* Type correctness, and the collection at rest.                            *)

(* Sequences given by their elements.                                       *)
LEMMA OneElement ==
  ASSUME NEW S, NEW a \in S PROVE <<a>> \in Seq(S) /\ Len(<<a>>) = 1
OBVIOUS

LEMMA TwoElements ==
  ASSUME NEW S, NEW a \in S, NEW b \in S PROVE <<a, b>> \in Seq(S) /\ Len(<<a, b>>) = 2
OBVIOUS

LEMMA ThreeElements ==
  ASSUME NEW S, NEW a \in S, NEW b \in S, NEW c \in S
  PROVE  <<a, b, c>> \in Seq(S) /\ Len(<<a, b, c>>) = 3
OBVIOUS

LEMMA EightElements ==
  ASSUME NEW S, NEW a \in S, NEW b \in S, NEW c \in S, NEW d \in S,
         NEW e \in S, NEW f \in S, NEW g \in S, NEW h \in S
  PROVE  <<a, b, c, d, e, f, g, h>> \in Seq(S) /\ Len(<<a, b, c, d, e, f, g, h>>) = 8
OBVIOUS

(* Each part of a frame makes passes of these kinds.                        *)
LEMMA CollectFiled == CollectPasses \in Seq(Filed) /\ Len(CollectPasses) = 3
<1>1. Pass("CollectTargets", "targets", {"l2w"}, {}, "target_worlds") \in Filed
  BY DEF Pass, Filed, Names, Resources, Vectors, BoidVectors, TargetVectors, Trees
<1>2. Pass("CollectWorlds", "boids", OfBoids({"boid l2w"}), {}, "worlds") \in Filed
  BY DEF Pass, OfBoids, Filed, Names, Resources, Vectors, BoidVectors, TargetVectors, Trees
<1>3. Pass("CollectIds", "boids", OfBoids({"boid debug"}), {}, "ids") \in Filed
  BY DEF Pass, OfBoids, Filed, Names, Resources, Vectors, BoidVectors, TargetVectors, Trees
<1> QED BY <1>1, <1>2, <1>3, ThreeElements DEF CollectPasses

LEMMA TargetsFiled == TargetPasses \in Seq(FiledLoop) /\ Len(TargetPasses) = 2
<1>1. Pass("RandomTarget", "targets", {"translation"}, {"moveToward"}, "none") \in FiledLoop
  BY DEF Pass, Filed, FiledLoop, Names, Resources, Vectors, BoidVectors, TargetVectors, Trees, CollectVectors
<1>2. Pass("MoveToward", "targets", {"moveToward"}, {"translation"}, "none") \in FiledLoop
  BY DEF Pass, Filed, FiledLoop, Names, Resources, Vectors, BoidVectors, TargetVectors, Trees, CollectVectors
<1> QED BY <1>1, <1>2, TwoElements DEF TargetPasses

(* A pass is filed by its vector and the entities it is made for.           *)
LEMMA PassFiled ==
  ASSUME NEW name \in Names, NEW of \in {"boids", "targets", "none"},
         NEW reads \in SUBSET Resources, NEW writes \in SUBSET Resources,
         NEW vector \in {"positions", "targets", "targetEntities", "headings",
                         "newHeadings", "none"},
         vector \in {"positions", "headings", "newHeadings"} => of = "boids",
         vector \in {"targets", "targetEntities"} => of = "targets"
  PROVE  Pass(name, of, reads, writes, vector) \in FiledLoop
BY DEF Pass, Filed, FiledLoop, Names, Resources, Vectors, BoidVectors, TargetVectors, Trees, CollectVectors

LEMMA OfBoidsType == ASSUME NEW C \in SUBSET Resources PROVE OfBoids(C) \in SUBSET Resources
BY DEF OfBoids

LEMMA BoidsFiled == BoidsSystem \in Seq(FiledLoop) /\ Len(BoidsSystem) = 8
<1>1. Pass("CopyPosition", "boids", OfBoids({"boid translation"}), {"positions"}, "positions")
        \in FiledLoop
  BY PassFiled, OfBoidsType DEF Names, Resources, Vectors, BoidVectors, TargetVectors
<1>2. Pass("BoidKdTree", "none", {"positions"}, {"kdtree"}, "none") \in FiledLoop
  BY PassFiled DEF Names, Resources, Vectors, BoidVectors, TargetVectors
<1>3. Pass("CopyTargetPosition", "targets", {"translation"}, {"targets"}, "targets")
        \in FiledLoop
  BY PassFiled DEF Names, Resources, Vectors, BoidVectors, TargetVectors
<1>4. Pass("CopyTargetEntities", "targets", {}, {"targetEntities"}, "targetEntities")
        \in FiledLoop
  BY PassFiled DEF Names, Resources, Vectors, BoidVectors, TargetVectors
<1>5. Pass("TargetKdTree", "none", {"targets"}, {"targetTree"}, "none") \in FiledLoop
  BY PassFiled DEF Names, Resources, Vectors, BoidVectors, TargetVectors
<1>6. Pass("CopyHeading", "boids", OfBoids({"boid heading"}), {"headings"}, "headings")
        \in FiledLoop
  BY PassFiled, OfBoidsType DEF Names, Resources, Vectors, BoidVectors, TargetVectors
<1>7. Pass("BoidMain", "boids",
           OfBoids({"boid heading", "boid translation"}) \cup
             {"kdtree", "headings", "targetTree", "targetEntities"},
           OfBoids({"boid debug"}) \cup {"newHeadings"}, "newHeadings") \in FiledLoop
  <2>1. OfBoids({"boid heading", "boid translation"}) \cup
          {"kdtree", "headings", "targetTree", "targetEntities"} \in SUBSET Resources
    BY OfBoidsType DEF Resources, Vectors, BoidVectors, TargetVectors
  <2>2. OfBoids({"boid debug"}) \cup {"newHeadings"} \in SUBSET Resources
    BY OfBoidsType DEF Resources, Vectors, BoidVectors, TargetVectors
  <2> QED BY <2>1, <2>2, PassFiled DEF Names
<1>8. Pass("CopyBackHeading", "boids", {"newHeadings"}, OfBoids({"boid heading"}), "none")
        \in FiledLoop
  BY PassFiled, OfBoidsType DEF Names, Resources, Vectors, BoidVectors, TargetVectors
<1> QED BY <1>1, <1>2, <1>3, <1>4, <1>5, <1>6, <1>7, <1>8, EightElements
        DEF BoidsSystem

LEMMA MoveFiled == BoidMoveSystem \in Seq(FiledLoop) /\ Len(BoidMoveSystem) = 1
<1>1. Pass("BoidMove", "boids", OfBoids({"boid heading"}), OfBoids({"boid translation"}), "none")
        \in FiledLoop
  BY PassFiled, OfBoidsType DEF Names, Resources, Vectors, BoidVectors, TargetVectors
<1> QED BY <1>1, OneElement DEF BoidMoveSystem

LEMMA Local2XFiled == Local2XSystem \in Seq(FiledLoop) /\ Len(Local2XSystem) = 1
<1>1. {"translation"} \cup OfBoids({"boid translation", "boid heading"}) \in SUBSET Resources
  BY OfBoidsType DEF Resources, Vectors, BoidVectors, TargetVectors
<1>2. {"l2w"} \cup OfBoids({"boid l2w"}) \in SUBSET Resources
  BY OfBoidsType DEF Resources, Vectors, BoidVectors, TargetVectors
<1>3. Local2XSystem[1] \in FiledLoop
  BY <1>1, <1>2, PassFiled DEF Local2XSystem, Names
<1> QED BY <1>3, OneElement DEF Local2XSystem

LEMMA LoopFiled == ASSUME NEW on PROVE BoidMainLoop(on) \in Seq(FiledLoop)
<1>1. (IF on.boids THEN BoidsSystem ELSE <<>>) \in Seq(FiledLoop)
  BY BoidsFiled
<1>2. (IF on.move THEN BoidMoveSystem ELSE <<>>) \in Seq(FiledLoop)
  BY MoveFiled
<1>3. (IF on.l2w THEN Local2XSystem ELSE <<>>) \in Seq(FiledLoop)
  BY Local2XFiled
<1> QED BY <1>1, <1>2, <1>3, TargetsFiled, ConcatProperties DEF BoidMainLoop

(* Two sequences in a row.                                                  *)
LEMMA ConcatAt ==
  ASSUME NEW S, NEW s \in Seq(S), NEW t \in Seq(S)
  PROVE  /\ s \o t \in Seq(S) /\ Len(s \o t) = Len(s) + Len(t)
         /\ Len(s) \in Nat /\ Len(t) \in Nat
         /\ \A p \in 1 .. Len(s) : (s \o t)[p] = s[p]
         /\ \A p \in Len(s) + 1 .. Len(s) + Len(t) :
              p - Len(s) \in 1 .. Len(t) /\ (s \o t)[p] = t[p - Len(s)]
BY ConcatProperties

(* Making passes leaves those made before as they were.                     *)
LEMMA MakeKeeps ==
  ASSUME PassesFiled, phase \in [Schedule!Pass -> {"unmade", "made", "initialized", "begun", "over"}],
         NEW ss \in Seq(Filed), Schedule!Make(ss)
  PROVE  /\ shape' \in Seq(Filed) /\ Len(shape') = Len(shape) + Len(ss)
         /\ Len(shape) \in Nat /\ Len(ss) \in Nat
         /\ Len(shape') <= 15 * MaxFrames
         /\ phase' \in [Schedule!Pass -> {"unmade", "made", "initialized", "begun", "over"}]
         /\ \A p \in 1 .. Len(shape) : shape'[p] = shape[p] /\ phase'[p] = phase[p]
         /\ \A p \in Len(shape) + 1 .. Len(shape') :
              /\ p - Len(shape) \in 1 .. Len(ss)
              /\ shape'[p] = ss[p - Len(shape)]
              /\ phase'[p] = IF shape'[p].init THEN "made" ELSE "initialized"
<1>1. /\ shape' \in Seq(Filed) /\ Len(shape') = Len(shape) + Len(ss)
      /\ Len(shape) \in Nat /\ Len(ss) \in Nat
      /\ \A p \in 1 .. Len(shape) : shape'[p] = shape[p]
      /\ \A p \in Len(shape) + 1 .. Len(shape') :
           p - Len(shape) \in 1 .. Len(ss) /\ shape'[p] = ss[p - Len(shape)]
  BY ConcatAt DEF PassesFiled, Schedule!Make
<1>2. Len(shape') <= 15 * MaxFrames /\ 15 * MaxFrames \in Nat
  BY <1>1, CountAssumption DEF Schedule!Make
<1>3. DOMAIN ss = 1 .. Len(ss)
  OBVIOUS
<1>4. phase' = [p \in Schedule!Pass |->
                  IF p - Len(shape) \notin 1 .. Len(ss) THEN phase[p]
                  ELSE IF ss[p - Len(shape)].init THEN "made" ELSE "initialized"]
  BY <1>3 DEF Schedule!Make
<1>5. Schedule!Pass = 1 .. 15 * MaxFrames
  BY DEF Schedule!Pass
<1> QED BY <1>1, <1>2, <1>4, <1>5

(* The step of a pass, and what it changes of the vectors.                  *)
LEMMA PassSteps ==
  ASSUME TypeOK, PassesFiled, NEW q \in Made,
         InitializePass(q) \/ BeginPass(q) \/ EndPass(q)
  PROVE  /\ q \in Schedule!Pass /\ shape' = shape
         /\ UNCHANGED <<thread, world>>
         /\ \E f \in {"initialized", "begun", "over"} : phase' = [phase EXCEPT ![q] = f]
         /\ phase[q] # "over"
         /\ \A p \in Made : p # q => phase'[p] = phase[p]
<1>1. q \in Schedule!Pass
  BY CountAssumption DEF Made, Schedule!Made, Schedule!Pass, PassesFiled
<1>2. shape' = shape /\ UNCHANGED <<thread, world>>
  BY DEF InitializePass, BeginPass, EndPass, Schedule!Initialize, Schedule!Begin, Schedule!End
<1>3. \E f \in {"initialized", "begun", "over"} : phase' = [phase EXCEPT ![q] = f]
  BY DEF InitializePass, BeginPass, EndPass, Schedule!Initialize, Schedule!Begin,
         Schedule!End, Schedule!MoveTo
<1>4. phase[q] # "over"
  BY DEF InitializePass, BeginPass, EndPass, Schedule!Initialize, Schedule!Begin, Schedule!End
<1>5. \A p \in Made : p # q => phase'[p] = phase[p]
  <2>1. Made \subseteq DOMAIN phase
    BY CountAssumption DEF Made, Schedule!Made, Schedule!Pass, PassesFiled, TypeOK
  <2> QED BY <2>1, <1>3
<1> QED BY <1>1, <1>2, <1>3, <1>4, <1>5

LEMMA FiledInvInit == Init => FiledInv
<1> SUFFICES ASSUME Init PROVE FiledInv
  OBVIOUS
<1>1. shape = <<>> /\ Len(shape) = 0 /\ shape \in Seq(Filed)
  BY DEF Init, Schedule!ScheduleInit
<1>2. PassesFiled
  BY <1>1, CountAssumption DEF PassesFiled, Init
<1>3. TypeOK
  <2>1. /\ phase \in [Schedule!Pass -> {"unmade", "made", "initialized", "begun", "over"}]
        /\ pc \in {"frame", "collect", "ui"} /\ enabled \in Switches /\ frame \in 0 .. MaxFrames
    BY CountAssumption DEF Init, Schedule!ScheduleInit
  <2>2. boids \in 0 .. MaxBoids /\ (boids > 0 => spawned)
    BY CountAssumption DEF Init
  <2>3. spawned \in BOOLEAN /\ settled \in BOOLEAN
    BY DEF Init
  <2>4. \A v \in Vectors : size[v] \in 0 .. (IF v \in BoidVectors THEN MaxBoids ELSE Targets)
    BY CountAssumption DEF Init, Vectors, BoidVectors, TargetVectors
  <2> QED BY <2>1, <2>2, <2>3, <2>4 DEF TypeOK
<1>4. CollectingLast
  BY <1>1 DEF CollectingLast, Made, Schedule!Made
<1> QED BY <1>2, <1>3, <1>4 DEF FiledInv

(* The number of entities a pass was made for is no more than there may be. *)
LEMMA CalcSizeBound ==
  ASSUME TypeOK, NEW s \in Filed
  PROVE  /\ CalcSize(s) \in Nat
         /\ s.vector \in Vectors =>
              CalcSize(s) \in 0 .. (IF s.vector \in BoidVectors THEN MaxBoids ELSE Targets)
BY CountAssumption DEF TypeOK, Filed, CalcSize, Vectors

(* A step settles the program or leaves that as it was.                     *)
LEMMA Settles ==
  ASSUME TypeOK, [Next]_vars
  PROVE  settled' \in BOOLEAN /\ (settled' => settled \/ Quiet')
<1>1. (settled' = settled) \/ Settle
  <2>1. CASE UNCHANGED vars
    BY <2>1 DEF vars
  <2>2. CASE MainThread
    BY <2>2 DEF MainThread, Collect, Simulate, UpdateBoidsCount, LoadSnapshot, Render
  <2>3. CASE \E p \in Made : InitializePass(p) \/ BeginPass(p) \/ EndPass(p)
    BY <2>3 DEF InitializePass, BeginPass, EndPass
  <2> QED BY <2>1, <2>2, <2>3 DEF Next
<1>2. CASE settled' = settled
  BY <1>2 DEF TypeOK
<1>3. CASE Settle
  BY <1>3, Zenon DEF Settle
<1> QED BY <1>1, <1>2, <1>3

LEMMA FiledInvNext == FiledInv /\ [Next]_vars => FiledInv'
<1> SUFFICES ASSUME FiledInv, [Next]_vars PROVE FiledInv'
  OBVIOUS
<1>0. TypeOK /\ PassesFiled /\ CollectingLast /\ settled' \in BOOLEAN
  BY Settles DEF FiledInv
<1>1. CASE UNCHANGED vars
  BY <1>0, <1>1
     DEF vars, schedule, thread, world, FiledInv, TypeOK, PassesFiled, CollectingLast,
         Made, Schedule!Made, Schedule!Over
<1>2. CASE Collect
  <2>1. CollectPasses \in Seq(Filed) /\ Len(CollectPasses) = 3 /\ Schedule!Make(CollectPasses)
    BY <1>2, CollectFiled DEF Collect
  <2>2. PassesFiled'
    BY <1>0, <1>2, <2>1, MakeKeeps DEF PassesFiled, Collect, TypeOK
  <2>3. TypeOK'
    BY <1>0, <1>2, <2>1, MakeKeeps, CountAssumption DEF Collect, TypeOK, world, Schedule!Pass
  <2>4. CollectingLast'
    <3> SUFFICES ASSUME NEW p \in Made', shape'[p].vector \in CollectVectors
                 PROVE  Schedule!Over(p)' \/ (pc' = "collect" /\ p > Len(shape') - 3)
      BY DEF CollectingLast
    <3>1. CASE p \in 1 .. Len(shape)
      <4>1. shape'[p] = shape[p] /\ phase'[p] = phase[p]
        BY <3>1, <1>0, <2>1, MakeKeeps DEF TypeOK
      <4>2. Schedule!Over(p)
        BY <3>1, <4>1, <1>0, <1>2 DEF Collect, CollectingLast, Made, Schedule!Made
      <4> QED BY <4>1, <4>2 DEF Schedule!Over
    <3>2. CASE p \notin 1 .. Len(shape)
      <4>1. Len(shape') = Len(shape) + 3 /\ Len(shape) \in Nat
        BY <1>0, <2>1, MakeKeeps DEF TypeOK
      <4>2. p > Len(shape') - 3
        BY <3>2, <4>1 DEF Made, Schedule!Made
      <4> QED BY <4>2, <1>2 DEF Collect
    <3> QED BY <3>1, <3>2
  <2> QED BY <2>2, <2>3, <2>4 DEF FiledInv
<1>3. CASE Simulate
  <2>1. BoidMainLoop(enabled') \in Seq(FiledLoop) /\ Schedule!Make(BoidMainLoop(enabled'))
    BY <1>3, LoopFiled DEF Simulate
  <2>2. BoidMainLoop(enabled') \in Seq(Filed)
    BY <2>1 DEF FiledLoop
  <2>3. PassesFiled'
    BY <1>0, <1>3, <2>1, <2>2, MakeKeeps DEF PassesFiled, Simulate, TypeOK
  <2>4. TypeOK'
    BY <1>0, <1>3, <2>1, <2>2, MakeKeeps, CountAssumption
       DEF Simulate, TypeOK, world, Schedule!Pass
  <2>5. CollectingLast'
    <3> SUFFICES ASSUME NEW p \in Made', shape'[p].vector \in CollectVectors
                 PROVE  Schedule!Over(p)'
      BY DEF CollectingLast
    <3>1. p \in 1 .. Len(shape)
      <4>1. p \notin Len(shape) + 1 .. Len(shape')
        BY <1>0, <2>1, <2>2, MakeKeeps DEF TypeOK, FiledLoop
      <4> QED BY <4>1, <1>0, <2>1, <2>2, MakeKeeps DEF TypeOK, Made, Schedule!Made
    <3>2. shape'[p] = shape[p] /\ phase'[p] = phase[p]
      BY <3>1, <1>0, <2>1, <2>2, MakeKeeps DEF TypeOK
    <3>3. phase[p] = "over"
      BY <3>1, <3>2, <1>0, <1>3
         DEF CollectingLast, Made, Schedule!Made, Schedule!Over, Simulate, AllOver, Collected,
             PassesFiled
    <3> QED BY <3>2, <3>3 DEF Schedule!Over
  <2> QED BY <2>3, <2>4, <2>5 DEF FiledInv
<1>4. CASE UpdateBoidsCount \/ LoadSnapshot \/ Render
  <2>1. shape' = shape /\ phase' = phase /\ size' = size /\ pc = "ui" /\ pc' = "frame"
    BY <1>4 DEF UpdateBoidsCount, LoadSnapshot, Render, schedule
  <2>2. PassesFiled' /\ CollectingLast'
    BY <1>0, <2>1 DEF PassesFiled, CollectingLast, Made, Schedule!Made, Schedule!Over
  <2>3. TypeOK'
    BY <1>0, <1>4, <2>1, CountAssumption
       DEF TypeOK, UpdateBoidsCount, LoadSnapshot, Render, world, Schedule!Pass
  <2> QED BY <2>2, <2>3 DEF FiledInv
<1>5. CASE \E p \in Made : InitializePass(p) \/ BeginPass(p) \/ EndPass(p)
  <2>0. PICK q \in Made : InitializePass(q) \/ BeginPass(q) \/ EndPass(q)
    BY <1>5
  <2>1. /\ q \in Schedule!Pass /\ shape' = shape
        /\ UNCHANGED <<thread, world>>
        /\ \E f \in {"initialized", "begun", "over"} : phase' = [phase EXCEPT ![q] = f]
        /\ phase[q] # "over"
    BY <1>0, <2>0, PassSteps
  <2>2. shape[q] \in Filed
    BY <1>0 DEF PassesFiled, Made, Schedule!Made
  <2>3. /\ size' \in [Vectors -> Nat]
        /\ \A v \in Vectors : size'[v] \in 0 .. (IF v \in BoidVectors THEN MaxBoids ELSE Targets)
    <3>1. CASE InitializePass(q)
      BY <3>1, <1>0, <2>2, CalcSizeBound DEF InitializePass, TypeOK, PassesFiled
    <3>2. CASE BeginPass(q)
      BY <3>2, <1>0 DEF BeginPass, TypeOK, PassesFiled
    <3>3. CASE EndPass(q)
      BY <3>3, <1>0 DEF EndPass, TypeOK, PassesFiled, Vectors, BoidVectors, TargetVectors
    <3> QED BY <2>0, <3>1, <3>2, <3>3
  <2>4. PassesFiled'
    BY <1>0, <2>1, <2>3 DEF PassesFiled
  <2>5. TypeOK'
    BY <1>0, <2>1, <2>3 DEF TypeOK, thread, world, Schedule!Pass
  <2>6. CollectingLast'
    BY <1>0, <2>1
       DEF CollectingLast, TypeOK, Made, Schedule!Made, Schedule!Over, thread
  <2> QED BY <2>4, <2>5, <2>6 DEF FiledInv
<1> QED BY <1>1, <1>2, <1>3, <1>4, <1>5 DEF Next, MainThread

LEMMA FiledInvariant == Spec => []FiledInv
BY FiledInvInit, FiledInvNext, PTL DEF Spec

(* TypeOK is an invariant: no vector is larger than there may be entities,  *)
(* and there are boids only once an archetype was spawned.                  *)
THEOREM TypeCorrect == Spec => []TypeOK
BY FiledInvariant, PTL DEF FiledInv

(* CollectedAtRest is an invariant: worlds, ids and target_worlds are the   *)
(* main thread's alone from the end of one collection to the next.          *)
THEOREM CollectedStaysAtRest == Spec => []CollectedAtRest
<1>1. FiledInv => CollectedAtRest
  BY DEF FiledInv, CollectingLast, CollectVectors, CollectedAtRest
<1> QED BY <1>1, FiledInvariant, PTL
-----------------------------------------------------------------------------
(* Once the program has settled.                                            *)

(* A pass the program makes.                                                *)
Known(s) ==
  \/ \E i \in 1 .. 3 : s = CollectPasses[i]
  \/ \E i \in 1 .. 2 : s = TargetPasses[i]
  \/ \E i \in 1 .. 8 : s = BoidsSystem[i]
  \/ s = BoidMoveSystem[1]
  \/ s = Local2XSystem[1]

(* What follows is about the passes made when n were over and there was an  *)
(* archetype of boids: those n are a thing of the past, and were made, some *)
(* of them, before there was one.                                           *)
Live(n) == n + 1 .. Len(shape)

(* The passes of BoidsSystem are made together, and so are the two of the   *)
(* targets.                                                                 *)
WholeAt(n, ss, p) ==
  /\ Known(ss[p])
  /\ \A i \in 1 .. 8 : ss[p] = BoidsSystem[i] =>
       \A j \in 1 .. 8 : p - i + j \in n + 1 .. Len(ss) /\ ss[p - i + j] = BoidsSystem[j]
  /\ ss[p] = TargetPasses[1] => p + 1 \in n + 1 .. Len(ss) /\ ss[p + 1] = TargetPasses[2]

Whole(n, ss) == \A p \in n + 1 .. Len(ss) : WholeAt(n, ss, p)

Started(p) == phase[p] \in {"begun", "over"}

(* What EcsSchedule promises of the passes that began.                      *)
InOrder ==
  \A q \in Made : Started(q) =>
    \A p \in 1 .. q - 1 : Conflict(shape[p], shape[q]) => Schedule!Over(p)

BaseInv == FiledInv /\ InOrder

(* The parts of the invariant that are about the order alone.               *)
Ordered(n) ==
  /\ PassesFiled /\ InOrder /\ spawned = TRUE
  /\ n <= Len(shape) /\ \A p \in 1 .. n : Schedule!Over(p)
  /\ Whole(n, shape)

(* The last pass of a frame but those that collect updates l2w, if it is    *)
(* to be updated at all.                                                    *)
FrameTail(n) ==
  LET k == Len(shape) - (IF pc = "collect" THEN 3 ELSE 0) IN
  /\ pc = "collect" /\ k >= n => \A i \in 1 .. 3 : shape[k + i] = CollectPasses[i]
  /\ enabled.l2w /\ k > n => shape[k] = Local2XSystem[1]

(* The last pass that needs the size of the vector p resizes: BoidMain, or  *)
(* CopyBackHeading for the new headings.                                    *)
LastUser(p) ==
  p + CASE shape[p].vector = "positions" -> 6
        [] shape[p].vector \in {"headings", "newHeadings"} -> 1
        [] OTHER -> 0

InUse(p) == phase[p] # "made" /\ ~Schedule!Over(LastUser(p))

BoidsFit(n) ==
  \A p \in Live(n) : shape[p].vector \in BoidVectors /\ InUse(p) =>
    size[shape[p].vector] = boids

TargetsFit(n) ==
  \A p \in Live(n) : shape[p].vector \in TargetVectors /\ phase[p] # "made" =>
    size[shape[p].vector] = Targets

TreesFit(n) ==
  \A p \in Live(n) : Schedule!Over(p) =>
    /\ shape[p] = BoidsSystem[2] /\ ~Schedule!Over(p + 5) => size["kdtree"] = boids
    /\ shape[p] = BoidsSystem[5] => size["targetTree"] = Targets

Fitting(n) == BoidsFit(n) /\ TargetsFit(n) /\ TreesFit(n)

SInv(n) == Ordered(n) /\ FrameTail(n) /\ Fitting(n)

(* What holds from the moment the program has settled: the passes made till *)
(* then are over, and those made since are in order and find what they use  *)
(* as large as it should be.                                                *)
Settling == \E n \in Nat : SInv(n)

IInv == BaseInv /\ (settled => Settling)
-----------------------------------------------------------------------------
(* What the passes are, once there are boids.                               *)

LEMMA VectorsOf ==
  /\ CollectPasses[1].vector = "target_worlds"
  /\ CollectPasses[2].vector = "worlds" /\ CollectPasses[3].vector = "ids"
  /\ TargetPasses[1].vector = "none" /\ TargetPasses[2].vector = "none"
  /\ BoidsSystem[1].vector = "positions" /\ BoidsSystem[2].vector = "none"
  /\ BoidsSystem[3].vector = "targets" /\ BoidsSystem[4].vector = "targetEntities"
  /\ BoidsSystem[5].vector = "none" /\ BoidsSystem[6].vector = "headings"
  /\ BoidsSystem[7].vector = "newHeadings" /\ BoidsSystem[8].vector = "none"
  /\ BoidMoveSystem[1].vector = "none" /\ Local2XSystem[1].vector = "none"
BY DEF CollectPasses, TargetPasses, BoidsSystem, BoidMoveSystem, Local2XSystem, Pass

LEMMA NamesOf ==
  /\ CollectPasses[1].name = "CollectTargets"
  /\ CollectPasses[2].name = "CollectWorlds" /\ CollectPasses[3].name = "CollectIds"
  /\ TargetPasses[1].name = "RandomTarget" /\ TargetPasses[2].name = "MoveToward"
  /\ BoidsSystem[1].name = "CopyPosition" /\ BoidsSystem[2].name = "BoidKdTree"
  /\ BoidsSystem[3].name = "CopyTargetPosition"
  /\ BoidsSystem[4].name = "CopyTargetEntities"
  /\ BoidsSystem[5].name = "TargetKdTree" /\ BoidsSystem[6].name = "CopyHeading"
  /\ BoidsSystem[7].name = "BoidMain" /\ BoidsSystem[8].name = "CopyBackHeading"
  /\ BoidMoveSystem[1].name = "BoidMove" /\ Local2XSystem[1].name = "LocalToWorld"
BY DEF CollectPasses, TargetPasses, BoidsSystem, BoidMoveSystem, Local2XSystem, Pass

(* The passes are told apart by their names.                                *)
LEMMA Distinct ==
  /\ \A i, j \in 1 .. 8 : BoidsSystem[i] = BoidsSystem[j] => i = j
  /\ \A i \in 1 .. 8 :
       /\ \A j \in 1 .. 3 : BoidsSystem[i] # CollectPasses[j]
       /\ \A j \in 1 .. 2 : BoidsSystem[i] # TargetPasses[j]
       /\ BoidsSystem[i] # BoidMoveSystem[1] /\ BoidsSystem[i] # Local2XSystem[1]
  /\ TargetPasses[1] # TargetPasses[2] /\ TargetPasses[1] # Local2XSystem[1]
  /\ \A j \in 1 .. 3 : TargetPasses[1] # CollectPasses[j]
  /\ TargetPasses[1] # BoidMoveSystem[1]
BY NamesOf

LEMMA KnownByVector ==
  ASSUME NEW s, Known(s)
  PROVE  /\ s.vector \in BoidVectors =>
              \/ s = BoidsSystem[1] /\ s.vector = "positions"
              \/ s = BoidsSystem[6] /\ s.vector = "headings"
              \/ s = BoidsSystem[7] /\ s.vector = "newHeadings"
              \/ s = CollectPasses[2] /\ s.vector = "worlds"
              \/ s = CollectPasses[3] /\ s.vector = "ids"
         /\ s.vector \in TargetVectors =>
              s = BoidsSystem[3] \/ s = BoidsSystem[4] \/ s = CollectPasses[1]
BY VectorsOf DEF Known, BoidVectors, TargetVectors

LEMMA KnownByName ==
  ASSUME NEW s, Known(s)
  PROVE  /\ s.name = "BoidKdTree" <=> s = BoidsSystem[2]
         /\ s.name = "TargetKdTree" <=> s = BoidsSystem[5]
BY NamesOf DEF Known

(* The number of entities of the kind the vector has an element for.        *)
LEMMA KnownSize ==
  ASSUME spawned = TRUE, NEW s, Known(s)
  PROVE  /\ s.vector \in BoidVectors => CalcSize(s) = boids
         /\ s.vector \in TargetVectors => CalcSize(s) = Targets
<1>1. /\ BoidsSystem[1].of = "boids" /\ BoidsSystem[6].of = "boids"
      /\ BoidsSystem[7].of = "boids"
      /\ CollectPasses[2].of = "boids" /\ CollectPasses[3].of = "boids"
  BY DEF CollectPasses, BoidsSystem, Pass
<1>2. /\ BoidsSystem[3].of = "targets" /\ BoidsSystem[4].of = "targets"
      /\ CollectPasses[1].of = "targets"
  BY DEF CollectPasses, BoidsSystem, Pass
<1> QED BY <1>1, <1>2, KnownByVector DEF CalcSize

(* The passes that use a vector: the ones that fill it, build a tree of it, *)
(* or read it.                                                              *)
LEMMA KnownUses ==
  ASSUME spawned = TRUE
  PROVE  /\ Uses(CollectPasses[1]) = {"target_worlds"}
         /\ Uses(CollectPasses[2]) = {"worlds"} /\ Uses(CollectPasses[3]) = {"ids"}
         /\ Uses(TargetPasses[1]) = {} /\ Uses(TargetPasses[2]) = {}
         /\ Uses(BoidsSystem[1]) = {"positions"}
         /\ Uses(BoidsSystem[2]) = {"positions", "kdtree"}
         /\ Uses(BoidsSystem[3]) = {"targets"}
         /\ Uses(BoidsSystem[4]) = {"targetEntities"}
         /\ Uses(BoidsSystem[5]) = {"targets", "targetTree"}
         /\ Uses(BoidsSystem[6]) = {"headings"}
         /\ Uses(BoidsSystem[7]) =
              {"kdtree", "headings", "targetTree", "targetEntities", "newHeadings"}
         /\ Uses(BoidsSystem[8]) = {"newHeadings"}
         /\ Uses(BoidMoveSystem[1]) = {} /\ Uses(Local2XSystem[1]) = {}
<1> USE DEF Uses, Touched, Pass, OfBoids, Vectors, BoidVectors, TargetVectors
<1>1. /\ Uses(CollectPasses[1]) = {"target_worlds"}
      /\ Uses(CollectPasses[2]) = {"worlds"} /\ Uses(CollectPasses[3]) = {"ids"}
  BY DEF CollectPasses
<1>2. Uses(TargetPasses[1]) = {} /\ Uses(TargetPasses[2]) = {}
  BY DEF TargetPasses
<1>3. /\ Uses(BoidsSystem[1]) = {"positions"}
      /\ Uses(BoidsSystem[2]) = {"positions", "kdtree"}
      /\ Uses(BoidsSystem[3]) = {"targets"}
      /\ Uses(BoidsSystem[4]) = {"targetEntities"}
  BY DEF BoidsSystem
<1>4. /\ Uses(BoidsSystem[5]) = {"targets", "targetTree"}
      /\ Uses(BoidsSystem[6]) = {"headings"}
  BY DEF BoidsSystem
<1>5. Uses(BoidsSystem[7]) =
        {"kdtree", "headings", "targetTree", "targetEntities", "newHeadings"}
  BY DEF BoidsSystem
<1>6. Uses(BoidsSystem[8]) = {"newHeadings"}
  BY DEF BoidsSystem
<1>7. Uses(BoidMoveSystem[1]) = {} /\ Uses(Local2XSystem[1]) = {}
  BY DEF BoidMoveSystem, Local2XSystem
<1> QED BY <1>1, <1>2, <1>3, <1>4, <1>5, <1>6, <1>7

(* What the passes of BoidsSystem wait for, one after the other.            *)
LEMMA SystemConflicts ==
  ASSUME spawned = TRUE
  PROVE  /\ Conflict(BoidsSystem[1], BoidsSystem[2])
         /\ Conflict(BoidsSystem[2], BoidsSystem[7])
         /\ Conflict(BoidsSystem[3], BoidsSystem[5])
         /\ Conflict(BoidsSystem[4], BoidsSystem[7])
         /\ Conflict(BoidsSystem[5], BoidsSystem[7])
         /\ Conflict(BoidsSystem[6], BoidsSystem[7])
         /\ Conflict(BoidsSystem[7], BoidsSystem[8])
<1>1. /\ "positions" \in BoidsSystem[1].writes /\ "positions" \in BoidsSystem[2].reads
      /\ "kdtree" \in BoidsSystem[2].writes /\ "kdtree" \in BoidsSystem[7].reads
      /\ "targets" \in BoidsSystem[3].writes /\ "targets" \in BoidsSystem[5].reads
      /\ "targetEntities" \in BoidsSystem[4].writes
      /\ "targetEntities" \in BoidsSystem[7].reads
      /\ "targetTree" \in BoidsSystem[5].writes /\ "targetTree" \in BoidsSystem[7].reads
      /\ "headings" \in BoidsSystem[6].writes /\ "headings" \in BoidsSystem[7].reads
      /\ "newHeadings" \in BoidsSystem[7].writes /\ "newHeadings" \in BoidsSystem[8].reads
  BY DEF BoidsSystem, Pass
<1> QED BY <1>1 DEF Conflict, Touched

(* What LocalToWorld waits for, and CollectTargets for LocalToWorld.        *)
LEMMA FrameConflicts ==
  ASSUME spawned = TRUE
  PROVE  /\ Conflict(TargetPasses[1], TargetPasses[2])
         /\ Conflict(TargetPasses[2], Local2XSystem[1])
         /\ Conflict(BoidsSystem[8], Local2XSystem[1])
         /\ Conflict(BoidMoveSystem[1], Local2XSystem[1])
         /\ Conflict(Local2XSystem[1], Local2XSystem[1])
         /\ Conflict(Local2XSystem[1], CollectPasses[1])
<1>1. /\ "moveToward" \in TargetPasses[1].writes /\ "moveToward" \in TargetPasses[2].reads
      /\ "translation" \in TargetPasses[2].writes
      /\ "translation" \in Local2XSystem[1].reads
      /\ "boid heading" \in BoidsSystem[8].writes
      /\ "boid heading" \in Local2XSystem[1].reads
      /\ "boid translation" \in BoidMoveSystem[1].writes
      /\ "boid translation" \in Local2XSystem[1].reads
      /\ "l2w" \in Local2XSystem[1].writes /\ "l2w" \in CollectPasses[1].reads
  BY DEF TargetPasses, BoidsSystem, BoidMoveSystem, Local2XSystem, CollectPasses, Pass, OfBoids
<1> QED BY <1>1 DEF Conflict, Touched

(* The passes a change of the number of boids waits for.                    *)
LEMMA Archetype ==
  ASSUME spawned = TRUE, NEW p \in Made,
         \/ shape[p] \in {CollectPasses[2], CollectPasses[3]}
         \/ shape[p] \in {BoidsSystem[7], BoidsSystem[8]}
  PROVE  p \in OfArchetype
<1>1. /\ "boid l2w" \in CollectPasses[2].reads /\ "boid debug" \in CollectPasses[3].reads
      /\ "boid heading" \in BoidsSystem[7].reads
      /\ "boid heading" \in BoidsSystem[8].writes
  BY DEF BoidsSystem, CollectPasses, Pass, OfBoids
<1> QED BY <1>1 DEF OfArchetype, Touched, OfBoids

(* These are the same passes from the first spawn on.                       *)
LEMMA SamePasses ==
  ASSUME spawned = TRUE, spawned' = TRUE
  PROVE  /\ CollectPasses' = CollectPasses /\ TargetPasses' = TargetPasses
         /\ BoidsSystem' = BoidsSystem /\ BoidMoveSystem' = BoidMoveSystem
         /\ Local2XSystem' = Local2XSystem
<1>1. \A C : OfBoids(C)' = OfBoids(C)
  BY DEF OfBoids
<1> QED
  BY <1>1
     DEF CollectPasses, TargetPasses, BoidsSystem, BoidMoveSystem, Local2XSystem, Pass, OfBoids
-----------------------------------------------------------------------------
(* The order of the passes.                                                 *)

LEMMA WholeConcat ==
  ASSUME NEW n \in Nat, NEW S, NEW s \in Seq(S), NEW t \in Seq(S), n <= Len(s),
         Whole(n, s), Whole(0, t)
  PROVE  Whole(n, s \o t)
<1>0. /\ s \o t \in Seq(S) /\ Len(s \o t) = Len(s) + Len(t)
      /\ Len(s) \in Nat /\ Len(t) \in Nat
      /\ \A p \in 1 .. Len(s) : (s \o t)[p] = s[p]
      /\ \A p \in Len(s) + 1 .. Len(s) + Len(t) :
           p - Len(s) \in 1 .. Len(t) /\ (s \o t)[p] = t[p - Len(s)]
  BY ConcatAt
<1> SUFFICES ASSUME NEW p \in n + 1 .. Len(s) + Len(t) PROVE WholeAt(n, s \o t, p)
  BY <1>0 DEF Whole
<1>1. ASSUME Known((s \o t)[p]),
             \A i \in 1 .. 8 : (s \o t)[p] = BoidsSystem[i] =>
               \A j \in 1 .. 8 : /\ p - i + j \in n + 1 .. Len(s) + Len(t)
                                 /\ (s \o t)[p - i + j] = BoidsSystem[j],
             (s \o t)[p] = TargetPasses[1] =>
               p + 1 \in n + 1 .. Len(s) + Len(t) /\ (s \o t)[p + 1] = TargetPasses[2]
      PROVE  WholeAt(n, s \o t, p)
  BY <1>0, <1>1 DEF WholeAt
<1>2. CASE p <= Len(s)
  <2>1. p \in n + 1 .. Len(s) /\ (s \o t)[p] = s[p]
    BY <1>0, <1>2
  <2>2. WholeAt(n, s, p)
    BY <2>1 DEF Whole
  <2>3. ASSUME NEW i \in 1 .. 8, s[p] = BoidsSystem[i], NEW j \in 1 .. 8
        PROVE  /\ p - i + j \in n + 1 .. Len(s) + Len(t)
               /\ (s \o t)[p - i + j] = BoidsSystem[j]
    <3>1. p - i + j \in n + 1 .. Len(s) /\ s[p - i + j] = BoidsSystem[j]
      BY <2>2, <2>3 DEF WholeAt
    <3> QED BY <3>1, <1>0
  <2>4. ASSUME s[p] = TargetPasses[1]
        PROVE  p + 1 \in n + 1 .. Len(s) + Len(t) /\ (s \o t)[p + 1] = TargetPasses[2]
    <3>1. p + 1 \in n + 1 .. Len(s) /\ s[p + 1] = TargetPasses[2]
      BY <2>2, <2>4 DEF WholeAt
    <3> QED BY <3>1, <1>0
  <2>5. Known((s \o t)[p])
    BY <2>1, <2>2 DEF WholeAt
  <2> QED BY <2>1, <2>3, <2>4, <2>5, <1>1
<1>3. CASE p > Len(s)
  <2> DEFINE r == p - Len(s)
  <2>1. r \in 1 .. Len(t) /\ (s \o t)[p] = t[r] /\ p = Len(s) + r
    BY <1>0, <1>3
  <2>2. WholeAt(0, t, r)
    BY <2>1 DEF Whole
  <2>3. ASSUME NEW i \in 1 .. 8, t[r] = BoidsSystem[i], NEW j \in 1 .. 8
        PROVE  /\ p - i + j \in n + 1 .. Len(s) + Len(t)
               /\ (s \o t)[p - i + j] = BoidsSystem[j]
    <3>1. r - i + j \in 0 + 1 .. Len(t) /\ t[r - i + j] = BoidsSystem[j]
      BY <2>2, <2>3, Zenon DEF WholeAt
    <3> DEFINE u == r - i + j
               v == p - i + j
    <3>2. u \in 1 .. Len(t) /\ t[u] = BoidsSystem[j]
      BY <3>1
    <3>3. v = Len(s) + u
      <4>1. i \in Int /\ j \in Int /\ r \in Int /\ Len(s) \in Int /\ p = Len(s) + r
        BY <2>1, <1>0
      <4> HIDE DEF r
      <4> QED BY <4>1
    <3> HIDE DEF u, v
    <3>4. v \in Len(s) + 1 .. Len(s) + Len(t) /\ v - Len(s) = u
      BY <3>2, <3>3, <1>0
    <3>5. (s \o t)[v] = t[u]
      BY <3>4, <1>0
    <3>6. v \in n + 1 .. Len(s) + Len(t)
      BY <3>4, <1>0
    <3> QED BY <3>2, <3>5, <3>6 DEF v
  <2>4. ASSUME t[r] = TargetPasses[1]
        PROVE  p + 1 \in n + 1 .. Len(s) + Len(t) /\ (s \o t)[p + 1] = TargetPasses[2]
    <3>1. r + 1 \in 1 .. Len(t) /\ t[r + 1] = TargetPasses[2]
      BY <2>2, <2>4 DEF WholeAt
    <3>2. p + 1 \in Len(s) + 1 .. Len(s) + Len(t) /\ p + 1 - Len(s) = r + 1
      BY <3>1, <2>1, <1>0
    <3> QED BY <3>1, <3>2, <1>0
  <2>5. Known((s \o t)[p])
    BY <2>1, <2>2 DEF WholeAt
  <2> QED BY <2>1, <2>3, <2>4, <2>5, <1>1
<1> QED BY <1>0, <1>2, <1>3

LEMMA WholeCollect == Whole(0, CollectPasses)
<1>1. Len(CollectPasses) = 3
  BY CollectFiled
<1> QED BY <1>1, Distinct DEF Whole, WholeAt, Known

LEMMA WholeTargets == Whole(0, TargetPasses)
<1>1. Len(TargetPasses) = 2
  BY TargetsFiled
<1> QED BY <1>1, Distinct DEF Whole, WholeAt, Known

LEMMA WholeSystem == Whole(0, BoidsSystem)
<1>1. Len(BoidsSystem) = 8
  BY BoidsFiled
<1> QED BY <1>1, Distinct DEF Whole, WholeAt, Known

LEMMA WholeMove == Whole(0, BoidMoveSystem)
<1>1. Len(BoidMoveSystem) = 1
  BY MoveFiled
<1> QED BY <1>1, Distinct DEF Whole, WholeAt, Known

LEMMA WholeLocal2X == Whole(0, Local2XSystem)
<1>1. Len(Local2XSystem) = 1
  BY Local2XFiled
<1> QED BY <1>1, Distinct DEF Whole, WholeAt, Known

(* The passes of a frame, and the last of them.                             *)
LEMMA LoopWhole ==
  ASSUME NEW on
  PROVE  /\ Whole(0, BoidMainLoop(on))
         /\ on.l2w => BoidMainLoop(on)[Len(BoidMainLoop(on))] = Local2XSystem[1]
         /\ Len(BoidMainLoop(on)) >= 2
<1> DEFINE a == IF on.boids THEN BoidsSystem ELSE <<>>
           b == IF on.move THEN BoidMoveSystem ELSE <<>>
           c == IF on.l2w THEN Local2XSystem ELSE <<>>
<1>1. a \in Seq(FiledLoop) /\ b \in Seq(FiledLoop) /\ c \in Seq(FiledLoop)
  BY BoidsFiled, MoveFiled, Local2XFiled
<1>2. Whole(0, <<>>)
  BY DEF Whole
<1>3. Whole(0, a) /\ Whole(0, b) /\ Whole(0, c)
  BY <1>2, WholeSystem, WholeMove, WholeLocal2X
<1>4. on.l2w => c = Local2XSystem
  OBVIOUS
<1>5. BoidMainLoop(on) = ((TargetPasses \o a) \o b) \o c
  BY DEF BoidMainLoop
<1> HIDE DEF a, b, c
<1>6. ASSUME NEW s \in Seq(FiledLoop), NEW t \in Seq(FiledLoop),
             Whole(0, s), Whole(0, t), Len(s) >= 2
      PROVE  s \o t \in Seq(FiledLoop) /\ Whole(0, s \o t) /\ Len(s \o t) >= 2
  <2>1. 0 \in Nat /\ 0 <= Len(s)
    BY <1>6
  <2> QED BY <1>6, <2>1, WholeConcat, ConcatAt
<1>7. TargetPasses \in Seq(FiledLoop) /\ Whole(0, TargetPasses) /\ Len(TargetPasses) >= 2
  BY TargetsFiled, WholeTargets
<1> DEFINE d == TargetPasses \o a
           e == d \o b
<1>8. d \in Seq(FiledLoop) /\ Whole(0, d) /\ Len(d) >= 2
  BY <1>1, <1>3, <1>6, <1>7
<1>9. BoidMainLoop(on) = e \o c
  BY <1>5
<1> HIDE DEF d
<1>10. e \in Seq(FiledLoop) /\ Whole(0, e) /\ Len(e) >= 2
  BY <1>1, <1>3, <1>6, <1>8
<1> HIDE DEF e
<1>11. Whole(0, BoidMainLoop(on)) /\ Len(BoidMainLoop(on)) >= 2
  BY <1>1, <1>3, <1>6, <1>9, <1>10
<1>12. ASSUME on.l2w PROVE BoidMainLoop(on)[Len(BoidMainLoop(on))] = Local2XSystem[1]
  <2>1. c \in Seq(FiledLoop) /\ Len(c) = 1 /\ c[1] = Local2XSystem[1]
    BY <1>4, <1>12, Local2XFiled
  <2>2. Len(e \o c) = Len(e) + 1 /\ (e \o c)[Len(e) + 1] = c[1]
    <3>1. /\ Len(e) \in Nat /\ Len(e \o c) = Len(e) + 1
          /\ \A p \in Len(e) + 1 .. Len(e) + 1 : (e \o c)[p] = c[p - Len(e)]
      <4>1. e \in Seq(FiledLoop) /\ c \in Seq(FiledLoop)
        BY <1>10, <2>1
      <4> QED BY <2>1, <4>1, ConcatAt
    <3>2. Len(e) + 1 \in Len(e) + 1 .. Len(e) + 1 /\ (Len(e) + 1) - Len(e) = 1
      BY <3>1
    <3> QED BY <3>1, <3>2
  <2> QED BY <1>9, <2>1, <2>2
<1> QED BY <1>11, <1>12

LEMMA OrderedType ==
  ASSUME PassesFiled
  PROVE  /\ Len(shape) \in Nat /\ shape \in Seq(Filed) /\ Made = 1 .. Len(shape)
         /\ Made \subseteq Schedule!Pass
         /\ \A p \in Made : p \in Nat /\ p # 0 /\ shape[p] \in Filed
BY CountAssumption DEF PassesFiled, Made, Schedule!Made, Schedule!Pass

LEMMA LiveType ==
  ASSUME NEW n \in Nat, PassesFiled
  PROVE  /\ Len(shape) \in Nat /\ shape \in Seq(Filed) /\ Live(n) = n + 1 .. Len(shape)
         /\ Live(n) \subseteq Made
         /\ \A p \in Live(n) : p \in Nat /\ p # 0 /\ n < p /\ shape[p] \in Filed
BY OrderedType DEF Live

(* BoidsSystem around one of its passes.                                    *)
LEMMA SystemAt ==
  ASSUME NEW n \in Nat, PassesFiled, Whole(n, shape), NEW i \in 1 .. 8, NEW p \in Live(n),
         shape[p] = BoidsSystem[i], NEW j \in 1 .. 8
  PROVE  p - i + j \in Live(n) /\ shape[p - i + j] = BoidsSystem[j]
<1>1. WholeAt(n, shape, p)
  BY LiveType DEF Whole
<1> QED BY <1>1, LiveType DEF WholeAt

(* A pass that runs is none of those that were over.                        *)
LEMMA RunningLive ==
  ASSUME NEW n \in Nat, Ordered(n), NEW p \in Made, Running(p)
  PROVE  p \in Live(n)
BY OrderedType DEF Ordered, Live, Running, Schedule!Over

LEMMA KnownAt ==
  ASSUME NEW n \in Nat, PassesFiled, Whole(n, shape), NEW p \in Live(n)
  PROVE  Known(shape[p])
BY LiveType DEF Whole, WholeAt

LEMMA Before ==
  ASSUME NEW n \in Nat, Ordered(n), NEW q \in Live(n), Started(q), NEW p \in Live(n), p < q,
         Conflict(shape[p], shape[q])
  PROVE  Schedule!Over(p)
<1>1. PassesFiled /\ InOrder
  BY DEF Ordered
<1>2. p \in Nat /\ q \in Nat /\ p # 0 /\ q \in Made
  BY <1>1, LiveType
<1>3. p \in 1 .. q - 1
  BY <1>2
<1> QED BY <1>1, <1>2, <1>3 DEF InOrder

(* What is over when the passes of BoidsSystem begin.                       *)
LEMMA TreesAfter ==
  ASSUME NEW n \in Nat, Ordered(n), NEW p \in Live(n), Started(p)
  PROVE  /\ shape[p] = BoidsSystem[2] => Schedule!Over(p - 1)
         /\ shape[p] = BoidsSystem[5] => Schedule!Over(p - 2)
<1>0. p \in Nat
  BY LiveType DEF Ordered
<1>1. ASSUME shape[p] = BoidsSystem[2] PROVE Schedule!Over(p - 1)
  <2>0. 2 \in 1 .. 8 /\ 1 \in 1 .. 8 /\ PassesFiled /\ Whole(n, shape)
    BY DEF Ordered
  <2>1. p - 2 + 1 \in Live(n) /\ shape[p - 2 + 1] = BoidsSystem[1]
    BY <1>1, <2>0, SystemAt, Zenon
  <2>2. p - 1 \in Live(n) /\ shape[p - 1] = BoidsSystem[1] /\ p - 1 < p
    BY <2>1, <1>0
  <2>3. Conflict(shape[p - 1], shape[p])
    BY <1>1, <2>2, SystemConflicts DEF Ordered
  <2> QED BY <2>2, <2>3, Before
<1>2. ASSUME shape[p] = BoidsSystem[5] PROVE Schedule!Over(p - 2)
  <2>0. 5 \in 1 .. 8 /\ 3 \in 1 .. 8 /\ PassesFiled /\ Whole(n, shape)
    BY DEF Ordered
  <2>1. p - 5 + 3 \in Live(n) /\ shape[p - 5 + 3] = BoidsSystem[3]
    BY <1>2, <2>0, SystemAt, Zenon
  <2>2. p - 2 \in Live(n) /\ shape[p - 2] = BoidsSystem[3] /\ p - 2 < p
    BY <2>1, <1>0
  <2>3. Conflict(shape[p - 2], shape[p])
    BY <1>2, <2>2, SystemConflicts DEF Ordered
  <2> QED BY <2>2, <2>3, Before
<1> QED BY <1>1, <1>2

LEMMA MainAfter ==
  ASSUME NEW n \in Nat, Ordered(n), NEW p \in Live(n), Started(p), shape[p] = BoidsSystem[7]
  PROVE  \A j \in 1 .. 6 : Schedule!Over(p - 7 + j)
<1>0. p \in Nat
  BY LiveType DEF Ordered
<1>1. ASSUME NEW j \in 1 .. 7 PROVE p - 7 + j \in Live(n) /\ shape[p - 7 + j] = BoidsSystem[j]
  <2>1. 7 \in 1 .. 8 /\ j \in 1 .. 8 /\ PassesFiled /\ Whole(n, shape)
    BY DEF Ordered
  <2> QED BY <2>1, SystemAt, Zenon
<1>2. ASSUME NEW j \in {2, 4, 5, 6} PROVE Schedule!Over(p - 7 + j)
  <2>1. p - 7 + j \in Live(n) /\ shape[p - 7 + j] = BoidsSystem[j] /\ p - 7 + j < p
    BY <1>0, <1>1
  <2>2. Conflict(shape[p - 7 + j], shape[p])
    BY <2>1, SystemConflicts DEF Ordered
  <2> QED BY <2>1, <2>2, Before
<1>3. Schedule!Over(p - 7 + 1)
  <2>1. p - 7 + 2 \in Live(n) /\ shape[p - 7 + 2] = BoidsSystem[2] /\ Started(p - 7 + 2)
    BY <1>1, <1>2 DEF Started, Schedule!Over
  <2>2. Schedule!Over((p - 7 + 2) - 1)
    BY <2>1, TreesAfter
  <2> QED BY <2>2, <1>0
<1>4. Schedule!Over(p - 7 + 3)
  <2>1. p - 7 + 5 \in Live(n) /\ shape[p - 7 + 5] = BoidsSystem[5] /\ Started(p - 7 + 5)
    BY <1>1, <1>2 DEF Started, Schedule!Over
  <2>2. Schedule!Over((p - 7 + 5) - 2)
    BY <2>1, TreesAfter
  <2> QED BY <2>2, <1>0
<1> QED BY <1>2, <1>3, <1>4

LEMMA BackAfter ==
  ASSUME NEW n \in Nat, Ordered(n), NEW p \in Live(n), Started(p), shape[p] = BoidsSystem[8]
  PROVE  \A j \in 1 .. 7 : Schedule!Over(p - 8 + j)
<1>0. p \in Nat
  BY LiveType DEF Ordered
<1>1. p - 8 + 7 \in Live(n) /\ shape[p - 8 + 7] = BoidsSystem[7]
  <2>1. 8 \in 1 .. 8 /\ 7 \in 1 .. 8 /\ PassesFiled /\ Whole(n, shape)
    BY DEF Ordered
  <2> QED BY <2>1, SystemAt, Zenon
<1>2. p - 1 \in Live(n) /\ shape[p - 1] = BoidsSystem[7] /\ p - 1 < p
  BY <1>0, <1>1
<1>3. Conflict(shape[p - 1], shape[p])
  BY <1>2, SystemConflicts DEF Ordered
<1>4. Schedule!Over(p - 1)
  BY <1>2, <1>3, Before
<1>5. Started(p - 1)
  BY <1>4 DEF Started, Schedule!Over
<1>6. \A j \in 1 .. 6 : Schedule!Over((p - 1) - 7 + j)
  BY <1>2, <1>5, MainAfter
<1>7. ASSUME NEW j \in 1 .. 7 PROVE Schedule!Over(p - 8 + j)
  <2>1. CASE j = 7
    BY <2>1, <1>0, <1>4
  <2>2. CASE j # 7
    <3>1. j \in 1 .. 6 /\ (p - 1) - 7 + j = p - 8 + j
      BY <1>0, <2>2
    <3> QED BY <3>1, <1>6
  <2> QED BY <2>1, <2>2
<1> QED BY <1>7

(* When the last LocalToWorld is over, so is everything made before it but  *)
(* what is collected.                                                       *)
LEMMA Local2XAfter ==
  ASSUME NEW n \in Nat, Ordered(n), NEW r \in Live(n), Started(r), shape[r] = Local2XSystem[1],
         NEW p \in Live(n), p < r, shape[p].vector \notin CollectVectors
  PROVE  Schedule!Over(p)
<1>0. p \in Nat /\ r \in Nat
  BY LiveType DEF Ordered
<1>1. Known(shape[p])
  BY KnownAt DEF Ordered
<1>2. \A i \in 1 .. 3 : shape[p] # CollectPasses[i]
  BY VectorsOf DEF CollectVectors
<1>3. CASE shape[p] \in {TargetPasses[2], BoidMoveSystem[1], Local2XSystem[1]}
  <2>1. Conflict(shape[p], shape[r])
    BY <1>3, FrameConflicts DEF Ordered
  <2> QED BY <2>1, Before
<1>4. CASE shape[p] = TargetPasses[1]
  <2>1. WholeAt(n, shape, p)
    BY LiveType DEF Whole, Ordered
  <2>2. p + 1 \in Live(n) /\ shape[p + 1] = TargetPasses[2]
    BY <1>4, <2>1, LiveType DEF WholeAt, Ordered
  <2>3. p + 1 < r
    BY <1>0, <2>2, NamesOf
  <2>4. Schedule!Over(p + 1)
    <3>1. Conflict(shape[p + 1], shape[r])
      BY <2>2, FrameConflicts DEF Ordered
    <3> QED BY <2>2, <2>3, <3>1, Before
  <2>5. Conflict(shape[p], shape[p + 1])
    BY <1>4, <2>2, FrameConflicts DEF Ordered
  <2>6. Started(p + 1) /\ p < p + 1
    BY <1>0, <2>4 DEF Started, Schedule!Over
  <2> QED BY <2>2, <2>5, <2>6, Before
<1>5. ASSUME NEW i \in 1 .. 8, shape[p] = BoidsSystem[i] PROVE Schedule!Over(p)
  <2> DEFINE b == p - i + 8
  <2>1. ASSUME NEW j \in 1 .. 8 PROVE p - i + j \in Live(n) /\ shape[p - i + j] = BoidsSystem[j]
    BY <1>5, SystemAt DEF Ordered
  <2>2. \A j \in 1 .. 8 : p - i + j # r
    BY <2>1, Distinct
  <2>3. b < r
    BY <2>2, <1>0
  <2>4. b \in Live(n) /\ shape[b] = BoidsSystem[8]
    BY <2>1
  <2>5. Conflict(shape[b], shape[r])
    BY <2>4, FrameConflicts DEF Ordered
  <2>6. Schedule!Over(b) /\ Started(b)
    BY <2>3, <2>4, <2>5, Before DEF Started, Schedule!Over
  <2>7. \A j \in 1 .. 7 : Schedule!Over(b - 8 + j)
    BY <2>4, <2>6, BackAfter
  <2>8. CASE i = 8
    BY <2>6, <2>8, <1>0
  <2>9. CASE i # 8
    <3>1. i \in 1 .. 7 /\ b - 8 + i = p
      BY <2>9, <1>0
    <3> QED BY <2>7, <3>1
  <2> QED BY <2>8, <2>9
<1> QED BY <1>1, <1>2, <1>3, <1>4, <1>5 DEF Known
-----------------------------------------------------------------------------
(* The sizes of the vectors.                                                *)

LEMMA LastUserOf ==
  ASSUME NEW n \in Nat, PassesFiled, Whole(n, shape), NEW p \in Live(n),
         shape[p].vector \in BoidVectors
  PROVE  /\ LastUser(p) \in Live(n)
         /\ \/ shape[p] = BoidsSystem[1] /\ LastUser(p) = p + 6
               /\ shape[LastUser(p)] = BoidsSystem[7]
            \/ shape[p] = BoidsSystem[6] /\ LastUser(p) = p + 1
               /\ shape[LastUser(p)] = BoidsSystem[7]
            \/ shape[p] = BoidsSystem[7] /\ LastUser(p) = p + 1
               /\ shape[LastUser(p)] = BoidsSystem[8]
            \/ shape[p] \in {CollectPasses[2], CollectPasses[3]} /\ LastUser(p) = p
<1>0. p \in Nat /\ Known(shape[p])
  BY KnownAt, LiveType
<1>1. CASE shape[p] = BoidsSystem[1] /\ shape[p].vector = "positions"
  <2>1. LastUser(p) = p + 6
    BY <1>1 DEF LastUser
  <2>2. 1 \in 1 .. 8 /\ 7 \in 1 .. 8
    OBVIOUS
  <2>3. p - 1 + 7 \in Live(n) /\ shape[p - 1 + 7] = BoidsSystem[7]
    BY <1>1, <2>2, SystemAt, Zenon
  <2>4. p - 1 + 7 = p + 6
    BY <1>0
  <2> QED BY <1>1, <2>1, <2>3, <2>4
<1>2. CASE shape[p] = BoidsSystem[6] /\ shape[p].vector = "headings"
  <2>1. LastUser(p) = p + 1
    BY <1>2 DEF LastUser
  <2>2. 6 \in 1 .. 8 /\ 7 \in 1 .. 8
    OBVIOUS
  <2>3. p - 6 + 7 \in Live(n) /\ shape[p - 6 + 7] = BoidsSystem[7]
    BY <1>2, <2>2, SystemAt, Zenon
  <2>4. p - 6 + 7 = p + 1
    BY <1>0
  <2> QED BY <1>2, <2>1, <2>3, <2>4
<1>3. CASE shape[p] = BoidsSystem[7] /\ shape[p].vector = "newHeadings"
  <2>1. LastUser(p) = p + 1
    BY <1>3 DEF LastUser
  <2>2. 7 \in 1 .. 8 /\ 8 \in 1 .. 8
    OBVIOUS
  <2>3. p - 7 + 8 \in Live(n) /\ shape[p - 7 + 8] = BoidsSystem[8]
    BY <1>3, <2>2, SystemAt, Zenon
  <2>4. p - 7 + 8 = p + 1
    BY <1>0
  <2> QED BY <1>3, <2>1, <2>3, <2>4
<1>4. CASE \/ shape[p] = CollectPasses[2] /\ shape[p].vector = "worlds"
           \/ shape[p] = CollectPasses[3] /\ shape[p].vector = "ids"
  <2>1. LastUser(p) = p + 0
    BY <1>4 DEF LastUser
  <2> QED BY <1>0, <1>4, <2>1
<1> QED BY <1>0, <1>1, <1>2, <1>3, <1>4, KnownByVector

(* A pass that runs is not yet done with the vector it filled.              *)
LEMMA RunningInUse ==
  ASSUME NEW n \in Nat, Ordered(n), NEW p \in Live(n), Running(p), shape[p].vector \in BoidVectors
  PROVE  InUse(p)
<1>0. p \in Nat /\ phase[p] = "begun" /\ ~Schedule!Over(p)
  BY LiveType DEF Ordered, Running, Schedule!Over
<1>1. SUFFICES ASSUME Schedule!Over(LastUser(p)) PROVE FALSE
  BY <1>0 DEF InUse
<1>2. LastUser(p) \in Live(n) /\ Started(LastUser(p))
  BY <1>1, LastUserOf DEF Ordered, Started, Schedule!Over
<1>3. CASE shape[p] = BoidsSystem[1] /\ LastUser(p) = p + 6
           /\ shape[LastUser(p)] = BoidsSystem[7]
  <2>1. \A j \in 1 .. 6 : Schedule!Over(LastUser(p) - 7 + j)
    BY <1>2, <1>3, MainAfter
  <2>2. LastUser(p) - 7 + 1 = p
    BY <1>0, <1>3
  <2> QED BY <1>0, <2>1, <2>2
<1>4. CASE shape[p] = BoidsSystem[6] /\ LastUser(p) = p + 1
           /\ shape[LastUser(p)] = BoidsSystem[7]
  <2>1. \A j \in 1 .. 6 : Schedule!Over(LastUser(p) - 7 + j)
    BY <1>2, <1>4, MainAfter
  <2>2. LastUser(p) - 7 + 6 = p
    BY <1>0, <1>4
  <2> QED BY <1>0, <2>1, <2>2
<1>5. CASE shape[p] = BoidsSystem[7] /\ LastUser(p) = p + 1
           /\ shape[LastUser(p)] = BoidsSystem[8]
  <2>1. \A j \in 1 .. 7 : Schedule!Over(LastUser(p) - 8 + j)
    BY <1>2, <1>5, BackAfter
  <2>2. LastUser(p) - 8 + 7 = p
    BY <1>0, <1>5
  <2> QED BY <1>0, <2>1, <2>2
<1>6. CASE LastUser(p) = p
  BY <1>0, <1>1, <1>6
<1> QED BY <1>3, <1>4, <1>5, <1>6, LastUserOf DEF Ordered

(* The sizes BoidKdTree and TargetKdTree build their trees of.              *)
LEMMA TreeSource ==
  ASSUME NEW n \in Nat, Ordered(n), Fitting(n), NEW p \in Live(n), Running(p)
  PROVE  /\ shape[p] = BoidsSystem[2] => size["positions"] = boids
         /\ shape[p] = BoidsSystem[5] => size["targets"] = Targets
<1>0. p \in Nat /\ Started(p) /\ ~Schedule!Over(p) /\ PassesFiled /\ Whole(n, shape)
  BY LiveType DEF Ordered, Running, Started, Schedule!Over
<1>1. ASSUME shape[p] = BoidsSystem[2] PROVE size["positions"] = boids
  <2>0. 1 \in 1 .. 8 /\ 2 \in 1 .. 8 /\ 7 \in 1 .. 8
    OBVIOUS
  <2>1. p - 2 + 1 \in Live(n) /\ shape[p - 2 + 1] = BoidsSystem[1]
    BY <1>0, <1>1, <2>0, SystemAt, Zenon
  <2>2. p - 2 + 7 \in Live(n) /\ shape[p - 2 + 7] = BoidsSystem[7]
    BY <1>0, <1>1, <2>0, SystemAt, Zenon
  <2>3. /\ p - 1 \in Live(n) /\ shape[p - 1] = BoidsSystem[1]
        /\ p + 5 \in Live(n) /\ shape[p + 5] = BoidsSystem[7]
    BY <1>0, <2>1, <2>2
  <2>4. Schedule!Over(p - 1)
    BY <1>0, <1>1, TreesAfter
  <2>5. ~Schedule!Over(p + 5)
    <3>1. ASSUME Started(p + 5) PROVE FALSE
      <4>1. \A j \in 1 .. 6 : Schedule!Over((p + 5) - 7 + j)
        BY <2>3, <3>1, MainAfter
      <4>2. (p + 5) - 7 + 2 = p
        BY <1>0
      <4> QED BY <1>0, <4>1, <4>2
    <3> QED BY <3>1 DEF Started, Schedule!Over
  <2>6. shape[p - 1].vector = "positions"
    BY <2>3, VectorsOf
  <2>7. LastUser(p - 1) = p + 5
    BY <1>0, <2>6 DEF LastUser
  <2>8. InUse(p - 1)
    BY <2>4, <2>5, <2>7 DEF InUse, Schedule!Over
  <2> QED BY <2>3, <2>6, <2>8 DEF Fitting, BoidsFit, BoidVectors
<1>2. ASSUME shape[p] = BoidsSystem[5] PROVE size["targets"] = Targets
  <2>0. 3 \in 1 .. 8 /\ 5 \in 1 .. 8
    OBVIOUS
  <2>1. p - 5 + 3 \in Live(n) /\ shape[p - 5 + 3] = BoidsSystem[3]
    BY <1>0, <1>2, <2>0, SystemAt, Zenon
  <2>2. p - 2 \in Live(n) /\ shape[p - 2] = BoidsSystem[3]
    BY <1>0, <2>1
  <2>3. Schedule!Over(p - 2)
    BY <1>0, <1>2, TreesAfter
  <2>4. shape[p - 2].vector = "targets" /\ phase[p - 2] # "made"
    BY <2>2, <2>3, VectorsOf DEF Schedule!Over
  <2> QED BY <2>2, <2>4 DEF Fitting, TargetsFit, TargetVectors
<1> QED BY <1>1, <1>2

(* BoidMain finds one element for each entity in whatever it reads.         *)
LEMMA MainFits ==
  ASSUME NEW n \in Nat, Ordered(n), Fitting(n), NEW p \in Live(n), Running(p),
         shape[p] = BoidsSystem[7]
  PROVE  /\ size["kdtree"] = boids /\ size["headings"] = boids
         /\ size["newHeadings"] = boids
         /\ size["targetTree"] = Targets /\ size["targetEntities"] = Targets
<1>0. p \in Nat /\ Started(p) /\ ~Schedule!Over(p)
  BY LiveType DEF Ordered, Running, Started, Schedule!Over
<1>1. ASSUME NEW j \in 1 .. 7 PROVE p - 7 + j \in Live(n) /\ shape[p - 7 + j] = BoidsSystem[j]
  <2>1. 7 \in 1 .. 8 /\ j \in 1 .. 8 /\ PassesFiled /\ Whole(n, shape)
    BY DEF Ordered
  <2> QED BY <2>1, SystemAt, Zenon
<1>2. \A j \in 1 .. 6 : Schedule!Over(p - 7 + j)
  BY <1>0, MainAfter
<1>3. /\ p - 5 \in Live(n) /\ shape[p - 5] = BoidsSystem[2] /\ Schedule!Over(p - 5)
      /\ p - 3 \in Live(n) /\ shape[p - 3] = BoidsSystem[4] /\ Schedule!Over(p - 3)
      /\ p - 2 \in Live(n) /\ shape[p - 2] = BoidsSystem[5] /\ Schedule!Over(p - 2)
      /\ p - 1 \in Live(n) /\ shape[p - 1] = BoidsSystem[6] /\ Schedule!Over(p - 1)
  <2>1. p - 7 + 2 = p - 5 /\ p - 7 + 4 = p - 3 /\ p - 7 + 5 = p - 2 /\ p - 7 + 6 = p - 1
    BY <1>0
  <2>2. 2 \in 1 .. 6 /\ 4 \in 1 .. 6 /\ 5 \in 1 .. 6 /\ 6 \in 1 .. 6
    OBVIOUS
  <2>3. \A j \in 1 .. 6 : /\ p - 7 + j \in Live(n) /\ shape[p - 7 + j] = BoidsSystem[j]
                          /\ Schedule!Over(p - 7 + j)
    BY <1>1, <1>2
  <2> QED BY <2>1, <2>2, <2>3
<1>4. size["kdtree"] = boids /\ size["targetTree"] = Targets
  <2>1. (p - 5) + 5 = p
    BY <1>0
  <2> QED BY <1>0, <1>3, <2>1 DEF Fitting, TreesFit
<1>5. size["headings"] = boids
  <2>1. shape[p - 1].vector = "headings"
    BY <1>3, VectorsOf
  <2>2. LastUser(p - 1) = p
    BY <1>0, <2>1 DEF LastUser
  <2>3. InUse(p - 1)
    BY <1>0, <1>3, <2>2 DEF InUse, Schedule!Over
  <2> QED BY <1>3, <2>1, <2>3 DEF Fitting, BoidsFit, BoidVectors
<1>6. size["newHeadings"] = boids
  <2>1. shape[p].vector = "newHeadings" /\ "newHeadings" \in BoidVectors
    BY VectorsOf DEF BoidVectors
  <2> QED BY <2>1, RunningInUse DEF Fitting, BoidsFit
<1>7. size["targetEntities"] = Targets
  <2>1. shape[p - 3].vector = "targetEntities" /\ phase[p - 3] # "made"
    BY <1>3, VectorsOf DEF Schedule!Over
  <2> QED BY <1>3, <2>1 DEF Fitting, TargetsFit, TargetVectors
<1> QED BY <1>4, <1>5, <1>6, <1>7

LEMMA BackFits ==
  ASSUME NEW n \in Nat, Ordered(n), Fitting(n), NEW p \in Live(n), Running(p),
         shape[p] = BoidsSystem[8]
  PROVE  size["newHeadings"] = boids
<1>0. p \in Nat /\ Started(p) /\ ~Schedule!Over(p)
  BY LiveType DEF Ordered, Running, Started, Schedule!Over
<1>1. p - 8 + 7 \in Live(n) /\ shape[p - 8 + 7] = BoidsSystem[7]
  <2>1. 8 \in 1 .. 8 /\ 7 \in 1 .. 8 /\ PassesFiled /\ Whole(n, shape)
    BY DEF Ordered
  <2> QED BY <2>1, SystemAt, Zenon
<1>2. \A j \in 1 .. 7 : Schedule!Over(p - 8 + j)
  BY <1>0, BackAfter
<1>3. p - 8 + 7 = p - 1
  BY <1>0
<1>4. p - 1 \in Live(n) /\ shape[p - 1].vector = "newHeadings" /\ Schedule!Over(p - 1)
  BY <1>1, <1>2, <1>3, VectorsOf
<1>5. LastUser(p - 1) = p
  BY <1>0, <1>4 DEF LastUser
<1>6. InUse(p - 1)
  BY <1>0, <1>4, <1>5 DEF InUse, Schedule!Over
<1> QED BY <1>4, <1>6 DEF Fitting, BoidsFit, BoidVectors

(* A pass that runs finds what it uses as large as it should be; a pass     *)
(* that builds a tree, the vector it builds it of.                          *)
LEMMA RunningFits ==
  ASSUME NEW n \in Nat, Ordered(n), Fitting(n), NEW p \in Live(n), Running(p),
         NEW v \in Uses(shape[p]),
         v \notin Trees \/ shape[p].of # "none"
  PROVE  size[v] = IF v \in BoidVectors THEN boids ELSE Targets
<1>0. Known(shape[p]) /\ spawned = TRUE
  BY KnownAt DEF Ordered
<1>1. \A u \in TargetVectors : u \notin BoidVectors
  BY DEF BoidVectors, TargetVectors
<1>2. /\ {"positions", "kdtree", "headings", "newHeadings", "worlds", "ids"} \subseteq BoidVectors
      /\ {"targets", "targetEntities", "targetTree", "target_worlds"} \subseteq TargetVectors
      /\ "kdtree" \in Trees /\ "targetTree" \in Trees
  BY DEF BoidVectors, TargetVectors, Trees
<1>3. ASSUME v = shape[p].vector, v \in BoidVectors PROVE size[v] = boids
  BY <1>3, RunningInUse DEF Fitting, BoidsFit
<1>4. ASSUME v = shape[p].vector, v \in TargetVectors PROVE size[v] = Targets
  BY <1>4 DEF Fitting, TargetsFit, Running
<1>5. CASE \E i \in 1 .. 3 : shape[p] = CollectPasses[i]
  BY <1>0, <1>1, <1>2, <1>3, <1>4, <1>5, KnownUses, VectorsOf
<1>6. CASE \/ \E i \in 1 .. 2 : shape[p] = TargetPasses[i]
           \/ shape[p] = BoidMoveSystem[1] \/ shape[p] = Local2XSystem[1]
  BY <1>0, <1>6, KnownUses
<1>7. CASE shape[p] \in {BoidsSystem[1], BoidsSystem[3], BoidsSystem[4], BoidsSystem[6]}
  BY <1>0, <1>1, <1>2, <1>3, <1>4, <1>7, KnownUses, VectorsOf
<1>8. CASE shape[p] = BoidsSystem[2]
  <2>1. shape[p].of = "none"
    BY <1>8 DEF BoidsSystem, Pass
  <2>2. v = "positions"
    BY <1>0, <1>2, <1>8, <2>1, KnownUses
  <2> QED BY <1>2, <1>8, <2>2, TreeSource
<1>9. CASE shape[p] = BoidsSystem[5]
  <2>1. shape[p].of = "none"
    BY <1>9 DEF BoidsSystem, Pass
  <2>2. v = "targets"
    BY <1>0, <1>2, <1>9, <2>1, KnownUses
  <2> QED BY <1>1, <1>2, <1>9, <2>2, TreeSource
<1>10. CASE shape[p] = BoidsSystem[7]
  <2>1. v \in {"kdtree", "headings", "targetTree", "targetEntities", "newHeadings"}
    BY <1>0, <1>10, KnownUses
  <2> QED BY <1>1, <1>2, <1>10, <2>1, MainFits
<1>11. CASE shape[p] = BoidsSystem[8]
  <2>1. v = "newHeadings"
    BY <1>0, <1>11, KnownUses
  <2> QED BY <1>2, <1>11, <2>1, BackFits
<1>12. ASSUME NEW i \in 1 .. 8, shape[p] = BoidsSystem[i]
       PROVE  size[v] = IF v \in BoidVectors THEN boids ELSE Targets
  <2>1. i \in {1, 2, 3, 4, 5, 6, 7, 8}
    OBVIOUS
  <2> QED BY <2>1, <1>7, <1>8, <1>9, <1>10, <1>11, <1>12
<1> QED BY <1>0, <1>5, <1>6, <1>12 DEF Known
-----------------------------------------------------------------------------
(* The invariant.                                                           *)

(* Where the last user of a vector is does not change.                      *)
LEMMA LastUserKept ==
  ASSUME NEW p, shape'[p] = shape[p] PROVE LastUser(p)' = LastUser(p)
BY DEF LastUser

(* Making passes leaves those that began in order.                          *)
LEMMA MakeInOrder ==
  ASSUME PassesFiled, InOrder, TypeOK, NEW ss \in Seq(Filed), Schedule!Make(ss)
  PROVE  InOrder'
<1>1. /\ Len(shape) \in Nat /\ Len(ss) \in Nat /\ Len(shape') = Len(shape) + Len(ss)
      /\ \A p \in 1 .. Len(shape) : shape'[p] = shape[p] /\ phase'[p] = phase[p]
      /\ \A p \in Len(shape) + 1 .. Len(shape') :
           phase'[p] = IF shape'[p].init THEN "made" ELSE "initialized"
  BY MakeKeeps DEF TypeOK
<1> SUFFICES ASSUME NEW q \in Made', Started(q)', NEW p \in 1 .. q - 1,
                    Conflict(shape'[p], shape'[q])
             PROVE  Schedule!Over(p)'
  BY DEF InOrder, Conflict, Touched
<1>2. q \in 1 .. Len(shape')
  BY DEF Made, Schedule!Made
<1>3. q \in 1 .. Len(shape)
  BY <1>1, <1>2 DEF Started
<1>4. p \in 1 .. Len(shape)
  BY <1>1, <1>3
<1>5. Started(q) /\ Conflict(shape[p], shape[q])
  BY <1>1, <1>3, <1>4 DEF Started
<1>6. Schedule!Over(p)
  BY <1>3, <1>5, OrderedType DEF InOrder
<1> QED BY <1>1, <1>4, <1>6 DEF Schedule!Over

LEMMA MakeOrder ==
  ASSUME NEW n \in Nat, Ordered(n), TypeOK, spawned' = TRUE, InOrder', PassesFiled',
         NEW ss \in Seq(Filed), Whole(0, ss), Schedule!Make(ss)
  PROVE  Ordered(n)'
<1>0. PassesFiled /\ n <= Len(shape) /\ Whole(n, shape) /\ shape \in Seq(Filed)
  BY OrderedType DEF Ordered
<1>1. /\ Len(shape) \in Nat /\ Len(ss) \in Nat /\ Len(shape') = Len(shape) + Len(ss)
      /\ \A p \in 1 .. Len(shape) : phase'[p] = phase[p]
  BY <1>0, MakeKeeps DEF TypeOK
<1>2. Whole(n, shape)'
  <2>1. shape' = shape \o ss
    BY DEF Schedule!Make
  <2>2. Whole(n, shape')
    BY <1>0, <2>1, WholeConcat
  <2> QED BY <2>2, SamePasses DEF Whole, WholeAt, Known, Ordered
<1>3. \A p \in 1 .. n : Schedule!Over(p)'
  BY <1>0, <1>1 DEF Ordered, Schedule!Over
<1> QED BY <1>0, <1>1, <1>2, <1>3 DEF Ordered

LEMMA MakeFits ==
  ASSUME NEW n \in Nat, Ordered(n), Fitting(n), TypeOK, spawned' = TRUE,
         NEW ss \in Seq(Filed), Schedule!Make(ss), UNCHANGED <<size, boids>>
  PROVE  Fitting(n)'
<1>1. /\ Len(shape) \in Nat /\ Len(shape') \in Nat
      /\ \A p \in 1 .. Len(shape) : shape'[p] = shape[p] /\ phase'[p] = phase[p]
      /\ shape' \in Seq(Filed)
      /\ \A p \in Len(shape) + 1 .. Len(shape') :
           phase'[p] = IF shape'[p].init THEN "made" ELSE "initialized"
  BY MakeKeeps DEF Ordered, TypeOK
<1>2. Live(n)' = n + 1 .. Len(shape') /\ Live(n) = n + 1 .. Len(shape)
  BY DEF Live
<1>3. \A p \in Live(n)' : p \in Live(n) \/ (/\ phase'[p] # "over"
                                      /\ shape'[p].vector \in Vectors => phase'[p] = "made")
  <2> SUFFICES ASSUME NEW p \in Live(n)', p \notin Live(n)
               PROVE  /\ phase'[p] # "over"
                      /\ shape'[p].vector \in Vectors => phase'[p] = "made"
    OBVIOUS
  <2>1. p \in Len(shape) + 1 .. Len(shape') /\ shape'[p] \in Filed
    BY <1>1, <1>2
  <2>2. shape'[p].vector \in Vectors => shape'[p].init
    BY <2>1 DEF Filed, Vectors, BoidVectors, TargetVectors
  <2> QED BY <1>1, <2>1, <2>2
<1>4. BoidsFit(n)'
  <2> SUFFICES ASSUME NEW p \in Live(n)', shape'[p].vector \in BoidVectors, InUse(p)'
               PROVE  size'[shape'[p].vector] = boids'
    BY DEF BoidsFit
  <2>1. p \in Live(n) /\ shape'[p] = shape[p] /\ phase'[p] = phase[p]
    BY <1>1, <1>2, <1>3 DEF InUse, Vectors
  <2>2. LastUser(p)' = LastUser(p) /\ LastUser(p) \in Live(n)
    BY <2>1, LastUserKept, LastUserOf DEF Ordered
  <2>3. InUse(p)
    BY <1>1, <1>2, <2>1, <2>2 DEF InUse, Schedule!Over
  <2> QED BY <2>1, <2>3 DEF Fitting, BoidsFit
<1>5. TargetsFit(n)'
  BY <1>1, <1>2, <1>3 DEF Fitting, TargetsFit, Vectors
<1>6. TreesFit(n)'
  <2> SUFFICES ASSUME NEW p \in Live(n)', Schedule!Over(p)'
               PROVE  /\ shape'[p] = BoidsSystem[2] /\ ~Schedule!Over(p + 5)' =>
                           size["kdtree"] = boids
                      /\ shape'[p] = BoidsSystem[5] => size["targetTree"] = Targets
    BY SamePasses DEF TreesFit, Ordered
  <2>1. p \in Live(n) /\ shape'[p] = shape[p] /\ phase'[p] = phase[p] /\ Schedule!Over(p)
    BY <1>1, <1>2, <1>3 DEF Schedule!Over
  <2>2. shape[p] = BoidsSystem[5] => size["targetTree"] = Targets
    BY <2>1 DEF Fitting, TreesFit
  <2>3. ASSUME shape[p] = BoidsSystem[2], ~Schedule!Over(p + 5)' PROVE size["kdtree"] = boids
    <3>1. p - 2 + 7 \in Live(n)
      <4>1. 2 \in 1 .. 8 /\ 7 \in 1 .. 8 /\ PassesFiled /\ Whole(n, shape)
        BY DEF Ordered
      <4> QED BY <2>1, <2>3, <4>1, SystemAt, Zenon
    <3>2. p + 5 \in Live(n)
      BY <3>1, <2>1, <1>2
    <3>3. ~Schedule!Over(p + 5)
      BY <1>1, <1>2, <2>3, <3>2 DEF Schedule!Over
    <3> QED BY <2>1, <2>3, <3>3 DEF Fitting, TreesFit
  <2> QED BY <2>1, <2>2, <2>3
<1> QED BY <1>4, <1>5, <1>6 DEF Fitting

(* When the number of boids changes, everything that used the vectors of    *)
(* the boids is over.                                                       *)
LEMMA ChangeFits ==
  ASSUME NEW n \in Nat, Ordered(n), Fitting(n), AllOver(OfArchetype), spawned' = TRUE,
         shape' = shape, phase' = phase, size' = size
  PROVE  Fitting(n)'
<1>0. PassesFiled /\ Whole(n, shape) /\ spawned = TRUE
  BY DEF Ordered
<1>1. BoidsFit(n)'
  <2>1. ASSUME NEW p \in Live(n), shape[p].vector \in BoidVectors PROVE ~InUse(p)
    <3>1. Live(n) \subseteq Made
      BY <1>0, LiveType
    <3>2. /\ LastUser(p) \in Live(n)
          /\ \/ shape[LastUser(p)] \in {BoidsSystem[7], BoidsSystem[8]}
             \/ shape[LastUser(p)] \in {CollectPasses[2], CollectPasses[3]}
      BY <1>0, <2>1, LastUserOf
    <3>3. LastUser(p) \in OfArchetype
      BY <1>0, <3>1, <3>2, Archetype
    <3> QED BY <3>3 DEF InUse, AllOver
  <2> QED
    BY <2>1 DEF BoidsFit, InUse, LastUser, Live, Schedule!Over
<1>2. TargetsFit(n)'
  BY DEF Fitting, TargetsFit, Live
<1>3. TreesFit(n)'
  <2> SUFFICES ASSUME NEW p \in Live(n), Schedule!Over(p)
               PROVE  /\ shape[p] = BoidsSystem[2] => Schedule!Over(p + 5)
                      /\ shape[p] = BoidsSystem[5] => size["targetTree"] = Targets
    BY <1>0, SamePasses DEF TreesFit, Live, Schedule!Over
  <2>1. ASSUME shape[p] = BoidsSystem[2] PROVE Schedule!Over(p + 5)
    <3>1. 2 \in 1 .. 8 /\ 7 \in 1 .. 8
      OBVIOUS
    <3>2. p - 2 + 7 \in Live(n) /\ shape[p - 2 + 7] = BoidsSystem[7]
      BY <1>0, <2>1, <3>1, SystemAt, Zenon
    <3>3. p \in Nat /\ Live(n) \subseteq Made
      BY <1>0, LiveType
    <3>4. p - 2 + 7 = p + 5
      BY <3>3
    <3>5. p + 5 \in Made /\ shape[p + 5] = BoidsSystem[7]
      BY <3>2, <3>3, <3>4
    <3> QED BY <1>0, <3>5, Archetype DEF AllOver
  <2> QED BY <2>1 DEF Fitting, TreesFit
<1> QED BY <1>1, <1>2, <1>3 DEF Fitting

(* The steps of a pass keep the order: begun only after what it conflicts   *)
(* with, and over for good.                                                 *)
LEMMA PassInOrder ==
  ASSUME PassesFiled, InOrder, TypeOK, NEW q \in Made,
         InitializePass(q) \/ BeginPass(q) \/ EndPass(q)
  PROVE  InOrder'
<1>1. /\ q \in Schedule!Pass /\ shape' = shape /\ phase[q] # "over"
      /\ \A p \in Made : p # q => phase'[p] = phase[p]
  BY PassSteps
<1>2. \A p \in Made : Schedule!Over(p) => Schedule!Over(p)'
  BY <1>1 DEF Schedule!Over
<1>3. ASSUME NEW r \in Made, Started(r)', ~Started(r)
      PROVE  r = q /\ \A p \in 1 .. r - 1 : Conflict(shape[p], shape[r]) => Schedule!Over(p)
  <2>1. r = q
    BY <1>1, <1>3 DEF Started
  <2>2. CASE InitializePass(q)
    <3>1. phase'[q] = "initialized"
      BY <1>1, <2>2 DEF InitializePass, Schedule!Initialize, Schedule!MoveTo, TypeOK
    <3> QED BY <1>3, <2>1, <3>1 DEF Started
  <2>3. CASE BeginPass(q)
    BY <2>1, <2>3
       DEF BeginPass, Schedule!Begin, Schedule!Conflict, Schedule!Touched, Conflict, Touched
  <2>4. CASE EndPass(q)
    BY <1>3, <2>1, <2>4 DEF EndPass, Schedule!End, Started
  <2> QED BY <2>1, <2>2, <2>3, <2>4
<1> SUFFICES ASSUME NEW r \in Made, Started(r)', NEW p \in 1 .. r - 1,
                    Conflict(shape[p], shape[r])
             PROVE  Schedule!Over(p)'
  BY <1>1 DEF InOrder, Made, Schedule!Made, Conflict, Touched
<1>4. p \in Made
  BY OrderedType
<1>5. Schedule!Over(p)
  BY <1>3 DEF InOrder
<1> QED BY <1>2, <1>4, <1>5

LEMMA PassOrder ==
  ASSUME NEW n \in Nat, Ordered(n), TypeOK, InOrder', PassesFiled', NEW q \in Made,
         InitializePass(q) \/ BeginPass(q) \/ EndPass(q)
  PROVE  q \in Live(n) /\ Ordered(n)'
<1>1. /\ q \in Schedule!Pass /\ shape' = shape /\ spawned' = spawned /\ phase[q] # "over"
      /\ \A p \in Made : p # q => phase'[p] = phase[p]
  BY PassSteps DEF Ordered, world
<1>2. /\ Made = 1 .. Len(shape) /\ n <= Len(shape) /\ Len(shape) \in Nat
      /\ \A p \in 1 .. n : phase[p] = "over"
  BY OrderedType DEF Ordered, Schedule!Over
<1>3. \A p \in 1 .. n : p \in Made /\ p # q
  BY <1>1, <1>2
<1>4. q \in Live(n)
  BY <1>2, <1>3 DEF Live
<1>5. \A p \in 1 .. n : Schedule!Over(p)'
  BY <1>1, <1>2, <1>3 DEF Schedule!Over
<1>6. Whole(n, shape)'
  <2>1. spawned = TRUE /\ spawned' = TRUE /\ Whole(n, shape)
    BY <1>1 DEF Ordered
  <2>2. /\ CollectPasses' = CollectPasses /\ TargetPasses' = TargetPasses
        /\ BoidsSystem' = BoidsSystem /\ BoidMoveSystem' = BoidMoveSystem
        /\ Local2XSystem' = Local2XSystem
    BY <2>1, SamePasses
  <2> QED BY <1>1, <2>1, <2>2 DEF Whole, WholeAt, Known
<1> QED BY <1>1, <1>2, <1>4, <1>5, <1>6 DEF Ordered

LEMMA PassFits ==
  ASSUME NEW n \in Nat, Ordered(n), Fitting(n), TypeOK, NEW q \in Live(n),
         InitializePass(q) \/ BeginPass(q) \/ EndPass(q)
  PROVE  /\ Fitting(n)'
         /\ \A v \in Vectors \ Trees : size'[v] # size[v] =>
              \A p \in Live(n) : Running(p) => v \notin Uses(shape[p])
<1>0. PassesFiled /\ Whole(n, shape) /\ spawned = TRUE /\ Known(shape[q]) /\ shape[q] \in Filed
  BY KnownAt, LiveType DEF Ordered
<1>1. /\ q \in Schedule!Pass /\ shape' = shape /\ spawned' = spawned /\ boids' = boids
      /\ \E f \in {"initialized", "begun", "over"} : phase' = [phase EXCEPT ![q] = f]
      /\ phase[q] # "over" /\ Live(n)' = Live(n)
      /\ \A p \in Live(n) : p # q => phase'[p] = phase[p]
  <2>1. q \in Made /\ Live(n) \subseteq Made
    BY <1>0, LiveType
  <2> QED BY <1>0, <2>1, PassSteps DEF world, Live
<1>2. \A p \in Live(n) : Schedule!Over(p) => Schedule!Over(p)'
  BY <1>1 DEF Schedule!Over
<1>3. \A p \in Live(n) : phase[p] # "made" => phase'[p] # "made"
  BY <1>1 DEF TypeOK
<1>4. \A p \in Live(n) : shape[p].vector \in BoidVectors =>
        LastUser(p)' = LastUser(p) /\ LastUser(p) \in Live(n)
  BY <1>0, <1>1, LastUserKept, LastUserOf
<1>5. ASSUME NEW p \in Live(n), shape[p].vector \in BoidVectors, InUse(p)', phase[p] # "made"
      PROVE  size[shape[p].vector] = boids
  <2>1. InUse(p)
    BY <1>2, <1>4, <1>5 DEF InUse
  <2> QED BY <1>5, <2>1 DEF Fitting, BoidsFit
<1>6. CASE InitializePass(q)
  <2> DEFINE v == shape[q].vector
  <2>1. /\ phase[q] = "made" /\ phase' = [phase EXCEPT ![q] = "initialized"]
        /\ size' = [size EXCEPT ![v] = CalcSize(shape[q])]
    BY <1>6 DEF InitializePass, Schedule!Initialize, Schedule!MoveTo
  <2>2. v \in Vectors \cup {"none"} /\ v \notin Trees
    BY <1>0 DEF Filed
  <2>3. /\ v \in BoidVectors => size'[v] = boids
        /\ v \in TargetVectors => size'[v] = Targets
        /\ \A u \in Vectors : u # v => size'[u] = size[u]
    BY <1>0, <2>1, KnownSize DEF PassesFiled, Vectors
  <2>4. BoidsFit(n)'
    <3> SUFFICES ASSUME NEW p \in Live(n), shape[p].vector \in BoidVectors, InUse(p)'
                 PROVE  size'[shape[p].vector] = boids
      BY <1>1 DEF BoidsFit
    <3>1. CASE shape[p].vector = v
      BY <2>3, <3>1
    <3>2. CASE shape[p].vector # v
      <4>1. p # q /\ phase[p] # "made"
        BY <1>1, <3>2 DEF InUse
      <4> QED BY <1>5, <2>3, <3>2, <4>1 DEF Vectors
    <3> QED BY <3>1, <3>2
  <2>5. TargetsFit(n)'
    <3> SUFFICES ASSUME NEW p \in Live(n), shape[p].vector \in TargetVectors, phase'[p] # "made"
                 PROVE  size'[shape[p].vector] = Targets
      BY <1>1 DEF TargetsFit
    <3>1. CASE shape[p].vector = v
      BY <2>3, <3>1
    <3>2. CASE shape[p].vector # v
      <4>1. p # q /\ phase[p] # "made"
        BY <1>1, <3>2
      <4>2. size[shape[p].vector] = Targets
        BY <4>1 DEF Fitting, TargetsFit
      <4> QED BY <2>3, <3>2, <4>2 DEF Vectors
    <3> QED BY <3>1, <3>2
  <2>6. TreesFit(n)'
    <3>1. size'["kdtree"] = size["kdtree"] /\ size'["targetTree"] = size["targetTree"]
      BY <2>2, <2>3 DEF Vectors, BoidVectors, TargetVectors, Trees
    <3>2. \A p \in Nat : Schedule!Over(p)' <=> Schedule!Over(p)
      BY <1>1, <2>1 DEF Schedule!Over, TypeOK
    <3>3. \A p \in Live(n) : p \in Nat /\ p + 5 \in Nat
      <4>1. \A p \in Live(n) : p \in Nat
        BY <1>0, LiveType
      <4> QED BY <4>1
    <3> QED BY <1>0, <1>1, <3>1, <3>2, <3>3, SamePasses DEF Fitting, TreesFit
  <2>7. ASSUME NEW u \in Vectors \ Trees, size'[u] # size[u], NEW p \in Live(n), Running(p),
               u \in Uses(shape[p])
        PROVE  FALSE
    <3>1. size[u] = IF u \in BoidVectors THEN boids ELSE Targets
      BY <2>7, RunningFits
    <3>2. u = v
      BY <2>3, <2>7
    <3> QED BY <2>3, <2>7, <3>1, <3>2 DEF Vectors
  <2> QED BY <2>4, <2>5, <2>6, <2>7 DEF Fitting
<1>7. CASE BeginPass(q)
  <2>1. /\ phase[q] = "initialized" /\ phase' = [phase EXCEPT ![q] = "begun"] /\ size' = size
    BY <1>7 DEF BeginPass, Schedule!Begin, Schedule!MoveTo
  <2>2. \A p \in Nat : Schedule!Over(p)' <=> Schedule!Over(p)
    BY <1>1, <2>1 DEF Schedule!Over, TypeOK
  <2>3. \A p \in Live(n) : phase'[p] # "made" => phase[p] # "made"
    BY <1>1, <2>1
  <2>4. BoidsFit(n)'
    BY <1>1, <1>5, <2>1, <2>3 DEF BoidsFit, InUse
  <2>5. TargetsFit(n)'
    BY <1>1, <2>1, <2>3 DEF Fitting, TargetsFit
  <2>6. TreesFit(n)'
    <3>1. \A p \in Live(n) : p \in Nat /\ p + 5 \in Nat
      <4>1. \A p \in Live(n) : p \in Nat
        BY <1>0, LiveType
      <4> QED BY <4>1
    <3> QED BY <1>0, <1>1, <2>1, <2>2, <3>1, SamePasses DEF Fitting, TreesFit
  <2> QED BY <2>1, <2>4, <2>5, <2>6 DEF Fitting
<1>8. CASE EndPass(q)
  <2>1. phase[q] = "begun" /\ phase' = [phase EXCEPT ![q] = "over"] /\ Running(q)
    BY <1>8 DEF EndPass, Schedule!End, Schedule!MoveTo, Running
  <2>2. /\ shape[q] = BoidsSystem[2] =>
             size' = [size EXCEPT !["kdtree"] = size["positions"]] /\ size["positions"] = boids
        /\ shape[q] = BoidsSystem[5] =>
             size' = [size EXCEPT !["targetTree"] = size["targets"]] /\ size["targets"] = Targets
        /\ shape[q] # BoidsSystem[2] /\ shape[q] # BoidsSystem[5] => size' = size
    <3>1. /\ shape[q].name = "BoidKdTree" <=> shape[q] = BoidsSystem[2]
          /\ shape[q].name = "TargetKdTree" <=> shape[q] = BoidsSystem[5]
      BY <1>0, KnownByName
    <3>2. /\ shape[q] = BoidsSystem[2] => size["positions"] = boids
          /\ shape[q] = BoidsSystem[5] => size["targets"] = Targets
      BY <2>1, TreeSource
    <3> QED BY <1>8, <3>1, <3>2 DEF EndPass
  <2>3. /\ \A u \in Vectors \ Trees : size'[u] = size[u]
        /\ size'["kdtree"] = size["kdtree"] \/ size'["kdtree"] = boids
        /\ size'["targetTree"] = size["targetTree"] \/ size'["targetTree"] = Targets
        /\ shape[q] = BoidsSystem[2] => size'["kdtree"] = boids
        /\ shape[q] = BoidsSystem[5] => size'["targetTree"] = Targets
    BY <1>0, <2>2 DEF PassesFiled, Vectors, BoidVectors, TargetVectors, Trees
  <2>4. \A p \in Live(n) : phase'[p] # "made" => phase[p] # "made"
    BY <1>1, <2>1
  <2>5. \A p \in Live(n) : shape[p].vector \notin Trees
    BY <1>0, LiveType DEF Filed
  <2>6. BoidsFit(n)'
    BY <1>1, <1>5, <2>3, <2>4, <2>5 DEF BoidsFit, InUse, Vectors
  <2>7. TargetsFit(n)'
    BY <1>1, <2>3, <2>4, <2>5 DEF Fitting, TargetsFit, Vectors
  <2>8. TreesFit(n)'
    <3> SUFFICES ASSUME NEW p \in Live(n), Schedule!Over(p)'
                 PROVE  /\ shape[p] = BoidsSystem[2] /\ ~Schedule!Over(p + 5)' =>
                             size'["kdtree"] = boids
                        /\ shape[p] = BoidsSystem[5] => size'["targetTree"] = Targets
      BY <1>0, <1>1, SamePasses DEF TreesFit
    <3>1. CASE p = q
      BY <2>3, <3>1
    <3>2. CASE p # q
      <4>1. Schedule!Over(p)
        BY <1>1, <3>2 DEF Schedule!Over
      <4>2. ASSUME shape[p] = BoidsSystem[2], ~Schedule!Over(p + 5)'
            PROVE  size'["kdtree"] = boids
        <5>1. 2 \in 1 .. 8 /\ 7 \in 1 .. 8
          OBVIOUS
        <5>2. p - 2 + 7 \in Live(n)
          BY <1>0, <4>2, <5>1, SystemAt, Zenon
        <5>3. p + 5 \in Live(n)
          BY <1>0, <5>2, LiveType
        <5>4. ~Schedule!Over(p + 5)
          BY <1>2, <4>2, <5>3
        <5> QED BY <2>3, <4>1, <4>2, <5>4 DEF Fitting, TreesFit
      <4>3. ASSUME shape[p] = BoidsSystem[5] PROVE size'["targetTree"] = Targets
        BY <2>3, <4>1, <4>3 DEF Fitting, TreesFit
      <4> QED BY <4>2, <4>3
    <3> QED BY <3>1, <3>2
  <2> QED BY <2>3, <2>6, <2>7, <2>8 DEF Fitting
<1> QED BY <1>6, <1>7, <1>8

(* The last passes of a frame, after each part of it.                       *)
LEMMA CollectTail ==
  ASSUME NEW n \in Nat, Ordered(n), TypeOK, FrameTail(n), spawned' = TRUE, Collect
  PROVE  FrameTail(n)'
<1>1. /\ CollectPasses \in Seq(Filed) /\ Len(CollectPasses) = 3
      /\ Schedule!Make(CollectPasses) /\ pc = "frame" /\ pc' = "collect" /\ enabled' = enabled
  BY CollectFiled DEF Collect
<1>2. /\ Len(shape) \in Nat /\ Len(shape') = Len(shape) + 3 /\ n <= Len(shape)
      /\ \A p \in 1 .. Len(shape) : shape'[p] = shape[p]
      /\ \A p \in Len(shape) + 1 .. Len(shape') : shape'[p] = CollectPasses[p - Len(shape)]
  BY <1>1, MakeKeeps DEF Ordered, TypeOK
<1>3. ASSUME NEW i \in 1 .. 3 PROVE shape'[Len(shape) + i] = CollectPasses[i]
  <2>1. Len(shape) + i \in Len(shape) + 1 .. Len(shape') /\ Len(shape) + i - Len(shape) = i
    BY <1>2
  <2> QED BY <1>2, <2>1
<1>4. Len(shape') - 3 = Len(shape)
  BY <1>2
<1>5. enabled.l2w /\ Len(shape) > n => shape'[Len(shape)] = Local2XSystem[1]
  <2>1. enabled.l2w /\ Len(shape) > n => shape[Len(shape)] = Local2XSystem[1]
    BY <1>1, <1>2 DEF FrameTail
  <2> QED BY <1>2, <2>1
<1>6. CollectPasses' = CollectPasses /\ Local2XSystem' = Local2XSystem
  BY SamePasses DEF Ordered
<1> QED BY <1>1, <1>2, <1>3, <1>4, <1>5, <1>6 DEF FrameTail

LEMMA SimulateTail ==
  ASSUME NEW n \in Nat, Ordered(n), TypeOK, spawned' = TRUE, Simulate
  PROVE  FrameTail(n)'
<1> DEFINE ss == BoidMainLoop(enabled')
<1>1. ss \in Seq(Filed) /\ Schedule!Make(ss) /\ pc' = "ui"
  <2>1. ss \in Seq(FiledLoop)
    BY LoopFiled
  <2>2. ss \in Seq(Filed)
    BY <2>1 DEF FiledLoop
  <2> QED BY <2>2 DEF Simulate
<1>2. /\ enabled'.l2w => ss[Len(ss)] = Local2XSystem[1]
      /\ Len(ss) >= 2
  BY LoopWhole
<1> HIDE DEF ss
<1>3. /\ Len(shape) \in Nat /\ Len(ss) \in Nat /\ Len(shape') = Len(shape) + Len(ss)
      /\ \A p \in Len(shape) + 1 .. Len(shape') : shape'[p] = ss[p - Len(shape)]
  BY <1>1, MakeKeeps DEF Ordered, TypeOK
<1>4. shape'[Len(shape')] = ss[Len(ss)]
  <2>1. /\ Len(shape') \in Len(shape) + 1 .. Len(shape')
        /\ Len(shape') - Len(shape) = Len(ss)
    BY <1>2, <1>3
  <2> QED BY <1>3, <2>1
<1>5. Local2XSystem' = Local2XSystem
  BY SamePasses DEF Ordered
<1>6. Len(shape') - 0 = Len(shape')
  BY <1>3
<1> QED BY <1>1, <1>2, <1>4, <1>5, <1>6 DEF FrameTail

(* A step of the main thread that makes passes.                             *)
LEMMA MakeKeepsInv ==
  ASSUME NEW n \in Nat, BaseInv, SInv(n), BaseInv', spawned' = TRUE, FrameTail(n)',
         NEW ss \in Seq(Filed), Whole(0, ss), Schedule!Make(ss), UNCHANGED <<size, boids>>
  PROVE  SInv(n)'
<1>1. Ordered(n) /\ Fitting(n) /\ TypeOK /\ InOrder' /\ PassesFiled'
  BY DEF SInv, BaseInv, FiledInv
<1>2. Ordered(n)'
  BY <1>1, MakeOrder
<1>3. Fitting(n)'
  BY <1>1, MakeFits
<1> QED BY <1>2, <1>3 DEF SInv

(* A step of the main thread that makes none.                               *)
LEMMA RestKeepsInv ==
  ASSUME NEW n \in Nat, BaseInv, SInv(n), BaseInv', spawned' = TRUE,
         UNCHANGED <<schedule, size, enabled>>,
         pc' = pc \/ (pc = "ui" /\ pc' = "frame"),
         boids' = boids \/ AllOver(OfArchetype)
  PROVE  SInv(n)'
<1>1. Ordered(n) /\ Fitting(n) /\ FrameTail(n) /\ spawned = TRUE /\ InOrder' /\ PassesFiled'
  BY DEF SInv, BaseInv, FiledInv, Ordered
<1>2. shape' = shape /\ phase' = phase /\ size' = size /\ enabled' = enabled
  BY DEF schedule
<1>3. /\ CollectPasses' = CollectPasses /\ TargetPasses' = TargetPasses
      /\ BoidsSystem' = BoidsSystem /\ BoidMoveSystem' = BoidMoveSystem
      /\ Local2XSystem' = Local2XSystem
  BY <1>1, SamePasses
<1>4. Whole(n, shape)'
  BY <1>1, <1>2, <1>3 DEF Ordered, Whole, WholeAt, Known
<1>5. Ordered(n)'
  BY <1>1, <1>2, <1>4 DEF Ordered, Schedule!Over
<1>6. FrameTail(n)'
  BY <1>1, <1>2, <1>3 DEF FrameTail
<1>7. ASSUME boids' = boids PROVE Fitting(n)'
  BY <1>1, <1>2, <1>3, <1>7
     DEF Fitting, BoidsFit, TargetsFit, TreesFit, Live, InUse, LastUser, Schedule!Over
<1>8. ASSUME AllOver(OfArchetype) PROVE Fitting(n)'
  BY <1>1, <1>2, <1>8, ChangeFits
<1> QED BY <1>5, <1>6, <1>7, <1>8 DEF SInv

(* BaseInv is kept from the beginning, before any boids too.                *)
LEMMA BaseInvInit == Init => BaseInv
<1> SUFFICES ASSUME Init PROVE BaseInv
  OBVIOUS
<1>1. Made = {}
  BY DEF Init, Schedule!ScheduleInit, Made, Schedule!Made
<1> QED BY <1>1, FiledInvInit DEF BaseInv, InOrder

LEMMA BaseInvNext == BaseInv /\ [Next]_vars => BaseInv'
<1> SUFFICES ASSUME BaseInv, [Next]_vars PROVE InOrder'
  BY FiledInvNext DEF BaseInv
<1>0. TypeOK /\ PassesFiled /\ InOrder
  BY DEF BaseInv, FiledInv
<1>1. CASE Collect
  <2>1. CollectPasses \in Seq(Filed) /\ Schedule!Make(CollectPasses)
    BY <1>1, CollectFiled DEF Collect
  <2> QED BY <1>0, <2>1, MakeInOrder
<1>2. CASE Simulate
  <2>1. BoidMainLoop(enabled') \in Seq(FiledLoop) /\ Schedule!Make(BoidMainLoop(enabled'))
    BY <1>2, LoopFiled DEF Simulate
  <2>2. BoidMainLoop(enabled') \in Seq(Filed)
    BY <2>1 DEF FiledLoop
  <2> QED BY <1>0, <2>1, <2>2, MakeInOrder
<1>3. CASE UNCHANGED vars \/ UpdateBoidsCount \/ LoadSnapshot \/ Render
  <2>1. shape' = shape /\ phase' = phase
    BY <1>3 DEF vars, schedule, UpdateBoidsCount, LoadSnapshot, Render
  <2> QED
    BY <1>0, <2>1 DEF InOrder, Made, Schedule!Made, Started, Schedule!Over, Conflict, Touched
<1>4. CASE \E p \in Made : InitializePass(p) \/ BeginPass(p) \/ EndPass(p)
  BY <1>0, <1>4, PassInOrder
<1> QED BY <1>1, <1>2, <1>3, <1>4 DEF Next, MainThread

(* There are boids, or an archetype without any, for good.                  *)
LEMMA SpawnedStays ==
  ASSUME TypeOK, PassesFiled, spawned = TRUE, [Next]_vars
  PROVE  spawned' = TRUE
<1>1. CASE UNCHANGED vars \/ Collect \/ Simulate \/ UpdateBoidsCount \/ LoadSnapshot \/ Render
  BY <1>1 DEF vars, world, Collect, Simulate, UpdateBoidsCount, LoadSnapshot, Render
<1>2. CASE \E p \in Made : InitializePass(p) \/ BeginPass(p) \/ EndPass(p)
  BY <1>2, PassSteps DEF world
<1> QED BY <1>1, <1>2 DEF Next, MainThread

NoVectorMoves ==
  \A v \in Vectors \ Trees : size'[v] # size[v] =>
    \A p \in Made : Running(p) => v \notin Uses(shape[p])

(* A step of a settled program keeps it so, and no vector moves under a     *)
(* pass.                                                                    *)
LEMMA SInvStep ==
  ASSUME NEW n \in Nat, BaseInv, SInv(n), [Next]_vars
  PROVE  SInv(n)' /\ NoVectorMoves
<1>0. /\ Ordered(n) /\ Fitting(n) /\ TypeOK /\ FrameTail(n) /\ spawned = TRUE /\ PassesFiled
      /\ BaseInv' /\ InOrder' /\ PassesFiled' /\ spawned' = TRUE
  <2>1. BaseInv'
    BY BaseInvNext
  <2>2. Ordered(n) /\ Fitting(n) /\ TypeOK /\ FrameTail(n) /\ spawned = TRUE /\ PassesFiled
    BY DEF SInv, BaseInv, FiledInv, Ordered
  <2>3. InOrder' /\ PassesFiled'
    BY <2>1 DEF BaseInv, FiledInv
  <2> QED BY <2>1, <2>2, <2>3, SpawnedStays
<1>1. ASSUME UNCHANGED size PROVE NoVectorMoves
  BY <1>1 DEF NoVectorMoves
<1>2. CASE Collect
  <2>1. /\ CollectPasses \in Seq(Filed) /\ Schedule!Make(CollectPasses)
        /\ UNCHANGED <<size, boids>>
    BY <1>2, CollectFiled DEF Collect, world
  <2>2. FrameTail(n)'
    BY <1>0, <1>2, CollectTail
  <2> QED BY <1>0, <1>1, <2>1, <2>2, WholeCollect, MakeKeepsInv
<1>3. CASE Simulate
  <2>1. /\ BoidMainLoop(enabled') \in Seq(Filed) /\ Schedule!Make(BoidMainLoop(enabled'))
        /\ UNCHANGED <<size, boids>>
    <3>1. BoidMainLoop(enabled') \in Seq(FiledLoop)
      BY LoopFiled
    <3>2. BoidMainLoop(enabled') \in Seq(Filed)
      BY <3>1 DEF FiledLoop
    <3> QED BY <1>3, <3>2 DEF Simulate, world
  <2>2. Whole(0, BoidMainLoop(enabled'))
    BY LoopWhole
  <2>3. FrameTail(n)'
    BY <1>0, <1>3, SimulateTail
  <2> QED BY <1>0, <1>1, <2>1, <2>2, <2>3, MakeKeepsInv
<1>4. CASE UNCHANGED vars \/ UpdateBoidsCount \/ LoadSnapshot \/ Render
  <2>1. /\ UNCHANGED <<schedule, size, enabled>>
        /\ pc' = pc \/ (pc = "ui" /\ pc' = "frame")
    BY <1>4 DEF vars, schedule, thread, UpdateBoidsCount, LoadSnapshot, Render
  <2>2. boids' = boids \/ AllOver(OfArchetype)
    <3>1. CASE UNCHANGED vars \/ Render
      BY <3>1 DEF vars, world, Render
    <3>2. CASE UpdateBoidsCount
      BY <3>2 DEF UpdateBoidsCount
    <3>3. CASE LoadSnapshot
      BY <3>3 DEF LoadSnapshot, AllOver, OfArchetype
    <3> QED BY <1>4, <3>1, <3>2, <3>3
  <2> QED BY <1>0, <1>1, <2>1, <2>2, RestKeepsInv
<1>5. CASE \E p \in Made : InitializePass(p) \/ BeginPass(p) \/ EndPass(p)
  <2>1. PICK q \in Made : InitializePass(q) \/ BeginPass(q) \/ EndPass(q)
    BY <1>5
  <2>2. q \in Live(n) /\ Ordered(n)'
    BY <1>0, <2>1, PassOrder
  <2>3. /\ Fitting(n)'
        /\ \A v \in Vectors \ Trees : size'[v] # size[v] =>
             \A p \in Live(n) : Running(p) => v \notin Uses(shape[p])
    BY <1>0, <2>1, <2>2, PassFits
  <2>4. /\ shape' = shape /\ pc' = pc /\ enabled' = enabled
    BY <1>0, <2>1, PassSteps DEF thread
  <2>5. FrameTail(n)'
    BY <1>0, <2>4, SamePasses DEF FrameTail
  <2>6. \A p \in Made : Running(p) => p \in Live(n)
    BY <1>0, RunningLive
  <2> QED BY <2>2, <2>3, <2>5, <2>6 DEF SInv, NoVectorMoves
<1> QED BY <1>2, <1>3, <1>4, <1>5 DEF Next, MainThread

(* With no pass left the program settles: none is live.                     *)
LEMMA SettleNow == BaseInv /\ Quiet => Settling
<1> SUFFICES ASSUME BaseInv, Quiet PROVE Settling
  OBVIOUS
<1> DEFINE n == Len(shape)
<1>1. PassesFiled /\ InOrder /\ spawned = TRUE /\ AllOver(Made)
  BY DEF BaseInv, FiledInv, TypeOK, Quiet
<1>2. n \in Nat /\ Made = 1 .. n
  BY <1>1, OrderedType
<1>3. n + 1 .. Len(shape) = {}
  BY <1>2
<1>4. Ordered(n)
  <2>1. \A p \in 1 .. n : Schedule!Over(p)
    BY <1>1, <1>2 DEF AllOver
  <2>2. Whole(n, shape)
    BY <1>3 DEF Whole
  <2> QED BY <1>1, <1>2, <2>1, <2>2 DEF Ordered
<1>5. FrameTail(n)
  BY <1>2 DEF FrameTail
<1>6. Fitting(n)
  BY <1>3 DEF Fitting, BoidsFit, TargetsFit, TreesFit, Live
<1> QED BY <1>2, <1>4, <1>5, <1>6 DEF SInv, Settling

LEMMA SettleThen == BaseInv' /\ Quiet' => Settling'
BY SettleNow, PTL

LEMMA IInvariant == Spec => []IInv
<1>1. Init => IInv
  <2> SUFFICES ASSUME Init PROVE IInv
    OBVIOUS
  <2>1. settled = spawned /\ Made = {}
    BY DEF Init, Schedule!ScheduleInit, Made, Schedule!Made
  <2>2. settled => Quiet
    BY <2>1 DEF Quiet, AllOver
  <2> QED BY <2>2, BaseInvInit, SettleNow DEF IInv
<1>2. IInv /\ [Next]_vars => IInv'
  <2> SUFFICES ASSUME IInv, [Next]_vars PROVE IInv'
    OBVIOUS
  <2>1. BaseInv /\ BaseInv' /\ TypeOK
    BY BaseInvNext DEF IInv, BaseInv, FiledInv
  <2>2. settled' => settled \/ Quiet'
    BY <2>1, Settles
  <2>3. ASSUME settled PROVE Settling'
    <3>1. PICK n \in Nat : SInv(n)
      BY <2>3 DEF IInv, Settling
    <3>2. SInv(n)'
      BY <2>1, <3>1, SInvStep
    <3> QED BY <3>2 DEF Settling
  <2>4. Quiet' => Settling'
    BY <2>1, SettleThen
  <2> QED BY <2>1, <2>2, <2>3, <2>4 DEF IInv
<1> QED BY <1>1, <1>2, PTL DEF Spec

(* Fits is an invariant, however many boids the program begins with: from   *)
(* the moment it has settled, what a running pass uses has one element for  *)
(* each entity.                                                             *)
THEOREM AlwaysFits == Spec => []Fits
<1>1. IInv => Fits
  <2> SUFFICES ASSUME IInv, settled, NEW p \in Made, Running(p), shape[p].of # "none",
                      NEW v \in Uses(shape[p])
               PROVE  size[v] = IF v \in BoidVectors THEN boids ELSE Targets
    BY DEF Fits
  <2>1. PICK n \in Nat : SInv(n)
    BY DEF IInv, Settling
  <2>2. Ordered(n) /\ Fitting(n)
    BY <2>1 DEF SInv
  <2>3. p \in Live(n)
    BY <2>2, RunningLive
  <2> QED BY <2>2, <2>3, RunningFits
<1> QED BY <1>1, IInvariant, PTL

(* ResizedAlone is kept, however many boids the program begins with: from   *)
(* the moment it has settled, the init functions, which wait for nothing,   *)
(* move no vector under a pass that uses it.                                *)
THEOREM AlwaysResizedAlone == Spec => ResizedAlone
<1>1. ASSUME IInv, [Next]_vars
      PROVE  [settled =>
                \A v \in Vectors \ Trees : size'[v] # size[v] =>
                  \A p \in Made : Running(p) => v \notin Uses(shape[p])]_vars
  <2> SUFFICES ASSUME settled PROVE NoVectorMoves
    BY DEF NoVectorMoves
  <2>1. PICK n \in Nat : SInv(n)
    BY <1>1 DEF IInv, Settling
  <2> QED BY <1>1, <2>1, SInvStep DEF IInv
<1> QED BY <1>1, IInvariant, PTL DEF Spec, ResizedAlone

(* SettledCycleEnded is an invariant, however many boids the program begins *)
(* with: from the moment it has settled, a collection that is over ends the *)
(* frame it collects.                                                       *)
THEOREM CyclesEnd == Spec => []SettledCycleEnded
<1>1. IInv => SettledCycleEnded
  <2> SUFFICES ASSUME IInv, settled, pc = "collect", AllOver(Collected), enabled.l2w,
                      NEW p \in Made
               PROVE  Schedule!Over(p)
    BY DEF SettledCycleEnded, CycleEnded, AllOver
  <2>0. PICK n \in Nat : SInv(n)
    BY DEF IInv, Settling
  <2> DEFINE k == Len(shape) - 3
  <2>1. Ordered(n) /\ FrameTail(n) /\ PassesFiled /\ CollectingLast /\ spawned = TRUE
    BY <2>0 DEF SInv, Ordered, IInv, BaseInv, FiledInv
  <2>2. /\ Len(shape) \in Nat /\ p \in 1 .. Len(shape)
        /\ k >= n => \A i \in 1 .. 3 : shape[k + i] = CollectPasses[i]
        /\ k > n => shape[k] = Local2XSystem[1]
    BY <2>1, OrderedType DEF FrameTail
  <2>3. ASSUME p <= n PROVE Schedule!Over(p)
    BY <2>1, <2>2, <2>3 DEF Ordered
  <2>4. ASSUME p > k PROVE Schedule!Over(p)
    BY <2>2, <2>4 DEF Collected, AllOver
  <2>5. ASSUME p <= k, shape[p].vector \in CollectVectors PROVE Schedule!Over(p)
    BY <2>1, <2>2, <2>5 DEF CollectingLast
  <2>6. ASSUME n < p, p <= k, shape[p].vector \notin CollectVectors PROVE Schedule!Over(p)
    <3>1. /\ p \in Live(n) /\ k \in Live(n) /\ k + 1 \in Live(n) /\ k < k + 1
          /\ shape[k] = Local2XSystem[1]
      BY <2>2, <2>6 DEF Live
    <3>2. Schedule!Over(k)
      <4>1. shape[k + 1] = CollectPasses[1]
        BY <2>2, <2>6
      <4>2. Conflict(shape[k], shape[k + 1])
        BY <2>1, <3>1, <4>1, FrameConflicts
      <4>3. Started(k + 1)
        <5>1. k + 1 \in Collected
          BY <2>2 DEF Collected
        <5> QED BY <5>1 DEF AllOver, Started, Schedule!Over
      <4> QED BY <2>1, <3>1, <4>2, <4>3, Before
    <3>3. Started(k)
      BY <3>2 DEF Started, Schedule!Over
    <3>4. CASE p = k
      BY <3>2, <3>4
    <3>5. CASE p # k
      <4>1. p < k
        BY <2>2, <2>6, <3>5
      <4> QED BY <2>1, <2>6, <3>1, <3>3, <4>1, Local2XAfter
    <3> QED BY <3>4, <3>5
  <2> QED BY <2>2, <2>3, <2>4, <2>5, <2>6
<1> QED BY <1>1, IInvariant, PTL
=============================================================================
