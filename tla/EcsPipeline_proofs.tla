-------------------------- MODULE EcsPipeline_proofs --------------------------
(***************************************************************************)
(* Proofs about EcsPipeline: for any number of passes, groups, resources   *)
(* and shapes, and any interleaving of the making thread with the tasks.   *)
(***************************************************************************)
EXTENDS EcsPipeline, TLAPS, FiniteSetTheorems

(* The passes made are the ones with a stage, and one that is not scheduled *)
(* yet is still in the hands of the thread that made it.                    *)
StagesKept ==
  \A p \in Pass :
    /\ stage[p] = "unmade" <=> p > Len(shape)
    /\ stage[p] = "made" => p \in held

(* An earlier pass that conflicts is over, or still waited for.             *)
Waited(p, q) == Signaled(p) \/ (~Begun(q) /\ p \in dependencies[q])

OrderWaited ==
  \A q \in Made : \A p \in 1 .. q - 1 :
    Conflict(shape[p], shape[q]) => Waited(p, q)

(* The groups of a pass exist while its body runs, each in one place, and   *)
(* the wait group of a parallel pass counts them.                           *)
GroupsOf(p) ==
  /\ stage[p] \notin {"parallel", "serial"} => queued[p] = {} /\ running[p] = {}
  /\ queued[p] \cap running[p] = {}
  /\ IsFiniteSet(queued[p]) /\ IsFiniteSet(running[p])
  /\ stage[p] = "parallel" =>
       tasksGroup[p] = Cardinality(queued[p]) + Cardinality(running[p])

GroupsCounted == \A p \in Pass : GroupsOf(p)

(* A pass that is not over can be found by sync_all.                        *)
UnfinishedListed == \A p \in Made : Signaled(p) \/ p \in allPasses

(* A synchronisation has every pass it must still wait for in its list.     *)
SyncCovers ==
  \A p \in Made :
    \/ Signaled(p)
    \/ sync # "no" /\ p \in todo
    \/ sync # "all" /\ Touched(shape[p]) \cap changing = {}

IInv ==
  /\ TypeOK /\ StagesKept /\ OrderWaited
  /\ GroupsCounted /\ UnfinishedListed /\ SyncCovers
-----------------------------------------------------------------------------
(* Type correctness.                                                        *)

(* A made pass has one of the shapes the program makes, and its number is   *)
(* within the bound.                                                        *)
LEMMA MadeType ==
  ASSUME TypeOK, NEW p \in Made
  PROVE  /\ p \in Pass /\ p # 0 /\ p <= Len(shape)
         /\ shape[p] \in Shapes /\ shape[p] \in Shape
         /\ shape[p].groups \in Nat
BY ShapeAssumption, PassAssumption DEF TypeOK, Made, Pass, Shape

(* The passes whose body runs have been made.                               *)
LEMMA BegunIsMade ==
  ASSUME TypeOK, StagesKept, NEW p \in Pass, stage[p] # "unmade"
  PROVE  p \in Made
BY PassAssumption DEF TypeOK, StagesKept, Pass, Made

(* Taking a group that is in one of the two sets of a pass away leaves one  *)
(* fewer there.                                                             *)
LEMMA GroupTaken ==
  ASSUME GroupsCounted, NEW p \in Pass
  PROVE  /\ Cardinality(queued[p]) \in Nat /\ Cardinality(running[p]) \in Nat
         /\ \A g \in running[p] :
              Cardinality(running[p] \ {g}) = Cardinality(running[p]) - 1
         /\ \A g \in queued[p] :
              Cardinality(queued[p] \ {g}) = Cardinality(queued[p]) - 1
<1>1. IsFiniteSet(queued[p]) /\ IsFiniteSet(running[p])
  BY DEF GroupsCounted, GroupsOf
<1> QED BY <1>1, FS_CardinalityType, FS_RemoveElement

(* A task that is in the middle of a group is counted, so the count it      *)
(* lowers is at least one.                                                  *)
LEMMA DoneType ==
  ASSUME TypeOK, GroupsCounted, NEW p \in Pass, NEW g \in running[p]
  PROVE  Done(p) \in Nat
<1>1. CASE stage[p] = "parallel"
  <2>1. /\ Cardinality(queued[p]) \in Nat /\ Cardinality(running[p]) \in Nat
        /\ Cardinality(running[p] \ {g}) = Cardinality(running[p]) - 1
        /\ Cardinality(running[p] \ {g}) \in Nat
    BY GroupTaken, FS_CardinalityType, FS_RemoveElement
       DEF GroupsCounted, GroupsOf
  <2>2. tasksGroup[p] = Cardinality(queued[p]) + Cardinality(running[p])
    BY <1>1 DEF GroupsCounted, GroupsOf
  <2> QED BY <1>1, <2>1, <2>2 DEF Done
<1>2. CASE stage[p] # "parallel"
  BY <1>2 DEF Done
<1> QED BY <1>1, <1>2

(* Every variable has its type in the initial states.                       *)
LEMMA TypeInit == Init => TypeOK
<1> SUFFICES ASSUME Init PROVE TypeOK
  OBVIOUS
<1>1. shape \in Seq(Shapes) /\ Len(shape) <= MaxPasses
  <2>1. shape = <<>>
    BY DEF Init
  <2> QED BY <2>1, PassAssumption
<1> QED BY <1>1 DEF Init, TypeOK, Stage

(* A step of the task of a pass keeps the types.                            *)
LEMMA TypeTask ==
  ASSUME IInv, NEW p \in Pass, Task(p)
  PROVE  TypeOK'
<1> USE DEF IInv, main, flags
<1>1. CASE Initialize(p)
  BY <1>1 DEF Initialize, TypeOK, Stage
<1>2. CASE Begin(p)
  <2>1. Count(p) \in Nat /\ 1 .. shape[p].groups \subseteq Nat
    BY <1>2, BegunIsMade, MadeType DEF Count, Begin
  <2> QED BY <1>2, <2>1 DEF Begin, TypeOK, Stage
<1>3. CASE Signal(p)
  BY <1>3 DEF Signal, TypeOK, Stage
<1>4. CASE Release(p)
  BY <1>4 DEF Release, TypeOK, Stage
<1>5. ASSUME NEW g \in queued[p], StartGroup(p, g) PROVE TypeOK'
  BY <1>5 DEF StartGroup, TypeOK
<1>6. ASSUME NEW g \in running[p], EndGroup(p, g) PROVE TypeOK'
  <2>1. Done(p) \in Nat
    BY DoneType
  <2> QED BY <1>6, <2>1 DEF EndGroup, TypeOK
<1> QED BY <1>1, <1>2, <1>3, <1>4, <1>5, <1>6 DEF Task

(* Every step keeps the types.                                              *)
LEMMA TypeStep == IInv /\ [Next]_vars => TypeOK'
<1> SUFFICES ASSUME IInv, [Next]_vars PROVE TypeOK'
  OBVIOUS
<1> USE DEF IInv
<1>1. ASSUME NEW s \in Shapes, Create(s) PROVE TypeOK'
  <2> DEFINE p == Len(shape) + 1
  <2>1. p \in Pass /\ Made \subseteq Pass
    BY <1>1, PassAssumption DEF Create, TypeOK, Pass, Made
  <2>2. shape' \in Seq(Shapes) /\ Len(shape') <= MaxPasses
    BY <1>1 DEF Create, TypeOK
  <2>3. dependencies' \in [Pass -> SUBSET Pass]
    <3>1. {q \in Made : ~Signaled(q) /\ Conflict(shape[q], s)} \subseteq Pass
      BY <2>1
    <3> QED BY <3>1, <1>1 DEF Create, TypeOK
  <2>4. stage' \in [Pass -> Stage]
    BY <1>1 DEF Create, TypeOK, Stage
  <2> QED BY <1>1, <2>1, <2>2, <2>3, <2>4 DEF Create, TypeOK, flags
<1>2. ASSUME NEW p \in Pass, NEW external \in SUBSET (held \ {p}),
             Schedule(p, external)
      PROVE TypeOK'
  BY <1>2 DEF Schedule, TypeOK, Stage, flags
<1>3. ASSUME NEW p \in Pass, Drop(p) PROVE TypeOK'
  BY <1>3 DEF Drop, TypeOK, passes, flags
<1>4. ASSUME NEW p \in Pass, AwaitEvent(p) PROVE TypeOK'
  BY <1>4 DEF AwaitEvent, TypeOK, passes, flags
<1>5. ASSUME NEW r \in Resources, SyncDependencies(r) PROVE TypeOK'
  <2>1. {p \in Made : r \in Touched(shape[p])} \subseteq Pass
    BY MadeType
  <2> QED BY <1>5, <2>1 DEF SyncDependencies, TypeOK, passes, flags
<1>6. CASE SyncAll
  BY <1>6 DEF SyncAll, TypeOK, passes, flags
<1>7. ASSUME NEW p \in Pass, SyncOne(p) PROVE TypeOK'
  BY <1>7 DEF SyncOne, TypeOK, passes, flags
<1>8. CASE SyncReturn
  BY <1>8 DEF SyncReturn, TypeOK, passes, flags
<1>9. CASE MarkFrame
  BY <1>9 DEF MarkFrame, Kept, TypeOK, passes, flags
<1>10. CASE SetFlags
  <2>1. /\ force_no_fibers' \in BOOLEAN /\ force_no_group_parallel' \in BOOLEAN
    BY <1>10, SwitchAssumption DEF SetFlags
  <2> QED BY <1>10, <2>1 DEF SetFlags, TypeOK, passes, main
<1>11. ASSUME NEW p \in Pass, Task(p) PROVE TypeOK'
  BY <1>11, TypeTask
<1>12. CASE UNCHANGED vars
  BY <1>12 DEF vars, passes, main, flags, TypeOK
<1> QED BY <1>1, <1>2, <1>3, <1>4, <1>5, <1>6, <1>7, <1>8, <1>9, <1>10, <1>11,
           <1>12 DEF Next
-----------------------------------------------------------------------------
(* How a step changes what the invariant speaks of.                         *)

(* A step other than the making of a pass leaves the passes made alone, and *)
(* a pass never goes back: what has been signaled or has begun stays so.    *)
LEMMA NeverBack ==
  ASSUME IInv, [Next]_vars
  PROVE  /\ \A p \in Made : p \in Made' /\ shape'[p] = shape[p]
         /\ \A p \in Pass : Signaled(p) => Signaled(p)'
         /\ \A p \in Pass : Begun(p) => Begun(p)'
<1> USE DEF IInv, TypeOK, Signaled, Begun
<1>1. ASSUME NEW s \in Shapes, Create(s)
      PROVE  /\ \A p \in Made : p \in Made' /\ shape'[p] = shape[p]
             /\ \A p \in Pass : p # Len(shape) + 1 => stage'[p] = stage[p]
             /\ Len(shape) + 1 \in Pass => stage[Len(shape) + 1] = "unmade"
  <2>1. \A p \in Made : p \in Made' /\ shape'[p] = shape[p]
    BY <1>1 DEF Create, Made
  <2>2. Len(shape) + 1 \in Pass => stage[Len(shape) + 1] = "unmade"
    BY DEF StagesKept
  <2> QED BY <1>1, <2>1, <2>2 DEF Create
<1>2. ASSUME NEW p \in Pass, NEW external \in SUBSET (held \ {p}),
             Schedule(p, external)
      PROVE  /\ shape' = shape
             /\ \A q \in Pass : Signaled(q) => Signaled(q)'
             /\ \A q \in Pass : Begun(q) => Begun(q)'
  BY <1>2 DEF Schedule
<1>3. CASE UNCHANGED <<shape, stage>>
  BY <1>3 DEF Made
<1>4. ASSUME NEW p \in Pass, Task(p)
      PROVE  /\ shape' = shape
             /\ \A q \in Pass : Signaled(q) => Signaled(q)'
             /\ \A q \in Pass : Begun(q) => Begun(q)'
  BY <1>4 DEF Task, Initialize, Begin, Signal, Release, StartGroup, EndGroup,
              Joined
<1> QED BY <1>1, <1>2, <1>3, <1>4
        DEF Next, vars, passes, Drop, AwaitEvent, SyncDependencies, SyncAll,
            SyncOne, SyncReturn, MarkFrame, SetFlags, Made

(* A pass that was made and that nobody holds any more is over.             *)
LEMMA ExpiredIsDone ==
  ASSUME IInv, NEW p \in Made, Expired(p)
  PROVE  Signaled(p)
<1>1. p \in Pass /\ stage[p] \in Stage /\ stage[p] # "unmade"
  <2>1. p \in Pass /\ p \in Int /\ Len(shape) \in Int /\ p <= Len(shape)
    BY MadeType DEF IInv, TypeOK, Made
  <2> QED BY <2>1 DEF IInv, TypeOK, StagesKept
<1>2. stage[p] # "made"
  BY <1>1 DEF IInv, StagesKept, Expired
<1> QED BY <1>1, <1>2 DEF Expired, HeldByTask, Signaled, Stage

(* The one pass a step can add is the one it makes.                         *)
LEMMA NewIsCreated ==
  ASSUME IInv, [Next]_vars, NEW p \in Made', p \notin Made
  PROVE  \E s \in Shapes : Create(s) /\ p = Len(shape) + 1
<1>1. PICK s \in Shapes : Create(s)
  <2>1. shape' # shape
    BY DEF Made
  <2> QED BY <2>1
          DEF Next, vars, passes, Schedule, Drop, AwaitEvent, SyncDependencies,
              SyncAll, SyncOne, SyncReturn, MarkFrame, SetFlags, Task,
              Initialize, Begin, Signal, Release, StartGroup, EndGroup
<1>2. Len(shape') = Len(shape) + 1 /\ Len(shape) \in Nat
  BY <1>1 DEF Create, IInv, TypeOK
<1> QED BY <1>1, <1>2 DEF Made

(* When the wait group is at zero, or the loop has come to its end, no      *)
(* group is left.                                                           *)
LEMMA JoinedIsOver ==
  ASSUME IInv, NEW p \in Pass, Joined(p)
  PROVE  queued[p] = {} /\ running[p] = {}
<1>1. /\ IsFiniteSet(queued[p]) /\ IsFiniteSet(running[p])
      /\ stage[p] = "parallel" =>
           tasksGroup[p] = Cardinality(queued[p]) + Cardinality(running[p])
  BY DEF IInv, GroupsCounted, GroupsOf
<1>2. Cardinality(queued[p]) \in Nat /\ Cardinality(running[p]) \in Nat
  BY <1>1, FS_CardinalityType
<1>3. CASE stage[p] = "parallel" /\ tasksGroup[p] = 0
  <2>1. Cardinality(queued[p]) = 0 /\ Cardinality(running[p]) = 0
    BY <1>1, <1>2, <1>3
  <2> QED BY <1>1, <2>1, FS_EmptySet
<1>4. CASE ~(stage[p] = "parallel" /\ tasksGroup[p] = 0)
  BY <1>4 DEF Joined
<1> QED BY <1>3, <1>4
-----------------------------------------------------------------------------
(* Each part of the invariant, over a step.                                 *)

(* A pass gets its first stage when it is made, and the thread lets go of   *)
(* it only after it was scheduled.                                          *)
LEMMA StagesStep == IInv /\ [Next]_vars => StagesKept'
<1> SUFFICES ASSUME IInv, [Next]_vars PROVE StagesKept'
  OBVIOUS
<1> USE DEF IInv, StagesKept
<1>1. ASSUME NEW s \in Shapes, Create(s) PROVE StagesKept'
  BY <1>1, PassAssumption DEF Create, TypeOK, Pass
<1>2. ASSUME NEW p \in Pass, NEW external \in SUBSET (held \ {p}),
             Schedule(p, external)
      PROVE StagesKept'
  BY <1>2 DEF Schedule, TypeOK
<1>3. ASSUME NEW p \in Pass, Drop(p) PROVE StagesKept'
  BY <1>3 DEF Drop, Free, passes
<1>4. CASE UNCHANGED <<shape, stage, held>>
  BY <1>4
<1>5. ASSUME NEW p \in Pass, Task(p) PROVE StagesKept'
  BY <1>5, BegunIsMade
     DEF Task, Initialize, Begin, Signal, Release, StartGroup, EndGroup, Joined,
         main, TypeOK
<1> QED BY <1>1, <1>2, <1>3, <1>4, <1>5
        DEF Next, vars, passes, main, AwaitEvent, SyncDependencies, SyncAll,
            SyncOne, SyncReturn, MarkFrame, SetFlags

(* An earlier pass that conflicts leaves the dependencies of a pass only    *)
(* when it is over: the new pass waits for the unfinished ones, and a pass  *)
(* drops its dependencies when it has found all of them over or expired.    *)
LEMMA OrderStep == IInv /\ [Next]_vars => OrderWaited'
<1> SUFFICES ASSUME IInv, [Next]_vars PROVE OrderWaited'
  OBVIOUS
<1> SUFFICES ASSUME NEW q \in Made', NEW p \in 1 .. q - 1,
                    Conflict(shape'[p], shape'[q])
             PROVE  Waited(p, q)'
  BY DEF OrderWaited
<1>1. q \in Nat /\ p \in Nat /\ 1 <= p /\ p < q /\ 1 <= q
  BY DEF Made
<1>2. ASSUME NEW s \in Shapes, Create(s), q = Len(shape) + 1
      PROVE  Waited(p, q)'
  <2>1. p \in Made /\ p \in Pass /\ q \in Pass
    BY <1>1, <1>2, PassAssumption DEF Create, Made, Pass, IInv, TypeOK
  <2>2. shape'[p] = shape[p] /\ shape'[q] = s
    BY <1>2, <2>1 DEF Create, Made, IInv, TypeOK
  <2>3. ~Signaled(p) => p \in dependencies'[q]
    BY <1>2, <2>1, <2>2 DEF Create, IInv, TypeOK
  <2>4. ~Begun(q)'
    BY <1>2, <2>1 DEF Create, Begun, IInv, TypeOK
  <2> QED BY <2>1, <2>3, <2>4, NeverBack DEF Waited
<1>3. CASE ~\E s \in Shapes : Create(s) /\ q = Len(shape) + 1
  <2>1. /\ q \in Made /\ p \in Made /\ p \in Pass /\ q \in Pass
        /\ shape'[p] = shape[p] /\ shape'[q] = shape[q]
    <3>1. q \in Made
      BY <1>3, NewIsCreated
    <3>2. p \in Made
      BY <3>1, <1>1 DEF Made, IInv, TypeOK
    <3> QED BY <3>1, <3>2, NeverBack, MadeType DEF IInv
  <2>2. Waited(p, q)
    BY <2>1 DEF IInv, OrderWaited
  <2>3. CASE Signaled(p)
    BY <2>1, <2>3, NeverBack DEF Waited
  <2>4. CASE ~Signaled(p)
    <3>1. ~Begun(q) /\ p \in dependencies[q]
      BY <2>2, <2>4 DEF Waited
    <3> USE DEF Waited, Begun, IInv, TypeOK
    <3>2. ASSUME NEW s \in Shapes, Create(s) PROVE Waited(p, q)'
      <4>1. q # Len(shape) + 1
        BY <3>2, <1>3
      <4> QED BY <2>1, <3>1, <3>2, <4>1 DEF Create
    <3>3. ASSUME NEW r \in Pass, NEW external \in SUBSET (held \ {r}),
                 Schedule(r, external)
          PROVE Waited(p, q)'
      BY <2>1, <3>1, <3>3 DEF Schedule
    <3>4. CASE UNCHANGED <<stage, dependencies>>
      BY <3>1, <3>4
    <3>5. ASSUME NEW r \in Pass, Begin(r) PROVE Waited(p, q)'
      <4>1. CASE r = q
        <5>1. Expired(p) \/ Signaled(p)
          BY <4>1, <3>1, <3>5 DEF Begin, Ready
        <5> QED BY <5>1, <2>1, <2>4, ExpiredIsDone
      <4>2. CASE r # q
        BY <4>2, <2>1, <3>1, <3>5 DEF Begin
      <4> QED BY <4>1, <4>2
    <3>6. ASSUME NEW r \in Pass,
                 \/ Initialize(r) \/ Signal(r) \/ Release(r)
                 \/ \E g \in queued[r] : StartGroup(r, g)
                 \/ \E g \in running[r] : EndGroup(r, g)
          PROVE Waited(p, q)'
      BY <2>1, <3>1, <3>6
         DEF Initialize, Signal, Release, StartGroup, EndGroup, Joined
    <3> QED BY <3>2, <3>3, <3>4, <3>5, <3>6
            DEF Next, vars, passes, Drop, AwaitEvent, SyncDependencies, SyncAll,
                SyncOne, SyncReturn, MarkFrame, SetFlags, Task
  <2> QED BY <2>3, <2>4
<1> QED BY <1>2, <1>3

(* The groups of a pass move from one set to the other and out, and the     *)
(* count follows the ones that end; the body is over when none is left.     *)
LEMMA GroupsStep == IInv /\ [Next]_vars => GroupsCounted'
<1> SUFFICES ASSUME IInv, [Next]_vars PROVE GroupsCounted'
  OBVIOUS
<1> USE DEF IInv
<1>1. ASSUME UNCHANGED <<queued, running, tasksGroup>>,
             \A p \in Pass : stage[p] \in {"parallel", "serial"} => stage'[p] = stage[p],
             \A p \in Pass : stage'[p] \in {"parallel", "serial"} => stage'[p] = stage[p]
      PROVE  GroupsCounted'
  BY <1>1 DEF GroupsCounted, GroupsOf
<1>2. ASSUME NEW s \in Shapes, Create(s) PROVE GroupsCounted'
  <2>1. Len(shape) + 1 \in Pass => stage[Len(shape) + 1] = "unmade"
    BY DEF StagesKept, TypeOK
  <2> QED BY <1>1, <1>2, <2>1 DEF Create, TypeOK
<1>3. ASSUME NEW p \in Pass, NEW external \in SUBSET (held \ {p}),
             Schedule(p, external)
      PROVE GroupsCounted'
  BY <1>1, <1>3 DEF Schedule, TypeOK
<1>4. CASE UNCHANGED <<stage, queued, running, tasksGroup>>
  BY <1>1, <1>4
<1>5. ASSUME NEW p \in Pass, Initialize(p) \/ Release(p) PROVE GroupsCounted'
  BY <1>1, <1>5 DEF Initialize, Release, TypeOK
<1>6. ASSUME NEW p \in Pass, Begin(p) PROVE GroupsCounted'
  <2> SUFFICES ASSUME NEW q \in Pass PROVE GroupsOf(q)'
    BY DEF GroupsCounted
  <2>1. CASE q = p
    <3>1. shape[p].groups \in Nat
      BY <1>6, BegunIsMade, MadeType DEF Begin
    <3>2. /\ IsFiniteSet(1 .. shape[p].groups)
          /\ Cardinality(1 .. shape[p].groups) = shape[p].groups
      <4>1. /\ IsFiniteSet(1 .. shape[p].groups)
            /\ Cardinality(1 .. shape[p].groups) =
                 IF 1 > shape[p].groups THEN 0 ELSE shape[p].groups - 1 + 1
        BY <3>1, FS_Interval
      <4> QED BY <3>1, <4>1
    <3>3. queued[p] = {} /\ running[p] = {}
      BY <1>6 DEF Begin, GroupsCounted, GroupsOf
    <3>4. IsFiniteSet({}) /\ Cardinality({}) = 0
      BY FS_EmptySet
    <3>5. /\ queued'[p] = 1 .. shape[p].groups /\ running'[p] = {}
          /\ stage'[p] \in {"parallel", "serial"}
          /\ stage'[p] = "parallel" => tasksGroup'[p] = shape[p].groups
      BY <1>6, <3>3 DEF Begin, TypeOK, Count
    <3> QED BY <2>1, <3>1, <3>2, <3>4, <3>5 DEF GroupsOf
  <2>2. CASE q # p
    BY <1>6, <2>2 DEF Begin, TypeOK, GroupsCounted, GroupsOf
  <2> QED BY <2>1, <2>2
<1>7. ASSUME NEW p \in Pass, NEW g \in queued[p], StartGroup(p, g)
      PROVE  GroupsCounted'
  <2> SUFFICES ASSUME NEW q \in Pass PROVE GroupsOf(q)'
    BY DEF GroupsCounted
  <2>1. CASE q = p
    <3>1. /\ IsFiniteSet(queued[p]) /\ IsFiniteSet(running[p])
          /\ g \notin running[p] /\ stage[p] \in {"parallel", "serial"}
          /\ queued[p] \cap running[p] = {}
      BY DEF GroupsCounted, GroupsOf
    <3>2. /\ IsFiniteSet(queued[p] \ {g})
          /\ Cardinality(queued[p] \ {g}) = Cardinality(queued[p]) - 1
          /\ IsFiniteSet(running[p] \cup {g})
          /\ Cardinality(running[p] \cup {g}) = Cardinality(running[p]) + 1
          /\ Cardinality(queued[p]) \in Nat /\ Cardinality(running[p]) \in Nat
      BY <3>1, FS_RemoveElement, FS_AddElement, FS_CardinalityType
    <3>3. /\ queued'[p] = queued[p] \ {g} /\ running'[p] = running[p] \cup {g}
          /\ UNCHANGED <<stage, tasksGroup>>
      BY <1>7 DEF StartGroup, TypeOK
    <3> QED BY <2>1, <3>1, <3>2, <3>3 DEF GroupsCounted, GroupsOf
  <2>2. CASE q # p
    BY <1>7, <2>2 DEF StartGroup, TypeOK, GroupsCounted, GroupsOf
  <2> QED BY <2>1, <2>2
<1>8. ASSUME NEW p \in Pass, NEW g \in running[p], EndGroup(p, g)
      PROVE  GroupsCounted'
  <2> SUFFICES ASSUME NEW q \in Pass PROVE GroupsOf(q)'
    BY DEF GroupsCounted
  <2>1. CASE q = p
    <3>1. /\ IsFiniteSet(queued[p]) /\ IsFiniteSet(running[p])
          /\ stage[p] \in {"parallel", "serial"}
          /\ queued[p] \cap running[p] = {}
      BY DEF GroupsCounted, GroupsOf
    <3>2. /\ IsFiniteSet(running[p] \ {g})
          /\ Cardinality(running[p] \ {g}) = Cardinality(running[p]) - 1
          /\ Cardinality(queued[p]) \in Nat /\ Cardinality(running[p]) \in Nat
      BY <3>1, FS_RemoveElement, FS_CardinalityType
    <3>3. /\ queued'[p] = queued[p] /\ running'[p] = running[p] \ {g}
          /\ stage' = stage
          /\ stage[p] = "parallel" => tasksGroup'[p] = tasksGroup[p] - 1
      BY <1>8 DEF EndGroup, TypeOK, Done
    <3> QED BY <2>1, <3>1, <3>2, <3>3 DEF GroupsCounted, GroupsOf
  <2>2. CASE q # p
    BY <1>8, <2>2 DEF EndGroup, TypeOK, GroupsCounted, GroupsOf
  <2> QED BY <2>1, <2>2
<1>9. ASSUME NEW p \in Pass, Signal(p) PROVE GroupsCounted'
  <2> SUFFICES ASSUME NEW q \in Pass PROVE GroupsOf(q)'
    BY DEF GroupsCounted
  <2>1. CASE q = p
    <3>1. queued[p] = {} /\ running[p] = {}
      BY <1>9, JoinedIsOver DEF Signal
    <3>2. /\ UNCHANGED <<queued, running>> /\ stage'[p] = "signaled"
      BY <1>9 DEF Signal, TypeOK
    <3> QED BY <2>1, <3>1, <3>2 DEF GroupsCounted, GroupsOf
  <2>2. CASE q # p
    BY <1>9, <2>2 DEF Signal, TypeOK, GroupsCounted, GroupsOf
  <2> QED BY <2>1, <2>2
<1> QED BY <1>2, <1>3, <1>4, <1>5, <1>6, <1>7, <1>8, <1>9
        DEF Next, vars, passes, Drop, AwaitEvent, SyncDependencies, SyncAll,
            SyncOne, SyncReturn, MarkFrame, SetFlags, Task

(* A pass leaves the list when it has expired, or when sync_all has waited  *)
(* for all of them.                                                         *)
LEMMA ListedStep == IInv /\ [Next]_vars => UnfinishedListed'
<1> SUFFICES ASSUME IInv, [Next]_vars, NEW p \in Made',
                    ~Signaled(p)'
             PROVE  p \in allPasses'
  BY DEF UnfinishedListed
<1>1. CASE p \notin Made
  BY <1>1, NewIsCreated DEF Create
<1>2. CASE p \in Made
  <2>1. ~Signaled(p) /\ p \in allPasses
    BY <1>2, NeverBack, MadeType DEF IInv, UnfinishedListed
  <2>2. CASE MarkFrame
    BY <2>1, <2>2, <1>2, ExpiredIsDone DEF MarkFrame, Kept
  <2>3. CASE SyncReturn
    BY <2>1, <2>3, <1>2 DEF SyncReturn, IInv, SyncCovers
  <2>4. CASE allPasses \subseteq allPasses'
    BY <2>1, <2>4
  <2> QED BY <2>2, <2>3, <2>4
          DEF Next, vars, main, Create, Schedule, Drop, AwaitEvent,
              SyncDependencies, SyncAll, SyncOne, SetFlags, Task, Initialize,
              Begin, Signal, Release, StartGroup, EndGroup
<1> QED BY <1>1, <1>2

(* A synchronisation begins with every pass it must wait for in its list,   *)
(* takes one out when it is over or expired, and no pass is made meanwhile. *)
LEMMA SyncStep == IInv /\ [Next]_vars => SyncCovers'
<1> DEFINE Covered(p) == \/ sync # "no" /\ p \in todo
                         \/ sync # "all" /\ Touched(shape[p]) \cap changing = {}
<1> SUFFICES ASSUME IInv, [Next]_vars, NEW p \in Made', ~Signaled(p)'
             PROVE  Covered(p)'
  BY DEF SyncCovers
<1>1. CASE p \notin Made
  BY <1>1, NewIsCreated DEF Create, Free
<1>2. CASE p \in Made
  <2>1. /\ ~Signaled(p) /\ p \in allPasses /\ Covered(p)
        /\ shape'[p] = shape[p] /\ p \in Pass
    BY <1>2, NeverBack, MadeType DEF IInv, UnfinishedListed, SyncCovers
  <2>2. ASSUME NEW s \in Shapes, Create(s) PROVE Covered(p)'
    BY <2>1, <2>2 DEF Create, Free
  <2>3. ASSUME NEW q \in Pass, AwaitEvent(q) PROVE Covered(p)'
    BY <2>1, <2>3 DEF AwaitEvent, Free
  <2>4. ASSUME NEW r \in Resources, SyncDependencies(r) PROVE Covered(p)'
    BY <2>1, <2>4, <1>2 DEF SyncDependencies
  <2>5. CASE SyncAll
    BY <2>1, <2>5 DEF SyncAll
  <2>6. ASSUME NEW q \in Pass, SyncOne(q) PROVE Covered(p)'
    BY <2>1, <2>6, <1>2, ExpiredIsDone DEF SyncOne
  <2>7. CASE SyncReturn
    BY <2>1, <2>7 DEF SyncReturn
  <2>8. CASE UNCHANGED <<sync, todo, changing>>
    BY <2>1, <2>8
  <2> QED BY <2>2, <2>3, <2>4, <2>5, <2>6, <2>7, <2>8
          DEF Next, vars, main, Schedule, Drop, MarkFrame, SetFlags, Task,
              Initialize, Begin, Signal, Release, StartGroup, EndGroup
<1> QED BY <1>1, <1>2
-----------------------------------------------------------------------------
(* The theorems.                                                            *)

(* The invariant holds in every state the pipeline reaches.                 *)
THEOREM Invariance == Spec => []IInv
<1>1. Init => IInv
  <2> SUFFICES ASSUME Init PROVE IInv
    OBVIOUS
  <2>1. TypeOK
    BY TypeInit
  <2>2. Len(shape) = 0 /\ Made = {}
    BY DEF Init, Made
  <2>3. StagesKept
    BY <2>2, PassAssumption DEF Init, StagesKept, Pass
  <2>4. GroupsCounted
    BY FS_EmptySet DEF Init, GroupsCounted, GroupsOf
  <2> QED BY <2>1, <2>2, <2>3, <2>4
          DEF IInv, OrderWaited, UnfinishedListed, SyncCovers
<1>2. IInv /\ [Next]_vars => IInv'
  BY TypeStep, StagesStep, OrderStep, GroupsStep, ListedStep, SyncStep DEF IInv
<1> QED BY <1>1, <1>2, PTL DEF Spec

(* Every variable keeps its type; the count of a wait group in particular   *)
(* never goes below zero.                                                   *)
THEOREM TypeCorrect == Spec => []TypeOK
<1>1. IInv => TypeOK
  BY DEF IInv
<1> QED BY <1>1, Invariance, PTL

(* A signaled event means every group of the pass has ended.                *)
THEOREM EventsMeanDone == Spec => []EventMeansDone
<1>1. IInv => EventMeansDone
  BY DEF IInv, GroupsCounted, GroupsOf, EventMeansDone, Signaled
<1> QED BY <1>1, Invariance, PTL

(* Conflicting passes take effect in the order they were made, whatever     *)
(* runs in parallel.                                                        *)
THEOREM OrderKept == Spec => []ProgramOrder
<1>1. IInv => ProgramOrder
  <2> SUFFICES ASSUME IInv, NEW q \in Made, Begun(q), NEW p \in 1 .. q - 1,
                      Conflict(shape[p], shape[q])
               PROVE  Signaled(p) /\ queued[p] = {} /\ running[p] = {}
    BY DEF ProgramOrder
  <2>1. p \in Pass
    BY PassAssumption DEF IInv, TypeOK, Made, Pass
  <2>2. Signaled(p)
    BY DEF IInv, OrderWaited, Waited
  <2> QED BY <2>1, <2>2 DEF IInv, GroupsCounted, GroupsOf, Signaled
<1> QED BY <1>1, Invariance, PTL

(* Whoever finds that a pass has expired may take it for over.              *)
THEOREM ExpiredAreDone == Spec => []ExpiredMeansDone
<1>1. IInv => ExpiredMeansDone
  BY ExpiredIsDone DEF ExpiredMeansDone
<1> QED BY <1>1, Invariance, PTL

(* When a synchronisation has returned, nothing that touches what it was    *)
(* for is left to run, though mark_frame may have forgotten passes.         *)
THEOREM SyncedIsAlone == Spec => []SyncedAlone
<1>1. IInv => SyncedAlone
  BY DEF IInv, SyncCovers, SyncedAlone
<1> QED BY <1>1, Invariance, PTL
-----------------------------------------------------------------------------
(* The refinement.                                                          *)

(* Passes that keep their stage and their shape keep their phase.           *)
LEMMA PhaseKept ==
  ASSUME shape' = shape, NEW P \in SUBSET Pass,
         \A p \in P : stage'[p] = stage[p]
  PROVE  \A p \in P : Phase'[p] = Phase[p]
BY DEF Phase

LEMMA PhaseSame ==
  ASSUME shape' = shape, \A p \in Pass : Phase'[p] = Phase[p]
  PROVE  UNCHANGED <<shape, Phase>>
BY DEF Phase

(* A pass that moves alone moves in the schedule as MoveTo says.            *)
LEMMA PhaseMoved ==
  ASSUME shape' = shape, NEW p \in Pass, NEW f, Phase'[p] = f,
         \A q \in Pass \ {p} : stage'[q] = stage[q]
  PROVE  Abstract!MoveTo(p, f)
<1>1. \A q \in Pass \ {p} : Phase'[q] = Phase[q]
  BY PhaseKept
<1> QED BY <1>1 DEF Phase, Abstract!MoveTo, Abstract!Pass, Pass

(* Making a pass is making it in the schedule.                              *)
LEMMA CreateRefines ==
  ASSUME IInv, NEW s \in Shapes, Create(s)
  PROVE  Abstract!Make(<<s>>)
<1> DEFINE n == Len(shape) + 1
<1>1. /\ n \in Pass /\ shape \in Seq(Shapes) /\ Len(shape) \in Nat
      /\ stage \in [Pass -> Stage] /\ MaxPasses \in Nat /\ n <= MaxPasses
  BY PassAssumption DEF Create, Pass, IInv, TypeOK
<1>2. shape' = shape \o <<s>>
  BY <1>1 DEF Create
<1>3. stage'[n] = "made" /\ shape'[n] = s
  BY <1>1 DEF Create
<1>4. Phase'[n] = IF s.init THEN "made" ELSE "initialized"
  BY <1>1, <1>3 DEF Phase
<1>5. ASSUME NEW p \in Pass, p # n PROVE Phase'[p] = Phase[p]
  <2>1. stage'[p] = stage[p]
    BY <1>1, <1>5 DEF Create
  <2>2. CASE p <= Len(shape)
    <3>1. shape'[p] = shape[p]
      BY <2>2, <1>1 DEF Create, Pass
    <3> QED BY <2>1, <3>1 DEF Phase
  <2>3. CASE p > Len(shape)
    <3>1. stage[p] = "unmade"
      BY <2>3 DEF IInv, StagesKept
    <3> QED BY <2>1, <3>1 DEF Phase
  <2> QED BY <2>2, <2>3, <1>1 DEF Pass
<1>6. Phase' = [p \in Pass |-> IF p - Len(shape) \notin DOMAIN <<s>> THEN Phase[p]
                 ELSE IF <<s>>[p - Len(shape)].init THEN "made" ELSE "initialized"]
  <2>1. \A p \in Pass : p - Len(shape) \in DOMAIN <<s>> <=> p = n
    BY <1>1 DEF Pass
  <2>2. ASSUME NEW p \in Pass
        PROVE  Phase'[p] = IF p - Len(shape) \notin DOMAIN <<s>> THEN Phase[p]
                 ELSE IF <<s>>[p - Len(shape)].init THEN "made" ELSE "initialized"
    <3>1. CASE p = n
      <4>1. p - Len(shape) = 1 /\ p - Len(shape) \in DOMAIN <<s>>
        BY <1>1, <3>1
      <4> QED BY <1>4, <3>1, <4>1
    <3>2. CASE p # n
      BY <1>5, <2>1, <3>2
    <3> QED BY <3>1, <3>2
  <2> QED BY <2>2 DEF Phase
<1>7. Len(shape) + Len(<<s>>) <= MaxPasses
  BY <1>1
<1> QED BY <1>2, <1>6, <1>7 DEF Abstract!Make, Abstract!Pass, Pass

(* A step of a task is a step of its pass in the schedule, or none.  The    *)
(* pass begins with the earlier ones it conflicts with over, because the    *)
(* invariant holds after the step.                                          *)
LEMMA TaskRefines ==
  ASSUME IInv, IInv', NEW p \in Pass, Task(p)
  PROVE  \/ UNCHANGED <<shape, Phase>>
         \/ Abstract!Initialize(p) \/ Abstract!Begin(p) \/ Abstract!End(p)
<1> USE DEF IInv, TypeOK
<1>1. ASSUME Initialize(p)
      PROVE  UNCHANGED <<shape, Phase>> \/ Abstract!Initialize(p)
  <2>1. /\ shape' = shape /\ Phase'[p] = "initialized"
        /\ \A q \in Pass \ {p} : stage'[q] = stage[q]
    BY <1>1 DEF Initialize, Phase
  <2>2. Phase[p] = IF shape[p].init THEN "made" ELSE "initialized"
    BY <1>1 DEF Initialize, Phase
  <2>3. CASE shape[p].init
    BY <2>1, <2>2, <2>3, PhaseMoved DEF Abstract!Initialize
  <2>4. CASE ~shape[p].init
    <3>1. \A q \in Pass : Phase'[q] = Phase[q]
      BY <2>1, <2>2, <2>4, PhaseKept
    <3> QED BY <2>1, <3>1, PhaseSame
  <2> QED BY <2>3, <2>4
<1>2. ASSUME Begin(p) PROVE Abstract!Begin(p)
  <2>1. /\ shape' = shape /\ Phase[p] = "initialized" /\ Phase'[p] = "begun"
        /\ \A q \in Pass \ {p} : stage'[q] = stage[q]
    BY <1>2 DEF Begin, Phase
  <2>2. p \in Made /\ Begun(p)'
    BY <1>2, BegunIsMade DEF Begin, Begun
  <2>3. ASSUME NEW q \in 1 .. p - 1, Conflict(shape[q], shape[p])
        PROVE  Phase[q] = "over"
    <3>1. q \in Pass \ {p}
      BY PassAssumption DEF Pass
    <3>2. Waited(q, p)'
      BY <2>1, <2>2, <2>3 DEF OrderWaited, Made
    <3>3. Signaled(q)
      BY <2>1, <2>2, <3>1, <3>2 DEF Waited, Signaled
    <3> QED BY <3>1, <3>3 DEF Phase, Signaled
  <2>4. Abstract!MoveTo(p, "begun")
    BY <2>1, PhaseMoved
  <2> QED BY <2>1, <2>3, <2>4 DEF Abstract!Begin, Abstract!Over, Abstract!Conflict,
                                  Abstract!Touched, Conflict, Touched
<1>3. ASSUME Signal(p) PROVE Abstract!End(p)
  <2>1. /\ shape' = shape /\ Phase[p] = "begun" /\ Phase'[p] = "over"
        /\ \A q \in Pass \ {p} : stage'[q] = stage[q]
    BY <1>3 DEF Signal, Joined, Phase
  <2> QED BY <2>1, PhaseMoved DEF Abstract!End
<1>4. ASSUME Release(p) PROVE UNCHANGED <<shape, Phase>>
  <2>1. /\ shape' = shape /\ Phase[p] = "over" /\ Phase'[p] = "over"
        /\ \A q \in Pass \ {p} : stage'[q] = stage[q]
    BY <1>4 DEF Release, Phase
  <2>2. \A q \in Pass : Phase'[q] = Phase[q]
    BY <2>1, PhaseKept
  <2> QED BY <2>1, <2>2, PhaseSame
<1>5. ASSUME \/ \E g \in queued[p] : StartGroup(p, g)
             \/ \E g \in running[p] : EndGroup(p, g)
      PROVE  UNCHANGED <<shape, Phase>>
  BY <1>5 DEF StartGroup, EndGroup, Phase
<1> QED BY <1>1, <1>2, <1>3, <1>4, <1>5 DEF Task

(* The pipeline implements the schedule, for any number of passes, groups   *)
(* and threads: passes go through their phases one by one, and none begins  *)
(* before an earlier one it conflicts with is over.                         *)
THEOREM Refinement == Spec => ImplementsSchedule
<1>1. Init => Abstract!ScheduleInit
  BY DEF Init, Abstract!ScheduleInit, Phase, Pass, Abstract!Pass
<1>2. IInv /\ IInv' /\ [Next]_vars => [Abstract!ScheduleNext]_<<shape, Phase>>
  <2> SUFFICES ASSUME IInv, IInv', [Next]_vars
               PROVE  [Abstract!ScheduleNext]_<<shape, Phase>>
    OBVIOUS
  <2>1. ASSUME NEW s \in Shapes, Create(s)
        PROVE  Abstract!ScheduleNext
    BY <2>1, CreateRefines DEF Abstract!ScheduleNext
  <2>2. ASSUME NEW p \in Pass, NEW external \in SUBSET (held \ {p}), Schedule(p, external)
        PROVE  UNCHANGED <<shape, Phase>>
    <3>1. /\ shape' = shape /\ Phase'[p] = Phase[p]
          /\ \A q \in Pass \ {p} : stage'[q] = stage[q]
      BY <2>2 DEF Schedule, Phase, IInv, TypeOK
    <3>2. \A q \in Pass : Phase'[q] = Phase[q]
      BY <3>1, PhaseKept
    <3> QED BY <3>1, <3>2, PhaseSame
  <2>3. CASE UNCHANGED <<shape, stage>>
    BY <2>3 DEF Phase
  <2>4. ASSUME NEW p \in Pass, Task(p)
        PROVE  [Abstract!ScheduleNext]_<<shape, Phase>>
    BY <2>4, TaskRefines DEF Abstract!ScheduleNext, Abstract!Pass, Pass
  <2> QED BY <2>1, <2>2, <2>3, <2>4
          DEF Next, vars, passes, Drop, AwaitEvent, SyncDependencies, SyncAll,
              SyncOne, SyncReturn, MarkFrame, SetFlags
<1> QED BY <1>1, <1>2, Invariance, PTL
        DEF Spec, ImplementsSchedule, Abstract!ScheduleSpec
=============================================================================
