----------------------------- MODULE EcsPipeline -----------------------------
(***************************************************************************)
(* The ECS pipeline: the thread that makes passes and synchronises with    *)
(* them, and the tasks of the scheduler that run them.  A pass declares    *)
(* what it reads and writes; it waits for the events of the passes its     *)
(* declaration makes it depend on, runs its body (one task per group of    *)
(* chunks, or the groups one after another), and signals its own event.    *)
(*                                                                         *)
(* The codebase the pipeline derives from (core::codebase, where the       *)
(* dependencies are computed) and marl (fibers, events, wait groups) are   *)
(* not part of the repository.  They are modelled by what this code relies *)
(* on: a pass depends on every earlier one it conflicts with, an event     *)
(* stays signaled, and a task that can go on is run sooner or later.       *)
(*                                                                         *)
(* Passes are numbered in the order they are made.  A definition that      *)
(* shares the name of the one after it, with a suffix, is a slip that      *)
(* could be made in its place; nothing uses it.                            *)
(***************************************************************************)
EXTENDS Integers, Sequences, FiniteSets, EcsShapes

CONSTANTS
  Resources,       \* component arrays and shared_resources
  Shapes,          \* the passes the program makes
  MinParallelTask, \* groups a pass must have more of, to run them in parallel
  Switches,        \* values given to force_no_fibers, force_no_group_parallel
  MaxPasses        \* bound: passes made

(* custom: made by create_custom_pass, a body and no groups.  init: given   *)
(* to schedule_init with an init function, which schedule leaves empty.     *)
Shape == [custom : BOOLEAN, init : BOOLEAN, reads : SUBSET Resources,
          writes : SUBSET Resources, groups : Nat, hasRandomWrite : BOOLEAN,
          force : {"no", "parallel", "no_group_parallel"}]

ASSUME ShapeAssumption == Shapes \subseteq Shape
ASSUME SwitchAssumption == Switches \subseteq BOOLEAN \X BOOLEAN
ASSUME PassAssumption == MinParallelTask \in Nat /\ MaxPasses \in Nat

VARIABLES
  shape,        \* the passes made so far
  stage,        \* how far each pass is
  dependencies, \* the passes it still has to wait for
  queued,       \* its groups nobody runs yet
  running,      \* its groups some task is in the middle of
  tasksGroup,   \* the count of its WaitGroup
  held,         \* passes whose shared_ptr the making thread holds
  allPasses,    \* weak pointers to the passes made
  inline,       \* the pass that thread is running itself, or 0
  sync,         \* what that thread is blocked in: "no", "all", "some"
  todo,         \* passes it has not waited for yet
  changing,     \* resources it may touch after a synchronisation
  force_no_fibers, force_no_group_parallel

passes == <<shape, stage, dependencies, queued, running, tasksGroup>>
main   == <<held, allPasses, inline, sync, todo, changing>>
flags  == <<force_no_fibers, force_no_group_parallel>>
vars   == <<passes, main, flags>>

Pass == 1 .. MaxPasses
Made == 1 .. Len(shape)

Stage == {"unmade", "made", "scheduled", "waiting", "parallel", "serial",
          "signaled", "released"}

(* The event has been signaled: for a pass that ran, its body is over.      *)
Signaled(p) == stage[p] \in {"signaled", "released"}

Begun(p) == stage[p] \in {"parallel", "serial", "signaled", "released"}

HeldByTaskNot(p) == FALSE
(* The closure given to the scheduler captures the shared_ptr by value.     *)
HeldByTask(p) ==
  stage[p] \in {"scheduled", "waiting", "parallel", "serial", "signaled"}

Expired(p) == p \notin held /\ ~HeldByTask(p)

TypeOK ==
  /\ shape \in Seq(Shapes) /\ Len(shape) <= MaxPasses
  /\ stage \in [Pass -> Stage]
  /\ dependencies \in [Pass -> SUBSET Pass]
  /\ queued \in [Pass -> SUBSET Nat] /\ running \in [Pass -> SUBSET Nat]
  /\ tasksGroup \in [Pass -> Nat]
  /\ held \subseteq Pass /\ allPasses \subseteq Pass /\ todo \subseteq Pass
  /\ inline \in Pass \cup {0} /\ sync \in {"no", "all", "some"}
  /\ changing \subseteq Resources
  /\ force_no_fibers \in BOOLEAN /\ force_no_group_parallel \in BOOLEAN

Init ==
  /\ shape = <<>>
  /\ stage = [p \in Pass |-> "unmade"]
  /\ dependencies = [p \in Pass |-> {}]
  /\ queued = [p \in Pass |-> {}] /\ running = [p \in Pass |-> {}]
  /\ tasksGroup = [p \in Pass |-> 0]
  /\ held = {} /\ allPasses = {} /\ todo = {} /\ changing = {}
  /\ inline = 0 /\ sync = "no"
  /\ force_no_fibers = FALSE /\ force_no_group_parallel = FALSE
-----------------------------------------------------------------------------
(* The thread that makes passes                                            *)

Free == inline = 0 /\ sync = "no" /\ \A p \in Pass : stage[p] # "made"

(* create_pass and create_custom_pass.  The dependencies are the earlier    *)
(* passes not over yet that conflict with the new one.                      *)
Create(s) ==
  LET p == Len(shape) + 1 IN
  /\ Free /\ p <= MaxPasses
  /\ shape' = Append(shape, s)
  /\ stage' = [stage EXCEPT ![p] = "made"]
  /\ dependencies' =
       [dependencies EXCEPT ![p] = {q \in Made : ~Signaled(q) /\ Conflict(shape[q], s)}]
  /\ held' = held \cup {p}
  /\ allPasses' = allPasses \cup {p}
  /\ changing' = {}
  /\ UNCHANGED <<queued, running, tasksGroup, inline, sync, todo, flags>>

(* schedule, schedule_init and schedule_custom, with the events of some     *)
(* passes it holds as externalDependencies.  A pass that is not custom runs  *)
(* at once on this thread if fibers are turned off.                         *)
Schedule(p, external) ==
  /\ stage[p] = "made"
  /\ stage' = [stage EXCEPT ![p] = "scheduled"]
  /\ dependencies' = [dependencies EXCEPT ![p] = @ \cup external]
  /\ inline' = IF force_no_fibers /\ ~shape[p].custom THEN p ELSE 0
  /\ UNCHANGED <<shape, queued, running, tasksGroup, held, allPasses, sync,
                 todo, changing, flags>>

(* The shared_ptr create_pass returned goes out of scope.                   *)
Drop(p) ==
  /\ Free /\ p \in held
  /\ held' = held \ {p}
  /\ UNCHANGED <<passes, allPasses, inline, sync, todo, changing, flags>>

(* event.wait() on a pass whose shared_ptr is held.                         *)
AwaitEvent(p) ==
  /\ Free /\ p \in held
  /\ sync' = "some" /\ todo' = {p}
  /\ UNCHANGED <<passes, held, allPasses, inline, changing, flags>>

(* sync_dependencies, with the passes that touch what is to be changed.     *)
SyncDependencies(r) ==
  /\ Free
  /\ sync' = "some" /\ todo' = {p \in Made : r \in Touched(shape[p])}
  /\ changing' = {r}
  /\ UNCHANGED <<passes, held, allPasses, inline, flags>>

SyncAll ==
  /\ Free
  /\ sync' = "all" /\ todo' = allPasses
  /\ changing' = Resources
  /\ UNCHANGED <<passes, held, allPasses, inline, flags>>

(* One turn of a synchronisation's loop: lock the weak pointer and, if the  *)
(* pass is still there, wait for its event.                                 *)
SyncOne(p) ==
  /\ p \in todo
  /\ Expired(p) \/ Signaled(p)
  /\ todo' = todo \ {p}
  /\ UNCHANGED <<passes, held, allPasses, inline, sync, changing, flags>>

(* The loop is over; sync_all clears the list.                              *)
SyncReturn ==
  /\ sync # "no" /\ todo = {}
  /\ sync' = "no"
  /\ allPasses' = IF sync = "all" THEN {} ELSE allPasses
  /\ UNCHANGED <<passes, held, inline, todo, changing, flags>>

KeptHeld == {p \in allPasses : p \in held}
Kept == {p \in allPasses : ~Expired(p)}

(* mark_frame: forget the passes that have expired.                         *)
MarkFrame ==
  /\ Free
  /\ allPasses' = Kept
  /\ UNCHANGED <<passes, held, inline, sync, todo, changing, flags>>

(* The program assigns the two switches between frames.                     *)
SetFlags ==
  /\ Free
  /\ \E s \in Switches : force_no_fibers' = s[1] /\ force_no_group_parallel' = s[2]
  /\ UNCHANGED <<passes, main>>
-----------------------------------------------------------------------------
(* The task of a pass                                                      *)

(* The init function and create_tasks, before the dependencies.             *)
Initialize(p) ==
  /\ stage[p] = "scheduled"
  /\ stage' = [stage EXCEPT ![p] = "waiting"]
  /\ UNCHANGED <<shape, dependencies, queued, running, tasksGroup, main, flags>>

ReadyAlways(p) == TRUE
(* wait_for_dependencies and the waits for the external events.             *)
Ready(p) == \A q \in dependencies[p] : Expired(q) \/ Signaled(q)

(* recommandParallel, the template arguments and the pipeline's switch.     *)
Parallel(p) ==
  /\ ~shape[p].custom /\ ~force_no_group_parallel
  /\ \/ shape[p].force = "parallel"
     \/ /\ shape[p].force = "no"
        /\ ~shape[p].hasRandomWrite /\ shape[p].groups > MinParallelTask

CountTooFar(p) == shape[p].groups + 1
(* WaitGroup tasksGroup(groups.size) *)
Count(p) == shape[p].groups

(* release_dependencies, and the body begins.                               *)
Begin(p) ==
  /\ stage[p] = "waiting" /\ Ready(p)
  /\ dependencies' = [dependencies EXCEPT ![p] = {}]
  /\ queued' = [queued EXCEPT ![p] = 1 .. shape[p].groups]
  /\ IF Parallel(p)
     THEN /\ stage' = [stage EXCEPT ![p] = "parallel"]
          /\ tasksGroup' = [tasksGroup EXCEPT ![p] = Count(p)]
     ELSE /\ stage' = [stage EXCEPT ![p] = "serial"]
          /\ UNCHANGED tasksGroup
  /\ UNCHANGED <<shape, running, main, flags>>

(* A task of the scheduler takes a group, or the loop comes to it.          *)
StartGroup(p, g) ==
  /\ stage[p] = "serial" => running[p] = {} /\ \A k \in queued[p] : g <= k
  /\ queued' = [queued EXCEPT ![p] = @ \ {g}]
  /\ running' = [running EXCEPT ![p] = @ \cup {g}]
  /\ UNCHANGED <<shape, stage, dependencies, tasksGroup, main, flags>>

DoneTwice(p) == IF stage[p] = "parallel" THEN tasksGroup[p] - 2 ELSE 0
(* tasksGroup.done(), deferred to the end of a group's task.                *)
Done(p) == IF stage[p] = "parallel" THEN tasksGroup[p] - 1 ELSE 0

EndGroup(p, g) ==
  /\ running' = [running EXCEPT ![p] = @ \ {g}]
  /\ tasksGroup' = [tasksGroup EXCEPT ![p] = Done(p)]
  /\ UNCHANGED <<shape, stage, dependencies, queued, main, flags>>

JoinedAtOnce(p) ==
  \/ stage[p] = "parallel"
  \/ stage[p] = "serial" /\ queued[p] = {} /\ running[p] = {}
(* tasksGroup.wait(), or the loop is over.                                  *)
Joined(p) ==
  \/ stage[p] = "parallel" /\ tasksGroup[p] = 0
  \/ stage[p] = "serial" /\ queued[p] = {} /\ running[p] = {}

(* event.signal(), deferred to the end of the task.                         *)
Signal(p) ==
  /\ Joined(p)
  /\ stage' = [stage EXCEPT ![p] = "signaled"]
  /\ UNCHANGED <<shape, dependencies, queued, running, tasksGroup, main, flags>>

(* The closure is destroyed, and its shared_ptr with it.                    *)
Release(p) ==
  /\ stage[p] = "signaled"
  /\ stage' = [stage EXCEPT ![p] = "released"]
  /\ inline' = IF inline = p THEN 0 ELSE inline
  /\ UNCHANGED <<shape, dependencies, queued, running, tasksGroup, held,
                 allPasses, sync, todo, changing, flags>>

Task(p) ==
  \/ Initialize(p) \/ Begin(p) \/ Signal(p) \/ Release(p)
  \/ \E g \in queued[p] : StartGroup(p, g)
  \/ \E g \in running[p] : EndGroup(p, g)
-----------------------------------------------------------------------------
Next ==
  \/ \E s \in Shapes : Create(s)
  \/ \E p \in Pass : \E external \in SUBSET (held \ {p}) : Schedule(p, external)
  \/ \E p \in Pass : Drop(p) \/ AwaitEvent(p)
  \/ \E r \in Resources : SyncDependencies(r)
  \/ SyncAll
  \/ \E p \in Pass : SyncOne(p)
  \/ SyncReturn
  \/ MarkFrame
  \/ SetFlags
  \/ \E p \in Pass : Task(p)

(* The scheduler runs every task that can go on, bodies come to an end, and *)
(* the making thread finishes the calls it has begun.  Nothing obliges it   *)
(* to make a pass or to synchronise.                                        *)
Fairness ==
  /\ \A p \in Pass : WF_vars(Task(p))
  /\ WF_vars(\E p \in Pass : SyncOne(p)) /\ WF_vars(SyncReturn)

Spec == Init /\ [][Next]_vars /\ Fairness
-----------------------------------------------------------------------------
(* What the stages of a pass are in the schedule the program sees.          *)

Phase == [p \in Pass |->
  CASE stage[p] = "unmade"                 -> "unmade"
    [] stage[p] \in {"made", "scheduled"}  -> IF shape[p].init THEN "made" ELSE "initialized"
    [] stage[p] = "waiting"                -> "initialized"
    [] stage[p] \in {"parallel", "serial"} -> "begun"
    [] OTHER                               -> "over"]

Abstract == INSTANCE EcsSchedule WITH phase <- Phase
-----------------------------------------------------------------------------
(* Properties                                                              *)

(* The pipeline keeps the promise of EcsSchedule: a pass goes through its   *)
(* phases once, none left out, and begins only after every earlier one it   *)
(* conflicts with, on whatever threads they run.                            *)
ImplementsSchedule == Abstract!ScheduleSpec

(* Conflicting passes take effect in the order they were made: the body of  *)
(* one begins only when every earlier pass it conflicts with is over, on    *)
(* whatever threads they run.                                               *)
ProgramOrder ==
  \A q \in Made : Begun(q) =>
    \A p \in 1 .. q - 1 : Conflict(shape[p], shape[q]) =>
      Signaled(p) /\ queued[p] = {} /\ running[p] = {}

(* A signaled event means all of the pass is over: no task of one of its    *)
(* groups, which refer to the pass's closure, runs or is still to run.      *)
EventMeansDone ==
  \A p \in Pass : Signaled(p) => queued[p] = {} /\ running[p] = {}

(* A weak pointer that no longer locks says the same as a signaled event,   *)
(* so whoever skips an expired pass skips nothing it should wait for.       *)
ExpiredMeansDone ==
  \A p \in Made : Expired(p) => Signaled(p)

(* When a synchronisation returns the thread has what it asked for to       *)
(* itself: after sync_all everything, whatever mark_frame forgot before,    *)
(* after sync_dependencies the resource it named.                           *)
SyncedAlone ==
  sync = "no" =>
    \A p \in Made : Touched(shape[p]) \cap changing # {} => Signaled(p)

(* Every pass given to the scheduler is over one day: no circle of waits.   *)
PassesEnd ==
  \A p \in Pass : stage[p] = "scheduled" ~> Signaled(p)

(* Every synchronisation returns.                                           *)
SyncsReturn == sync # "no" ~> sync = "no"
=============================================================================
