----------------------------- MODULE EcsSchedule -----------------------------
(***************************************************************************)
(* What the pipeline promises the program that makes passes: each pass is  *)
(* initialised, begins once every earlier pass it conflicts with is over,  *)
(* and ends.  Nothing is said of events, pointers, tasks and groups:       *)
(* EcsPipeline implements this schedule with them, and BoidsFrame is a     *)
(* program written against it.                                             *)
(*                                                                         *)
(* Only the beginning is ordered.  The init function of a pass runs as     *)
(* soon as some thread takes it, beside whatever runs then.                *)
(***************************************************************************)
EXTENDS Integers, Sequences, EcsShapes

CONSTANTS
  Shapes,   \* the passes the program makes: reads, writes, init
  MaxPasses \* bound: passes made

VARIABLES
  shape, \* the passes made so far
  phase  \* how far each one is

Pass == 1 .. MaxPasses
Made == 1 .. Len(shape)

Over(p) == phase[p] = "over"

ScheduleTypeOK ==
  /\ shape \in Seq(Shapes) /\ Len(shape) <= MaxPasses
  /\ phase \in [Pass -> {"unmade", "made", "initialized", "begun", "over"}]

ScheduleInit ==
  /\ shape = <<>>
  /\ phase = [p \in Pass |-> "unmade"]

MoveTo(p, f) == phase' = [phase EXCEPT ![p] = f]

(* Passes are made, in the order of ss.  One without an init function of    *)
(* its own has nothing to initialise.                                       *)
Make(ss) ==
  /\ Len(shape) + Len(ss) <= MaxPasses
  /\ shape' = shape \o ss
  /\ phase' = [p \in Pass |->
       IF p - Len(shape) \notin DOMAIN ss THEN phase[p]
       ELSE IF ss[p - Len(shape)].init THEN "made" ELSE "initialized"]

Initialize(p) ==
  /\ phase[p] = "made" /\ MoveTo(p, "initialized")
  /\ UNCHANGED shape

Begin(p) ==
  /\ phase[p] = "initialized" /\ MoveTo(p, "begun")
  /\ \A q \in 1 .. p - 1 : Conflict(shape[q], shape[p]) => Over(q)
  /\ UNCHANGED shape

End(p) ==
  /\ phase[p] = "begun" /\ MoveTo(p, "over")
  /\ UNCHANGED shape

ScheduleNext ==
  \/ \E s \in Shapes : Make(<<s>>)
  \/ \E p \in Pass : Initialize(p) \/ Begin(p) \/ End(p)

ScheduleSpec == ScheduleInit /\ [][ScheduleNext]_<<shape, phase>>
=============================================================================
