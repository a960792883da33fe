-------------------------- MODULE VulkanFrame_proofs --------------------------
(***************************************************************************)
(* Proofs about VulkanFrame: for any programs, frames and passes, any      *)
(* number of images, handed out in any order, and for any interleaving of  *)
(* the thread, the GPU and the presentation engine.                        *)
(***************************************************************************)
EXTENDS VulkanFrame, TLAPS

(* The thread waits for an idle queue after each submission, so the queue   *)
(* holds at most one draw: the last thing on it, the one of the pass the    *)
(* thread is at, whose command buffer, framebuffer and fence it uses.       *)
DrawKept ==
  /\ pc # "wait_idle" => Drawing = {}
  /\ \A k \in Drawing :
       /\ k = Len(queue) /\ queue[k].pass = p
       /\ cb[p] = "pending" /\ target[p] = queue[k].image /\ fence[p] = "unsignaled"
  /\ \A k \in 1 .. Len(queue) : queue[k].started => k = 1

FenceReset == pc = "submit" => fence[p] = "unsignaled"

(* The signal of an acquire is taken by the draw submitted next.            *)
AcquireTaken ==
  present_complete # "unsignaled" =>
    \/ pc \in {"wait_fence", "reset_fence", "submit"}
    \/ \E k \in Drawing : ~queue[k].started

Presents == {k \in 1 .. Len(queue) : queue[k].kind = "present"}
Idle == pc = "wait_idle" /\ Drawing = {}

(* The signal of a draw is taken by the present of its frame, if no other   *)
(* pass draws in it.                                                        *)
DrawTaken ==
  Len(program.frame) = 1 /\ render_to_screen = "signaled" =>
    \/ pc \in {"reset_cb", "present"} \/ Idle
    \/ Presents # {}

IInv == TypeOK /\ DrawKept /\ FenceReset /\ AcquireTaken /\ DrawTaken

(* Some acquire has succeeded: its signal is there to be taken, or a draw   *)
(* has taken one.                                                           *)
Acquired ==
  \/ present_complete # "unsignaled" \/ last_draw.image # NoImage
  \/ \E k \in Drawing : queue[k].started

(* Since the first acquire back_buffer is the image after the last, and the *)
(* framebuffer is made for it.                                              *)
GuessRight ==
  /\ Acquired \/ ImageCount = 3 => next_image = BackBuffer
  /\ pc = "acquire" => target[p] = BackBuffer

(* The last image acquired is still the program's to draw to.               *)
Ours == image_index \in Image /\ image[image_index] = "acquired"

(* What was acquired waits for the draw submitted next.                     *)
TargetAcquired ==
  /\ pc \in {"wait_fence", "reset_fence", "submit"} /\ present_complete # "unsignaled" =>
       Ours /\ (Guessed => target[p] = image_index)
  /\ \A k \in Drawing : queue[k].started \/ present_complete # "unsignaled" =>
       Ours /\ (Guessed => queue[k].image = image_index)

(* A present still to start is of another image than the one acquired since.*)
HeadOther ==
  queue # <<>> /\ Head(queue).kind = "present" /\ render_to_screen = "signaled"
    /\ present_complete # "unsignaled" => Head(queue).image # image_index

(* An image a present may show: drawn if the last draw went to it.          *)
Ready(i) ==
  /\ i \in Image
  /\ image[i] = IF i = last_draw.image THEN "drawn" ELSE "acquired"
  /\ last_draw.guessed => i = last_draw.image

(* From the end of a draw to the next acquire nobody but a present takes    *)
(* the image acquired for it.                                               *)
Between == pc \in {"record", "acquire", "reset_cb", "present", "wait_copy"} \/ Idle
LastDrawn ==
  render_to_screen = "signaled" /\ Presents = {} /\ Between => Ready(image_index)

(* The engine holds the images handed to it, each once.                     *)
FlipsQueued ==
  /\ \A k \in 1 .. Len(flips) : image[flips[k]] = "queued"
  /\ \A k, l \in 1 .. Len(flips) : k # l => flips[k] # flips[l]

ImageInv ==
  /\ GuessRight /\ TargetAcquired /\ HeadOther
  /\ LastDrawn /\ PresentsDrawn /\ FlipsQueued
-----------------------------------------------------------------------------
(* Type correctness.                                                        *)

(* The pass whose turn it is is one of the program's.                       *)
LEMMA TurnType ==
  ASSUME TypeOK
  PROVE  /\ p \in Passes /\ program.frame \in Seq(Passes)
         /\ Len(program.frame) \in Nat /\ turn \in 1 .. Len(program.frame)
<1>1. program.frame \in Seq(Passes) /\ turn \in 1 .. Len(program.frame)
  BY ProgramAssumption DEF TypeOK, Program
<1> QED BY <1>1 DEF p

(* An entry of the queue.                                                   *)
LEMMA QueueType ==
  ASSUME TypeOK
  PROVE  /\ queue \in Seq(Entry) /\ Len(queue) \in Nat
         /\ \A k \in 1 .. Len(queue) : queue[k] \in Entry
         /\ Drawing \subseteq 1 .. Len(queue)
<1>1. queue \in Seq(Entry)
  BY DEF TypeOK
<1> QED BY <1>1 DEF Drawing

(* The head of the queue is its first entry, and the rest are entries.      *)
LEMMA HeadType ==
  ASSUME TypeOK, queue # <<>>
  PROVE  /\ Head(queue) = queue[1] /\ Head(queue) \in Entry /\ Len(queue) >= 1
         /\ Tail(queue) \in Seq(Entry)
BY QueueType

(* back_buffer is one of the images.                                        *)
LEMMA BackBufferType ==
  ASSUME image_index \in Nat
  PROVE  BackBuffer \in Image
BY ImageAssumption DEF BackBuffer, Image

(* Every variable has its type in the initial states.                       *)
LEMMA TypeInit == Init => TypeOK
<1> SUFFICES ASSUME Init PROVE TypeOK
  OBVIOUS
<1>1. /\ program.frame \in Seq(Passes) /\ program.frame # <<>>
      /\ turn \in 1 .. Len(program.frame)
  BY ProgramAssumption DEF Init, Program
<1>2. queue \in Seq(Entry)
  <2>1. queue = <<>>
    BY DEF Init
  <2> QED BY <2>1
<1>3. flips \in Seq(Image)
  <2>1. flips = <<>>
    BY DEF Init
  <2> QED BY <2>1
<1>4. 0 \in Image /\ NoImage \in Nat
  BY ImageAssumption DEF Image, NoImage
<1> QED BY <1>1, <1>2, <1>3, <1>4, BoundsAssumption DEF Init, TypeOK, Step, Signal

(* A step of the thread keeps the types.                                    *)
LEMMA TypeThread == TypeOK /\ (Thread \/ ExecuteBlock) => TypeOK'
<1> SUFFICES ASSUME TypeOK, Thread \/ ExecuteBlock PROVE TypeOK'
  OBVIOUS
<1> USE TurnType DEF TypeOK, Step, chain, copier
<1>1. CASE Record
  <2>1. BackBuffer \in Image
    BY BackBufferType
  <2> QED BY <1>1, <2>1 DEF Record, MakeFence, FirstFence
<1>2. CASE RecordNothing
  BY <1>2 DEF RecordNothing, MakeFence, FirstFence
<1>3. CASE Acquire
  <2>1. PICK i \in Image :
          /\ image_index' = i /\ next_image' = (i + 1) % ImageCount
          /\ image' = [image EXCEPT ![i] = "acquired"]
    BY <1>3 DEF Acquire
  <2>2. i \in Nat /\ next_image' \in Image
    BY <2>1, ImageAssumption DEF Image
  <2> QED BY <1>3, <2>1, <2>2 DEF Acquire, Signal
<1>4. CASE AcquireNothing
  BY <1>4 DEF AcquireNothing
<1>5. CASE WaitFence
  BY <1>5 DEF WaitFence
<1>6. CASE ResetFence
  BY <1>6 DEF ResetFence
<1>7. CASE Submit
  <2>1. target[p] \in Nat
    BY ImageAssumption DEF Image
  <2>2. Draw(p) \in Entry
    BY <2>1 DEF Draw, Entry
  <2>3. queue' \in Seq(Entry)
    BY <1>7, <2>2, QueueType DEF Submit
  <2> QED BY <1>7, <2>3 DEF Submit
<1>8. CASE WaitIdle
  BY <1>8 DEF WaitIdle
<1>9. CASE ResetCommandBuffer
  <2>1. turn' \in 1 .. Len(program'.frame)
    BY <1>9 DEF ResetCommandBuffer
  <2> QED BY <1>9, <2>1 DEF ResetCommandBuffer
<1>10. CASE PresentImage
  <2>1. Present(PresentIndex) \in Entry
    BY DEF Present, PresentIndex, Entry
  <2>2. turn' \in 1 .. Len(program'.frame)
    BY <1>10 DEF PresentImage
  <2>3. queue' \in Seq(Entry)
    BY <1>10, <2>1, QueueType DEF PresentImage
  <2> QED BY <1>10, <2>2, <2>3 DEF PresentImage
<1>11. CASE WaitBlockFence
  BY <1>11 DEF WaitBlockFence
<1>12. CASE ExecuteBlock
  BY <1>12, BoundsAssumption DEF ExecuteBlock
<1> QED BY <1>1, <1>2, <1>3, <1>4, <1>5, <1>6, <1>7, <1>8, <1>9, <1>10, <1>11,
           <1>12 DEF Thread

(* A step of the GPU or of the engine keeps the types.                      *)
LEMMA TypeDevices == TypeOK /\ (Gpu \/ FinishCopy \/ Engine) => TypeOK'
<1> SUFFICES ASSUME TypeOK, Gpu \/ FinishCopy \/ Engine PROVE TypeOK'
  OBVIOUS
<1> USE DEF TypeOK, thread, chain, copier
<1>1. CASE StartDraw
  <2>1. [queue EXCEPT ![1].started = TRUE] \in Seq(Entry)
    <3>1. queue \in Seq(Entry) /\ Len(queue) >= 1 /\ queue[1] \in Entry
      BY <1>1, QueueType, HeadType DEF StartDraw
    <3>2. [queue[1] EXCEPT !.started = TRUE] \in Entry
      BY <3>1 DEF Entry
    <3> QED BY <3>1, <3>2
  <2> QED BY <1>1, <2>1 DEF StartDraw, Signal
<1>2. CASE FinishDraw
  <2>1. Head(queue) \in Entry /\ Tail(queue) \in Seq(Entry)
    BY <1>2, HeadType DEF FinishDraw
  <2>2. last_draw' \in [image : Nat, guessed : BOOLEAN]
    <3>1. Guessed \in BOOLEAN
      BY DEF Guessed
    <3> QED BY <1>2, <2>1, <3>1 DEF FinishDraw, Entry
  <2> QED BY <1>2, <2>1, <2>2 DEF FinishDraw, Signal, Entry
<1>3. CASE StartPresent
  <2>1. Head(queue) \in Entry /\ Tail(queue) \in Seq(Entry)
    BY <1>3, HeadType DEF StartPresent
  <2> DEFINE i == Head(queue).image
  <2>2. \/ i \in Image /\ flips' = Append(flips, i) /\ image' = [image EXCEPT ![i] = "queued"]
        \/ UNCHANGED <<image, flips>>
    BY <1>3 DEF StartPresent
  <2>3. flips' \in Seq(Image)
    <3>1. flips \in Seq(Image)
      OBVIOUS
    <3>2. CASE i \in Image /\ flips' = Append(flips, i)
      BY <3>1, <3>2
    <3>3. CASE UNCHANGED flips
      BY <3>1, <3>3
    <3> QED BY <2>2, <3>2, <3>3
  <2>4. image' \in [Image -> {"free", "acquired", "drawn", "queued", "shown"}]
    BY <2>2
  <2> QED BY <1>3, <2>1, <2>3, <2>4 DEF StartPresent, Signal
<1>4. CASE FinishCopy
  BY <1>4 DEF FinishCopy
<1>5. CASE SignalPresentComplete
  BY <1>5 DEF SignalPresentComplete, Signal
<1>6. CASE Flip
  <2>1. Tail(flips) \in Seq(Image)
    BY <1>6 DEF Flip
  <2> QED BY <1>6, <2>1 DEF Flip
<1> QED BY <1>1, <1>2, <1>3, <1>4, <1>5, <1>6 DEF Gpu, Engine

(* Every step keeps the types.                                              *)
LEMMA TypeStep == TypeOK /\ [Next]_vars => TypeOK'
<1>1. TypeOK /\ UNCHANGED vars => TypeOK'
  BY DEF vars, thread, chain, copier, TypeOK
<1> QED BY <1>1, TypeThread, TypeDevices DEF Next
-----------------------------------------------------------------------------
(* How a step changes the queue.                                            *)

(* What is pushed comes last.                                               *)
LEMMA Pushed ==
  ASSUME TypeOK, NEW e \in Entry, queue' = Append(queue, e)
  PROVE  /\ Len(queue') = Len(queue) + 1 /\ queue'[Len(queue) + 1] = e
         /\ \A k \in 1 .. Len(queue) : queue'[k] = queue[k]
         /\ Drawing' = Drawing \cup (IF e.kind = "draw" THEN {Len(queue) + 1} ELSE {})
         /\ Presents' = Presents \cup (IF e.kind = "present" THEN {Len(queue) + 1} ELSE {})
<1>1. queue \in Seq(Entry) /\ Len(queue) \in Nat
  BY QueueType
<1>2. Len(queue') = Len(queue) + 1 /\ queue'[Len(queue) + 1] = e
  BY <1>1
<1>3. \A k \in 1 .. Len(queue) : queue'[k] = queue[k]
  BY <1>1
<1> QED BY <1>1, <1>2, <1>3 DEF Drawing, Presents

(* What is taken leaves the others one place further to the front.          *)
LEMMA Taken ==
  ASSUME TypeOK, queue # <<>>, queue' = Tail(queue)
  PROVE  /\ Len(queue') = Len(queue) - 1 /\ Len(queue) >= 1
         /\ \A k \in 1 .. Len(queue') : queue'[k] = queue[k + 1]
         /\ \A k \in Drawing' : k + 1 \in Drawing
<1>1. /\ Len(queue') = Len(queue) - 1 /\ Len(queue) >= 1
      /\ \A k \in 1 .. Len(queue') : queue'[k] = queue[k + 1]
  BY QueueType
<1> QED BY <1>1, QueueType DEF Drawing

(* A draw that starts stays where it is.                                    *)
LEMMA Started ==
  ASSUME TypeOK, queue # <<>>, queue' = [queue EXCEPT ![1].started = TRUE]
  PROVE  /\ Len(queue') = Len(queue) /\ 1 \in 1 .. Len(queue)
         /\ queue'[1] = [queue[1] EXCEPT !.started = TRUE]
         /\ queue'[1].kind = queue[1].kind /\ queue'[1].pass = queue[1].pass
         /\ queue'[1].image = queue[1].image /\ queue'[1].started
         /\ \A k \in 2 .. Len(queue) : queue'[k] = queue[k]
         /\ Drawing' = Drawing /\ Presents' = Presents
<1>1. /\ Len(queue') = Len(queue) /\ 1 \in 1 .. Len(queue)
      /\ queue'[1] = [queue[1] EXCEPT !.started = TRUE]
      /\ \A k \in 2 .. Len(queue) : queue'[k] = queue[k]
  <2>1. queue \in Seq(Entry) /\ Len(queue) \in Nat /\ Len(queue) >= 1
    BY QueueType, HeadType
  <2>2. 1 \in 1 .. Len(queue) /\ \A k \in 2 .. Len(queue) : k \in 1 .. Len(queue) /\ k # 1
    BY <2>1
  <2> DEFINE head == [queue[1] EXCEPT !.started = TRUE]
  <2>3. queue' = [queue EXCEPT ![1] = head]
    OBVIOUS
  <2>4. DOMAIN [queue EXCEPT ![1] = head] = 1 .. Len(queue) /\ DOMAIN queue = 1 .. Len(queue)
    BY <2>1
  <2>5. ASSUME NEW h
        PROVE  [queue EXCEPT ![1] = h][1] = h
               /\ \A k \in 2 .. Len(queue) : [queue EXCEPT ![1] = h][k] = queue[k]
    BY <2>2, <2>4
  <2>6. queue'[1] = head /\ \A k \in 2 .. Len(queue) : queue'[k] = queue[k]
    <3> HIDE DEF head
    <3>1. /\ [queue EXCEPT ![1] = head][1] = head
          /\ \A k \in 2 .. Len(queue) : [queue EXCEPT ![1] = head][k] = queue[k]
      BY <2>5
    <3> QED BY <3>1, <2>3
  <2>7. Len(queue') = Len(queue)
    BY <2>1, <2>3, <2>4
  <2> QED BY <2>2, <2>6, <2>7
<1>2. /\ queue'[1].kind = queue[1].kind /\ queue'[1].pass = queue[1].pass
      /\ queue'[1].image = queue[1].image /\ queue'[1].started
  BY <1>1, QueueType DEF Entry
<1> QED BY <1>1, <1>2 DEF Drawing, Presents

(* A draw at the head of the queue is alone there.                          *)
LEMMA DrawAlone ==
  ASSUME TypeOK, DrawKept, queue # <<>>, Head(queue).kind = "draw"
  PROVE  /\ Len(queue) = 1 /\ Drawing = {1} /\ Presents = {}
         /\ pc = "wait_idle" /\ Head(queue) = queue[1]
<1>1. 1 \in Drawing /\ Head(queue) = queue[1]
  BY QueueType DEF Drawing
<1>2. Len(queue) = 1 /\ pc = "wait_idle"
  BY <1>1 DEF DrawKept
<1> QED BY <1>1, <1>2 DEF Drawing, Presents
-----------------------------------------------------------------------------
(* Each part of the invariant of the queue, over a step.                    *)

(* Only the thread puts a draw on the queue, and it waits for it.           *)
LEMMA DrawStep == IInv /\ [Next]_vars => DrawKept'
<1> SUFFICES ASSUME IInv, [Next]_vars PROVE DrawKept'
  OBVIOUS
<1> USE DEF IInv
<1>1. ASSUME pc # "wait_idle", UNCHANGED queue PROVE DrawKept'
  BY <1>1 DEF DrawKept, Drawing
<1>2. CASE Submit
  <2>1. Draw(p) \in Entry /\ Draw(p).kind = "draw" /\ Drawing = {}
    BY <1>2, TurnType, ImageAssumption DEF Submit, DrawKept, Draw, Entry, TypeOK, Image
  <2>2. /\ Drawing' = {Len(queue) + 1} /\ Len(queue') = Len(queue) + 1
        /\ queue'[Len(queue) + 1] = Draw(p)
        /\ \A k \in 1 .. Len(queue) : queue'[k] = queue[k]
    BY <1>2, <2>1, Pushed DEF Submit
  <2>3. /\ pc' = "wait_idle" /\ p' = p /\ cb'[p] = "pending"
        /\ target' = target /\ fence'[p] = "unsignaled"
    BY <1>2, TurnType DEF Submit, FenceReset, TypeOK, p
  <2> QED BY <2>2, <2>3, QueueType DEF DrawKept, Draw
<1>3. CASE WaitIdle
  BY <1>3 DEF WaitIdle, DrawKept, Drawing
<1>4. CASE PresentImage
  <2>1. /\ Present(PresentIndex) \in Entry /\ Present(PresentIndex).kind = "present"
        /\ ~Present(PresentIndex).started /\ Drawing = {}
    BY <1>4, TurnType DEF PresentImage, DrawKept, Present, PresentIndex, Entry, TypeOK
  <2>2. /\ Drawing' = {} /\ Len(queue') = Len(queue) + 1
        /\ queue'[Len(queue) + 1] = Present(PresentIndex)
        /\ \A k \in 1 .. Len(queue) : queue'[k] = queue[k]
    BY <1>4, <2>1, Pushed DEF PresentImage
  <2> QED BY <2>1, <2>2, QueueType DEF DrawKept
<1>5. CASE UNCHANGED <<program, thread, queue, cb, target, fence>>
  BY <1>5 DEF thread, DrawKept, Drawing, p
<1>6. CASE StartDraw
  <2>1. UNCHANGED <<program, thread, cb, target, fence>> /\ p' = p /\ pc' = pc
    BY <1>6 DEF StartDraw, thread, p
  <2>2. queue # <<>> /\ queue' = [queue EXCEPT ![1].started = TRUE]
    BY <1>6 DEF StartDraw
  <2>3. /\ Len(queue) = 1 /\ Drawing = {1} /\ pc = "wait_idle"
    BY <1>6, DrawAlone DEF StartDraw
  <2>4. /\ Len(queue') = 1 /\ Drawing' = {1}
        /\ queue'[1].pass = queue[1].pass /\ queue'[1].image = queue[1].image
    BY <2>2, <2>3, Started
  <2>5. /\ queue[1].pass = p /\ cb[p] = "pending" /\ target[p] = queue[1].image
        /\ fence[p] = "unsignaled"
    BY <2>3 DEF DrawKept
  <2> QED BY <2>1, <2>3, <2>4, <2>5 DEF DrawKept
<1>7. CASE FinishDraw
  <2>1. Len(queue) = 1 /\ queue # <<>> /\ queue' = Tail(queue)
    BY <1>7, DrawAlone DEF FinishDraw
  <2>2. Len(queue') = 0
    BY <2>1, Taken
  <2> QED BY <2>2 DEF DrawKept, Drawing
<1>8. CASE StartPresent
  <2>1. /\ UNCHANGED <<program, thread, cb, target, fence>> /\ p' = p /\ pc' = pc
        /\ queue # <<>> /\ queue' = Tail(queue)
    BY <1>8 DEF StartPresent, thread, p
  <2>2. /\ Len(queue') = Len(queue) - 1 /\ Len(queue) \in Nat
        /\ \A k \in 1 .. Len(queue') : queue'[k] = queue[k + 1]
        /\ \A k \in Drawing' : k + 1 \in Drawing
        /\ Drawing' \subseteq 1 .. Len(queue')
    BY <2>1, Taken, QueueType DEF Drawing
  <2>3. ASSUME NEW k \in Drawing'
        PROVE  /\ k = Len(queue') /\ queue'[k].pass = p /\ pc = "wait_idle"
               /\ cb[p] = "pending" /\ target[p] = queue'[k].image /\ fence[p] = "unsignaled"
    <3>1. k \in 1 .. Len(queue') /\ k + 1 \in Drawing /\ queue'[k] = queue[k + 1]
      BY <2>2
    <3>2. /\ k + 1 = Len(queue) /\ queue[k + 1].pass = p /\ pc = "wait_idle"
          /\ cb[p] = "pending" /\ target[p] = queue[k + 1].image /\ fence[p] = "unsignaled"
      BY <3>1 DEF DrawKept
    <3> QED BY <2>2, <3>1, <3>2
  <2>4. ASSUME NEW k \in 1 .. Len(queue'), queue'[k].started PROVE FALSE
    <3>1. k + 1 \in 1 .. Len(queue) /\ queue[k + 1].started
      BY <2>2, <2>4
    <3>2. k + 1 = 1
      BY <3>1 DEF DrawKept
    <3> QED BY <3>2
  <2> QED BY <2>1, <2>3, <2>4 DEF DrawKept
<1> QED BY <1>1, <1>2, <1>3, <1>4, <1>5, <1>6, <1>7, <1>8
        DEF Next, Thread, Gpu, Engine, vars, thread, Record, RecordNothing, Acquire,
            AcquireNothing, WaitFence, ResetFence, ResetCommandBuffer, WaitBlockFence,
            ExecuteBlock, FinishCopy, SignalPresentComplete, Flip

(* The fence reset before the submission is still so at it.                 *)
LEMMA FenceStep == IInv /\ [Next]_vars => FenceReset'
<1> SUFFICES ASSUME IInv, [Next]_vars PROVE FenceReset'
  OBVIOUS
<1> USE DEF IInv
<1>1. CASE ResetFence
  BY <1>1, TurnType DEF ResetFence, FenceReset, TypeOK, p
<1>2. CASE UNCHANGED <<program, thread, fence>>
  BY <1>2 DEF thread, FenceReset, p
<1>3. CASE pc' # "submit"
  BY <1>3 DEF FenceReset
<1>4. CASE FinishDraw
  <2>1. pc = "wait_idle"
    BY <1>4, DrawAlone DEF FinishDraw
  <2> QED BY <2>1, <1>4 DEF FinishDraw, thread, FenceReset
<1> QED BY <1>1, <1>2, <1>3, <1>4
        DEF Next, Thread, Gpu, Engine, vars, Record, RecordNothing, Acquire,
            AcquireNothing, WaitFence, Submit, WaitIdle, ResetCommandBuffer,
            PresentImage, WaitBlockFence, ExecuteBlock, FinishCopy, StartDraw,
            StartPresent, SignalPresentComplete, Flip

(* Between an acquire and its draw nothing but the submission happens.      *)
LEMMA AcquireStep == IInv /\ [Next]_vars => AcquireTaken'
<1> SUFFICES ASSUME IInv, [Next]_vars PROVE AcquireTaken'
  OBVIOUS
<1> USE DEF IInv
<1>1. CASE pc' \in {"wait_fence", "reset_fence", "submit"}
  BY <1>1 DEF AcquireTaken
<1>2. CASE present_complete' = "unsignaled"
  BY <1>2 DEF AcquireTaken
<1>3. CASE Submit
  <2>1. Draw(p) \in Entry /\ Draw(p).kind = "draw" /\ ~Draw(p).started
    BY TurnType, ImageAssumption DEF Draw, Entry, TypeOK, Image
  <2>2. Len(queue) + 1 \in Drawing' /\ queue'[Len(queue) + 1] = Draw(p)
    BY <1>3, <2>1, Pushed DEF Submit
  <2> QED BY <2>1, <2>2 DEF AcquireTaken
<1>4. ASSUME pc \notin {"wait_fence", "reset_fence", "submit", "wait_idle"},
             UNCHANGED present_complete
      PROVE  AcquireTaken'
  BY <1>4 DEF AcquireTaken, DrawKept
<1>5. ASSUME UNCHANGED <<thread, queue>>,
             present_complete' # "unsignaled" => present_complete # "unsignaled"
      PROVE  AcquireTaken'
  BY <1>5 DEF thread, AcquireTaken, Drawing
<1>6. CASE WaitIdle
  BY <1>6 DEF WaitIdle, chain, AcquireTaken, Drawing
<1>7. CASE FinishDraw
  <2>1. /\ Drawing = {1} /\ queue[1].started /\ pc = "wait_idle"
        /\ UNCHANGED present_complete
    BY <1>7, DrawAlone DEF FinishDraw
  <2> QED BY <2>1, <1>2 DEF AcquireTaken
<1>8. CASE StartPresent
  <2>1. /\ UNCHANGED <<thread, present_complete>> /\ queue # <<>> /\ queue' = Tail(queue)
        /\ Head(queue).kind = "present" /\ Head(queue) = queue[1]
    BY <1>8, QueueType DEF StartPresent
  <2>2. /\ Len(queue') = Len(queue) - 1
        /\ \A k \in 1 .. Len(queue') : queue'[k] = queue[k + 1]
    BY <2>1, Taken
  <2>3. ASSUME NEW k \in Drawing, ~queue[k].started
        PROVE  k - 1 \in Drawing' /\ ~queue'[k - 1].started
    <3>1. k \in 2 .. Len(queue) /\ Len(queue) \in Nat
      BY <2>1, QueueType DEF Drawing
    <3>2. k - 1 \in 1 .. Len(queue') /\ queue'[k - 1] = queue[k]
      BY <2>2, <3>1
    <3> QED BY <2>3, <3>2 DEF Drawing
  <2> QED BY <2>1, <2>3 DEF AcquireTaken, thread
<1> QED BY <1>1, <1>2, <1>3, <1>4, <1>5, <1>6, <1>7, <1>8
        DEF Next, Thread, Gpu, Engine, vars, thread, chain, Record, RecordNothing,
            Acquire, AcquireNothing, WaitFence, ResetFence, ResetCommandBuffer,
            PresentImage, WaitBlockFence, ExecuteBlock, FinishCopy, StartDraw,
            SignalPresentComplete, Flip

(* With one pass in a frame, the thread goes from the end of a draw to its  *)
(* present, and the present stays ahead of the next draw on the queue.      *)
LEMMA DrawTakenStep == IInv /\ [Next]_vars => DrawTaken'
<1> SUFFICES ASSUME IInv, [Next]_vars, Len(program'.frame) = 1,
                    render_to_screen' = "signaled"
             PROVE  pc' \in {"reset_cb", "present"} \/ Idle' \/ Presents' # {}
  BY DEF DrawTaken
<1> USE DEF IInv
<1>1. CASE FinishDraw
  <2>1. Len(queue) = 1 /\ queue # <<>> /\ queue' = Tail(queue) /\ pc' = "wait_idle"
    BY <1>1, DrawAlone DEF FinishDraw, thread
  <2>2. Len(queue') = 0
    BY <2>1, Taken
  <2>3. Drawing' = {}
    BY <2>2 DEF Drawing
  <2> QED BY <2>1, <2>3 DEF Idle
<1>2. CASE StartPresent
  BY <1>2 DEF StartPresent
<1>3. CASE ~FinishDraw /\ ~StartPresent
  <2>1. render_to_screen = "signaled" /\ program' = program
    BY <1>3 DEF Next, Thread, Gpu, Engine, vars, Record, RecordNothing, Acquire,
                AcquireNothing, WaitFence, ResetFence, Submit, WaitIdle,
                ResetCommandBuffer, PresentImage, WaitBlockFence, ExecuteBlock,
                FinishCopy, StartDraw, SignalPresentComplete, Flip
  <2>2. pc \in {"reset_cb", "present"} \/ Idle \/ Presents # {}
    BY <2>1 DEF DrawTaken
  <2>3. CASE PresentImage
    <3>1. Present(PresentIndex) \in Entry /\ Present(PresentIndex).kind = "present"
      BY TurnType DEF Present, PresentIndex, Entry, TypeOK
    <3> QED BY <2>3, <3>1, Pushed DEF PresentImage
  <2>4. CASE ResetCommandBuffer
    <3>1. Len(program.frame) = 1 /\ turn \in 1 .. Len(program.frame)
      BY <2>1, TurnType
    <3>2. ~(turn < Len(program.frame))
      BY <3>1
    <3> QED BY <2>4, <3>2 DEF ResetCommandBuffer
  <2>5. CASE Submit
    <3>1. Draw(p) \in Entry
      BY TurnType, ImageAssumption DEF Draw, Entry, TypeOK, Image
    <3>2. Presents # {}
      BY <2>2, <2>5 DEF Submit, Idle
    <3> QED BY <2>5, <3>1, <3>2, Pushed DEF Submit
  <2>6. CASE StartDraw
    <3>1. Drawing' = Drawing /\ Presents' = Presents /\ pc' = pc
      BY <2>6, Started DEF StartDraw, thread
    <3> QED BY <2>2, <3>1 DEF Idle
  <2>7. CASE pc' \in {"reset_cb", "present"}
    BY <2>7
  <2>8. ASSUME UNCHANGED <<thread, queue>>
        PROVE  pc' \in {"reset_cb", "present"} \/ Idle' \/ Presents' # {}
    BY <2>2, <2>8 DEF thread, Idle, Drawing, Presents
  <2>9. ASSUME UNCHANGED queue, pc \notin {"reset_cb", "present", "wait_idle"}
        PROVE  Presents' # {}
    BY <2>2, <2>9 DEF Idle, Presents
  <2> QED BY <1>3, <2>3, <2>4, <2>5, <2>6, <2>7, <2>8, <2>9
          DEF Next, Thread, Gpu, Engine, vars, thread, Record, RecordNothing, Acquire,
              AcquireNothing, WaitFence, ResetFence, WaitIdle, WaitBlockFence,
              ExecuteBlock, FinishCopy, SignalPresentComplete, Flip
<1> QED BY <1>1, <1>2, <1>3
-----------------------------------------------------------------------------
(* The invariant, and what follows from it.                                 *)

(* The invariant of the queue, its fences and its semaphores holds for any  *)
(* programs and any number of images.                                       *)
THEOREM Invariance == Spec => []IInv
<1>1. Init => IInv
  <2> SUFFICES ASSUME Init PROVE IInv
    OBVIOUS
  <2>1. TypeOK
    BY TypeInit
  <2>2. queue = <<>> /\ Len(queue) = 0 /\ pc = "record"
    BY DEF Init
  <2>3. Drawing = {} /\ 1 .. Len(queue) = {}
    BY <2>2 DEF Drawing
  <2> QED BY <2>1, <2>2, <2>3 DEF Init, IInv, DrawKept, FenceReset, AcquireTaken, DrawTaken
<1>2. IInv /\ [Next]_vars => IInv'
  BY TypeStep, DrawStep, FenceStep, AcquireStep, DrawTakenStep DEF IInv
<1> QED BY <1>1, <1>2, PTL DEF Spec

(* Every variable keeps the type of what the code stores there.             *)
THEOREM TypeCorrect == Spec => []TypeOK
<1>1. IInv => TypeOK
  BY DEF IInv
<1> QED BY <1>1, Invariance, PTL

(* execute records, resets and replaces nothing the GPU still uses: a draw  *)
(* in the queue has its command buffer and its framebuffer as submitted.    *)
THEOREM PendingIsUntouched == Spec => []PendingUntouched
<1>1. IInv => PendingUntouched
  BY DEF IInv, DrawKept, PendingUntouched
<1> QED BY <1>1, Invariance, PTL

(* The fence of a pass is submitted unsignaled, with no draw that has it in *)
(* the queue, and stays so until its draw is over.                          *)
THEOREM FencesAlternate == Spec => []FenceDiscipline
<1>1. IInv => FenceDiscipline
  BY DEF IInv, DrawKept, FenceReset, FenceDiscipline
<1> QED BY <1>1, Invariance, PTL

(* No image is acquired with the semaphore of the last acquire still to be  *)
(* waited for; and in a frame of one pass no draw ends, and signals that it *)
(* may be presented, before the present of the draw before it has waited.   *)
THEOREM SemaphoresAlternate == Spec => []SemaphoreDiscipline
<1>1. IInv => SemaphoreDiscipline
  <2> SUFFICES ASSUME IInv PROVE SemaphoreDiscipline
    OBVIOUS
  <2> USE DEF IInv
  <2>1. pc = "acquire" => present_complete = "unsignaled" /\ Drawing = {}
    BY DEF DrawKept, AcquireTaken
  <2>2. ASSUME Len(program.frame) = 1, NEW k \in Drawing, queue[k].started
        PROVE  render_to_screen = "unsignaled"
    <3>1. k \in 1 .. Len(queue) /\ queue[k].kind = "draw"
      BY DEF Drawing
    <3>2. k = Len(queue) /\ k = 1 /\ pc = "wait_idle"
      BY <2>2, <3>1 DEF DrawKept
    <3>3. Presents = {} /\ ~Idle
      BY <3>1, <3>2 DEF Presents, Idle
    <3>4. render_to_screen # "signaled"
      BY <2>2, <3>2, <3>3 DEF DrawTaken
    <3> QED BY <3>4 DEF TypeOK, Signal
  <2> QED BY <2>1, <2>2 DEF SemaphoreDiscipline
<1> QED BY <1>1, Invariance, PTL
-----------------------------------------------------------------------------
(* The images.                                                              *)

(* No step but a present takes an image from the draw it was acquired for,  *)
(* none but a present one drawn, and the engine keeps what is on its list.  *)
LEMMA ImageKept ==
  ASSUME IInv, FlipsQueued, [Next]_vars, NEW i \in Image
  PROVE  /\ image[i] = "acquired" /\ ~FinishDraw /\ ~StartPresent => image'[i] = "acquired"
         /\ image[i] = "drawn" /\ ~StartPresent => image'[i] = "drawn"
         /\ image[i] = "queued" => image'[i] = "queued" \/ (Flip /\ i = Head(flips))
<1> USE DEF IInv
<1>1. image \in [Image -> {"free", "acquired", "drawn", "queued", "shown"}]
  BY DEF TypeOK
<1>2. CASE Acquire
  BY <1>1, <1>2 DEF Acquire
<1>3. CASE FinishDraw
  BY <1>1, <1>3 DEF FinishDraw, StartPresent
<1>4. CASE StartPresent
  BY <1>1, <1>4 DEF StartPresent
<1>5. CASE Flip
  <2>1. flips \in Seq(Image) /\ flips # <<>>
    BY <1>5 DEF Flip, TypeOK
  <2>2. image[Head(flips)] = "queued"
    BY <2>1 DEF FlipsQueued
  <2> QED BY <1>1, <1>5, <2>2 DEF Flip
<1>6. CASE UNCHANGED image
  BY <1>6
<1> QED BY <1>2, <1>3, <1>4, <1>5, <1>6
        DEF Next, Thread, Gpu, Engine, vars, chain, Record, RecordNothing, AcquireNothing,
            WaitFence, ResetFence, Submit, WaitIdle, ResetCommandBuffer, PresentImage,
            WaitBlockFence, ExecuteBlock, FinishCopy, StartDraw, SignalPresentComplete

(* The program stays, only a draw that ends is the last draw over, and only *)
(* an acquire moves the images on.                                          *)
LEMMA Steady ==
  ASSUME [Next]_vars
  PROVE  /\ program' = program
         /\ ~FinishDraw => last_draw' = last_draw
         /\ ~Acquire => UNCHANGED <<image_index, next_image>>
         /\ ~FinishDraw /\ ~StartPresent => render_to_screen' = render_to_screen
BY DEF Next, Thread, Gpu, Engine, vars, chain, Record, RecordNothing, Acquire,
       AcquireNothing, WaitFence, ResetFence, Submit, WaitIdle, ResetCommandBuffer,
       PresentImage, WaitBlockFence, ExecuteBlock, FinishCopy, StartDraw, FinishDraw,
       StartPresent, SignalPresentComplete, Flip

(* The signal of an acquire comes from an acquire, and a draw that began    *)
(* has taken one.                                                           *)
LEMMA AcquiredBefore ==
  ASSUME IInv, [Next]_vars, ~Acquire, Acquired'
  PROVE  Acquired
<1> USE DEF IInv
<1>1. CASE FinishDraw
  <2>1. Drawing = {1} /\ queue[1].started
    BY <1>1, DrawAlone DEF FinishDraw
  <2> QED BY <2>1 DEF Acquired
<1>2. CASE StartDraw
  BY <1>2 DEF StartDraw, Acquired
<1>3. ASSUME ~FinishDraw, ~StartDraw PROVE Acquired
  <2>1. last_draw' = last_draw
    BY <1>3, Steady
  <2>2. present_complete' # "unsignaled" => present_complete # "unsignaled"
    BY <1>3 DEF Next, Thread, Gpu, Engine, vars, chain, Record, RecordNothing,
         AcquireNothing, WaitFence, ResetFence, Submit, WaitIdle, ResetCommandBuffer,
         PresentImage, WaitBlockFence, ExecuteBlock, FinishCopy,
         StartPresent, SignalPresentComplete, Flip
  <2>3. ASSUME NEW k \in Drawing', queue'[k].started
        PROVE  \E j \in Drawing : queue[j].started
    <3>1. ASSUME NEW e \in Entry, ~e.started, queue' = Append(queue, e)
          PROVE  \E j \in Drawing : queue[j].started
      <4>1. /\ k \in Drawing \/ k = Len(queue) + 1
            /\ queue'[Len(queue) + 1] = e
            /\ k \in Drawing => queue'[k] = queue[k]
        BY <3>1, Pushed, QueueType
      <4> QED BY <2>3, <3>1, <4>1
    <3>2. CASE Submit
      <4>1. Draw(p) \in Entry /\ ~Draw(p).started
        BY TurnType, ImageAssumption DEF Draw, Entry, TypeOK, Image
      <4> QED BY <3>1, <3>2, <4>1 DEF Submit
    <3>3. CASE PresentImage
      <4>1. Present(PresentIndex) \in Entry /\ ~Present(PresentIndex).started
        BY TurnType DEF Present, PresentIndex, Entry, TypeOK
      <4> QED BY <3>1, <3>3, <4>1 DEF PresentImage
    <3>4. CASE StartPresent
      <4>1. queue # <<>> /\ queue' = Tail(queue)
        BY <3>4 DEF StartPresent
      <4>2. /\ k + 1 \in Drawing
            /\ k \in 1 .. Len(queue') => queue'[k] = queue[k + 1]
        BY <2>3, <4>1, Taken
      <4>3. k \in 1 .. Len(queue')
        BY <2>3 DEF Drawing
      <4> QED BY <2>3, <4>2, <4>3
    <3>5. CASE UNCHANGED queue
      BY <2>3, <3>5 DEF Drawing
    <3> QED BY <1>3, <3>2, <3>3, <3>4, <3>5
            DEF Next, Thread, Gpu, Engine, vars, Record, RecordNothing, Acquire,
                AcquireNothing, WaitFence, ResetFence, WaitIdle, ResetCommandBuffer,
                WaitBlockFence, ExecuteBlock, FinishCopy, SignalPresentComplete, Flip
  <2> QED BY <2>1, <2>2, <2>3 DEF Acquired, NoImage
<1> QED BY <1>1, <1>2, <1>3

(* back_buffer keeps guessing the image the engine hands out next.          *)
LEMMA GuessStep == IInv /\ ImageInv /\ [Next]_vars => GuessRight'
<1> SUFFICES ASSUME IInv, ImageInv, [Next]_vars PROVE GuessRight'
  OBVIOUS
<1> USE DEF IInv, ImageInv
<1>1. CASE Acquire
  BY <1>1 DEF Acquire, GuessRight, BackBuffer
<1>2. ASSUME ~Acquire PROVE Acquired' \/ ImageCount = 3 => next_image' = BackBuffer'
  <2>1. UNCHANGED <<image_index, next_image>>
    BY <1>2, Steady
  <2>2. Acquired' => Acquired
    BY <1>2, AcquiredBefore
  <2> QED BY <2>1, <2>2 DEF GuessRight, BackBuffer
<1>3. CASE Record
  <2>1. /\ target'[p] = BackBuffer /\ p' = p /\ UNCHANGED image_index
    BY <1>3, TurnType DEF Record, TypeOK, p, chain
  <2>2. pc # "acquire"
    BY <1>3 DEF Record
  <2> QED BY <1>2, <2>1, <2>2 DEF Acquire, GuessRight, BackBuffer
<1>4. ASSUME ~Acquire, pc' # "acquire" \/ UNCHANGED <<program, pc, turn, target>>
      PROVE  GuessRight'
  <2>1. UNCHANGED image_index
    BY <1>4, Steady
  <2> QED BY <1>2, <1>4, <2>1 DEF GuessRight, BackBuffer, p
<1> QED BY <1>1, <1>3, <1>4
        DEF Next, Thread, Gpu, Engine, vars, thread, RecordNothing,
            AcquireNothing, WaitFence, ResetFence, Submit, WaitIdle,
            ResetCommandBuffer, PresentImage, WaitBlockFence, ExecuteBlock, FinishCopy,
            StartDraw, FinishDraw, StartPresent, SignalPresentComplete, Flip

(* The engine holds no image twice.                                         *)
LEMMA FlipsStep == IInv /\ ImageInv /\ [Next]_vars => FlipsQueued'
<1> SUFFICES ASSUME IInv, ImageInv, [Next]_vars PROVE FlipsQueued'
  OBVIOUS
<1> USE DEF IInv, ImageInv
<1>1. flips \in Seq(Image) /\ Len(flips) \in Nat
  BY DEF TypeOK
<1>2. CASE StartPresent
  <2> DEFINE i == Head(queue).image
  <2>1. CASE UNCHANGED <<image, flips>>
    BY <2>1 DEF FlipsQueued
  <2>2. CASE /\ i \in Image /\ image[i] \in {"acquired", "drawn"}
             /\ image' = [image EXCEPT ![i] = "queued"] /\ flips' = Append(flips, i)
    <3>1. /\ Len(flips') = Len(flips) + 1 /\ flips'[Len(flips) + 1] = i
          /\ \A k \in 1 .. Len(flips) : flips'[k] = flips[k] /\ flips[k] \in Image
      BY <1>1, <2>2
    <3>2. \A k \in 1 .. Len(flips) : flips[k] # i
      BY <2>2 DEF FlipsQueued
    <3>3. image'[i] = "queued" /\ \A k \in 1 .. Len(flips) : image'[flips[k]] = "queued"
      BY <2>2, <3>1 DEF FlipsQueued, TypeOK
    <3>4. \A k \in 1 .. Len(flips') : k = Len(flips) + 1 \/ k \in 1 .. Len(flips)
      BY <1>1, <3>1
    <3> HIDE DEF i
    <3> QED BY <3>1, <3>2, <3>3, <3>4 DEF FlipsQueued
  <2> QED BY <1>2, <2>1, <2>2 DEF StartPresent
<1>3. CASE Flip
  <2>1. /\ flips # <<>> /\ flips' = Tail(flips) /\ Head(flips) = flips[1]
        /\ 1 \in 1 .. Len(flips)
    BY <1>1, <1>3 DEF Flip
  <2>2. /\ Len(flips') = Len(flips) - 1
        /\ \A k \in 1 .. Len(flips') : flips'[k] = flips[k + 1] /\ k + 1 \in 2 .. Len(flips)
    BY <1>1, <2>1
  <2>3. \A k \in 2 .. Len(flips) : /\ flips[k] # Head(flips) /\ flips[k] \in Image
                                   /\ image[flips[k]] = "queued"
    BY <1>1, <2>1 DEF FlipsQueued
  <2>4. \A k \in 2 .. Len(flips) : image'[flips[k]] = "queued"
    BY <2>3, ImageKept
  <2>5. \A k, l \in 1 .. Len(flips') : k # l => flips'[k] # flips'[l]
    <3>1. \A k, l \in 1 .. Len(flips') : k # l => k + 1 # l + 1
      BY <1>1, <2>2
    <3>2. \A k \in 2 .. Len(flips) : k \in 1 .. Len(flips)
      BY <1>1
    <3> QED BY <2>2, <3>1, <3>2 DEF FlipsQueued
  <2> QED BY <2>2, <2>4, <2>5 DEF FlipsQueued
<1>4. ASSUME UNCHANGED flips, ~Flip PROVE FlipsQueued'
  <2>1. \A k \in 1 .. Len(flips) : flips[k] \in Image /\ image[flips[k]] = "queued"
    BY <1>1 DEF FlipsQueued
  <2>2. \A k \in 1 .. Len(flips) : image'[flips[k]] = "queued"
    BY <1>4, <2>1, ImageKept
  <2> QED BY <1>4, <2>2 DEF FlipsQueued
<1> QED BY <1>2, <1>3, <1>4
        DEF Next, Thread, Gpu, Engine, vars, chain, Record, RecordNothing, Acquire,
            AcquireNothing, WaitFence, ResetFence, Submit, WaitIdle, ResetCommandBuffer,
            PresentImage, WaitBlockFence, ExecuteBlock, FinishCopy, StartDraw,
            FinishDraw, SignalPresentComplete

(* What was acquired waits for its draw: the thread goes on to the          *)
(* submission, and a present that starts meanwhile takes another image.     *)
LEMMA TargetStep == IInv /\ ImageInv /\ [Next]_vars => TargetAcquired'
<1> SUFFICES ASSUME IInv, ImageInv, [Next]_vars PROVE TargetAcquired'
  OBVIOUS
<1> USE DEF IInv, ImageInv
<1>1. CASE Acquire
  <2>1. PICK i \in Image :
          /\ program.inOrder => i = next_image
          /\ image_index' = i /\ image' = [image EXCEPT ![i] = "acquired"]
    BY <1>1 DEF Acquire
  <2>2. program' = program /\ last_draw' = last_draw /\ p' = p /\ target' = target
    BY <1>1, Steady DEF Acquire, FinishDraw, p
  <2>3. Guessed' => target'[p'] = image_index'
    <3>1. Guessed => next_image = BackBuffer
      BY DEF Guessed, GuessRight, Acquired
    <3>2. target[p] = BackBuffer
      BY <1>1 DEF Acquire, GuessRight
    <3> QED BY <2>1, <2>2, <3>1, <3>2 DEF Guessed
  <2>4. Drawing' = {} /\ Ours'
    BY <1>1, <2>1 DEF Acquire, DrawKept, Drawing, TypeOK, Ours
  <2> QED BY <2>3, <2>4 DEF TargetAcquired
<1>2. CASE FinishDraw
  <2>1. Len(queue) = 1 /\ queue # <<>> /\ queue' = Tail(queue) /\ pc' = "wait_idle"
    BY <1>2, DrawAlone DEF FinishDraw, thread
  <2>2. Drawing' = {}
    BY <2>1, Taken DEF Drawing
  <2> QED BY <2>1, <2>2 DEF TargetAcquired
<1>3. CASE StartPresent
  <2>1. /\ UNCHANGED <<program, thread, target, image_index, present_complete, last_draw>>
        /\ p' = p /\ queue # <<>> /\ queue' = Tail(queue) /\ Head(queue) = queue[1]
        /\ Head(queue).kind = "present" /\ render_to_screen = "signaled"
        /\ image' = image \/ image' = [image EXCEPT ![Head(queue).image] = "queued"]
    BY <1>3, HeadType DEF StartPresent, thread, p
  <2>2. \A k \in Drawing' : k + 1 \in Drawing /\ queue'[k] = queue[k + 1]
    BY <2>1, Taken DEF Drawing
  <2>3. Guessed' = Guessed
    BY <2>1 DEF Guessed
  <2>4. present_complete # "unsignaled" /\ Ours => Ours'
    BY <2>1 DEF HeadOther, Ours, TypeOK
  <2>5. \A k \in Drawing : ~queue[k].started
    BY <2>1, QueueType DEF DrawKept, Drawing
  <2> QED BY <2>1, <2>2, <2>3, <2>4, <2>5 DEF TargetAcquired, thread
<1>4. ASSUME ~Acquire, ~FinishDraw, ~StartPresent
      PROVE  /\ UNCHANGED <<program, image_index>> /\ Guessed' = Guessed
             /\ Ours => Ours'
  <2>1. UNCHANGED <<program, image_index, last_draw>>
    BY <1>4, Steady
  <2> QED BY <1>4, <2>1, ImageKept DEF Guessed, Ours
<1>5. CASE Submit
  <2>1. Draw(p) \in Entry /\ ~Draw(p).started /\ Draw(p).image = target[p] /\ Drawing = {}
    BY <1>5, TurnType, ImageAssumption DEF Submit, DrawKept, Draw, Entry, TypeOK, Image
  <2>2. /\ Drawing' \subseteq {Len(queue) + 1} /\ queue'[Len(queue) + 1] = Draw(p)
        /\ pc' = "wait_idle" /\ UNCHANGED <<program, chain>>
    BY <1>5, <2>1, Pushed DEF Submit
  <2>3. present_complete # "unsignaled" => Ours /\ (Guessed => target[p] = image_index)
    BY <1>5 DEF Submit, TargetAcquired
  <2> QED BY <2>1, <2>2, <2>3 DEF TargetAcquired, Ours, Guessed, chain
<1>6. CASE StartDraw
  <2>1. /\ Drawing' = {1} /\ Drawing = {1} /\ pc' = "wait_idle"
        /\ queue'[1].image = queue[1].image
        /\ UNCHANGED <<program, image_index, image, last_draw>> /\ present_complete = "signaled"
    BY <1>6, DrawAlone, Started DEF StartDraw, thread
  <2> QED BY <2>1 DEF TargetAcquired, Ours, Guessed
<1>7. ASSUME ~FinishDraw, ~Acquire, ~StartPresent, UNCHANGED <<thread, target, queue>>,
             present_complete' # "unsignaled" => present_complete # "unsignaled"
      PROVE  TargetAcquired'
  <2>1. p' = p /\ Drawing' = Drawing
    BY <1>4, <1>7 DEF thread, p, Drawing
  <2> QED BY <1>4, <1>7, <2>1 DEF TargetAcquired, thread
<1>8. CASE SignalPresentComplete \/ Flip \/ FinishCopy \/ UNCHANGED vars
  <2>1. /\ UNCHANGED <<thread, target, queue>>
        /\ present_complete' # "unsignaled" => present_complete # "unsignaled"
    BY <1>8 DEF SignalPresentComplete, Flip, FinishCopy, chain, vars
  <2> QED BY <1>1, <1>2, <1>3, <1>7, <2>1
<1>9. CASE AcquireNothing
  <2>1. Drawing' = {} /\ present_complete' = "unsignaled"
    BY <1>9 DEF AcquireNothing, chain, AcquireTaken, DrawKept, Drawing
  <2> QED BY <2>1 DEF TargetAcquired
<1>10. CASE WaitFence \/ ResetFence
  <2>1. /\ pc \in {"wait_fence", "reset_fence"} /\ Drawing' = {} /\ p' = p
        /\ UNCHANGED <<program, target, chain>>
    BY <1>10 DEF WaitFence, ResetFence, DrawKept, Drawing, p
  <2> QED BY <2>1 DEF TargetAcquired, Ours, Guessed, chain
<1>11. ASSUME Drawing' = {}, pc' \notin {"wait_fence", "reset_fence", "submit"}
       PROVE  TargetAcquired'
  BY <1>11 DEF TargetAcquired
<1>12. CASE PresentImage
  <2>1. Present(PresentIndex) \in Entry /\ Present(PresentIndex).kind = "present"
    BY TurnType DEF Present, PresentIndex, Entry, TypeOK
  <2>2. Drawing' = {} /\ pc' = "record"
    BY <1>12, <2>1, Pushed DEF PresentImage, DrawKept
  <2> QED BY <1>11, <2>2
<1>13. CASE WaitIdle
  <2>1. Drawing' = {} /\ pc' = "reset_cb"
    BY <1>13, QueueType DEF WaitIdle, Drawing
  <2> QED BY <1>11, <2>1
<1>14. CASE Record \/ RecordNothing \/ ResetCommandBuffer \/ WaitBlockFence \/ ExecuteBlock
  <2>1. Drawing' = {} /\ pc' \notin {"wait_fence", "reset_fence", "submit"}
    BY <1>14 DEF Record, RecordNothing, ResetCommandBuffer, WaitBlockFence, ExecuteBlock,
                 DrawKept, Drawing
  <2> QED BY <1>11, <2>1
<1> QED BY <1>1, <1>2, <1>3, <1>5, <1>6, <1>8, <1>9, <1>10, <1>12, <1>13, <1>14
        DEF Next, Thread, Gpu, Engine

(* The head of the queue, over a step that does not take it.                *)
LEMMA HeadStays ==
  ASSUME TypeOK, [Next]_vars, ~FinishDraw, ~StartPresent, queue # <<>>
  PROVE  /\ queue' # <<>> /\ Head(queue').kind = Head(queue).kind
         /\ Head(queue').image = Head(queue).image
<1>1. queue \in Seq(Entry)
  BY QueueType
<1>2. ASSUME NEW e, queue' = Append(queue, e)
      PROVE  queue' # <<>> /\ Head(queue') = Head(queue)
  BY <1>1, <1>2
<1>3. CASE StartDraw
  <2>1. /\ Len(queue') = Len(queue) /\ queue'[1].kind = queue[1].kind
        /\ queue'[1].image = queue[1].image
    BY <1>3, Started DEF StartDraw
  <2>2. Head(queue') = queue'[1] /\ Head(queue) = queue[1] /\ queue' # <<>>
    BY <2>1, HeadType DEF Head
  <2> QED BY <2>1, <2>2
<1>4. CASE Submit \/ PresentImage
  BY <1>2, <1>4 DEF Submit, PresentImage
<1>5. CASE UNCHANGED queue
  BY <1>5
<1> QED BY <1>3, <1>4, <1>5
        DEF Next, Thread, Gpu, Engine, vars, Record, RecordNothing, Acquire, AcquireNothing,
            WaitFence, ResetFence, WaitIdle, ResetCommandBuffer, WaitBlockFence,
            ExecuteBlock, FinishCopy, FinishDraw, StartPresent, SignalPresentComplete, Flip

(* The queue gets a first entry from a submission or from a present.        *)
LEMMA HeadComes ==
  ASSUME TypeOK, DrawKept, [Next]_vars, queue' # <<>>, Head(queue').kind = "present",
         render_to_screen' = "signaled"
  PROVE  /\ ~FinishDraw /\ ~StartPresent /\ render_to_screen = "signaled"
         /\ \/ queue # <<>> /\ Head(queue).kind = "present"
               /\ Head(queue').image = Head(queue).image
            \/ /\ PresentImage /\ queue = <<>> /\ Presents = {}
               /\ Head(queue').image = image_index
<1>1. ~StartPresent
  BY DEF StartPresent
<1>2. ~FinishDraw
  <2> SUFFICES ASSUME FinishDraw PROVE FALSE
    OBVIOUS
  <2>1. Len(queue) = 1 /\ queue' = Tail(queue)
    BY DrawAlone DEF FinishDraw
  <2> QED BY <2>1, QueueType
<1>3. render_to_screen = "signaled"
  BY <1>1, <1>2, Steady
<1>4. CASE queue # <<>>
  BY <1>1, <1>2, <1>3, <1>4, HeadStays
<1>5. CASE queue = <<>>
  <2>1. Presents = {}
    BY <1>5, QueueType DEF Presents
  <2>2. ~Submit
    <3> SUFFICES ASSUME Submit PROVE FALSE
      OBVIOUS
    <3>1. Head(queue') = Draw(p)
      BY <1>5 DEF Submit
    <3> QED BY <3>1 DEF Draw
  <2>3. PresentImage
    BY <1>1, <1>2, <1>5, <2>2
       DEF Next, Thread, Gpu, Engine, vars, Record, RecordNothing, Acquire, AcquireNothing,
           WaitFence, ResetFence, WaitIdle, ResetCommandBuffer, WaitBlockFence,
           ExecuteBlock, FinishCopy, StartDraw, SignalPresentComplete, Flip
  <2>4. Head(queue') = Present(PresentIndex)
    BY <1>5, <2>3 DEF PresentImage
  <2> QED BY <1>1, <1>2, <1>3, <1>5, <2>1, <2>3, <2>4 DEF Present, PresentIndex
<1> QED BY <1>4, <1>5

(* An image is acquired only when no present waits for it.                  *)
LEMMA HeadStep == IInv /\ ImageInv /\ [Next]_vars => HeadOther'
<1> SUFFICES ASSUME IInv, ImageInv, [Next]_vars, queue' # <<>>,
                    Head(queue').kind = "present", render_to_screen' = "signaled",
                    present_complete' # "unsignaled"
             PROVE  Head(queue').image # image_index'
  BY DEF HeadOther
<1> USE DEF IInv, ImageInv
<1>1. ~FinishDraw /\ ~StartPresent /\ render_to_screen = "signaled"
  BY HeadComes
<1>2. CASE /\ queue # <<>> /\ Head(queue).kind = "present"
           /\ Head(queue').image = Head(queue).image
  <2>1. Ready(Head(queue).image)
    BY <1>1, <1>2 DEF PresentsDrawn, Ready
  <2>2. CASE Acquire
    BY <1>2, <2>1, <2>2 DEF Acquire, Ready
  <2>3. CASE ~Acquire
    <3>1. image_index' = image_index
      BY <2>3, Steady
    <3>2. ~StartDraw
      BY <1>2 DEF StartDraw
    <3>3. present_complete # "unsignaled"
      BY <1>1, <2>3, <3>2
         DEF Next, Thread, Gpu, Engine, vars, chain, Record, RecordNothing,
             AcquireNothing, WaitFence, ResetFence, Submit, WaitIdle, ResetCommandBuffer,
             PresentImage, WaitBlockFence, ExecuteBlock, FinishCopy,
             SignalPresentComplete, Flip
    <3> QED BY <1>1, <1>2, <3>1, <3>3 DEF HeadOther
  <2> QED BY <2>2, <2>3
<1>3. CASE PresentImage
  <2>1. present_complete # "unsignaled" /\ pc = "present" /\ Drawing = {}
    BY <1>3 DEF PresentImage, chain, DrawKept
  <2> QED BY <2>1 DEF AcquireTaken
<1> QED BY <1>2, <1>3, HeadComes

(* An image drawn stays so until its present, or the next acquire.          *)
LEMMA LastStep == IInv /\ ImageInv /\ [Next]_vars => LastDrawn'
<1> SUFFICES ASSUME IInv, ImageInv, [Next]_vars,
                    render_to_screen' = "signaled", Presents' = {}, Between'
             PROVE  Ready(image_index)'
  BY DEF LastDrawn
<1> USE DEF IInv, ImageInv
<1>1. CASE FinishDraw
  <2>1. /\ Drawing = {1} /\ queue[1].started /\ Head(queue) = queue[1]
        /\ image_index' = image_index
        /\ last_draw' = [image |-> queue[1].image, guessed |-> Guessed]
    BY <1>1, DrawAlone DEF FinishDraw
  <2>2. Ours /\ (Guessed => queue[1].image = image_index)
    BY <2>1 DEF TargetAcquired
  <2>3. image' = IF image[queue[1].image] = "acquired"
                 THEN [image EXCEPT ![queue[1].image] = "drawn"] ELSE image
    BY <1>1, <2>1 DEF FinishDraw
  <2>4. CASE queue[1].image = image_index
    BY <2>1, <2>2, <2>3, <2>4 DEF Ready, Ours, TypeOK
  <2>5. CASE queue[1].image # image_index
    BY <2>1, <2>2, <2>3, <2>5 DEF Ready, Ours, TypeOK
  <2> QED BY <2>4, <2>5
<1>2. ASSUME ~Acquire, ~FinishDraw, ~StartPresent, Presents = {}, Between
      PROVE  Ready(image_index)'
  <2>1. /\ image_index' = image_index /\ last_draw' = last_draw
        /\ render_to_screen = "signaled"
    BY <1>2, Steady
  <2>2. Ready(image_index)
    BY <1>2, <2>1 DEF LastDrawn
  <2> QED BY <1>2, <2>1, <2>2, ImageKept DEF Ready
<1>3. CASE StartPresent
  BY <1>3 DEF StartPresent
<1>4. CASE PresentImage
  <2>1. Present(PresentIndex) \in Entry /\ Present(PresentIndex).kind = "present"
    BY TurnType DEF Present, PresentIndex, Entry, TypeOK
  <2> QED BY <1>4, <2>1, Pushed DEF PresentImage
<1>5. CASE Submit
  <2>1. Draw(p) \in Entry /\ Draw(p).kind = "draw"
    BY TurnType, ImageAssumption DEF Draw, Entry, TypeOK, Image
  <2>2. Drawing' # {} /\ pc' = "wait_idle"
    BY <1>5, <2>1, Pushed DEF Submit
  <2> QED BY <2>2 DEF Between, Idle
<1>6. CASE StartDraw
  <2>1. Drawing' = {1} /\ pc' = "wait_idle"
    BY <1>6, DrawAlone, Started DEF StartDraw, thread
  <2> QED BY <2>1 DEF Between, Idle
<1>7. CASE Acquire \/ AcquireNothing \/ WaitFence \/ ResetFence
  BY <1>7 DEF Acquire, AcquireNothing, WaitFence, ResetFence, Between, Idle
<1>8. CASE WaitIdle \/ Record \/ RecordNothing \/ ResetCommandBuffer
           \/ WaitBlockFence \/ ExecuteBlock
  <2>1. Presents = {}
    BY <1>8 DEF WaitIdle, Record, RecordNothing, ResetCommandBuffer, WaitBlockFence,
                ExecuteBlock, Presents
  <2>2. Between
    <3>1. CASE WaitIdle
      <4>1. Drawing = {} /\ pc = "wait_idle"
        BY <3>1, QueueType DEF WaitIdle, Drawing
      <4> QED BY <4>1 DEF Between, Idle
    <3>2. CASE ~WaitIdle
      BY <1>8, <3>2 DEF Record, RecordNothing, ResetCommandBuffer, WaitBlockFence,
                        ExecuteBlock, Between
    <3> QED BY <3>1, <3>2
  <2>3. ~Acquire
    BY <1>8 DEF Acquire, WaitIdle, Record, RecordNothing, ResetCommandBuffer,
                WaitBlockFence, ExecuteBlock
  <2> QED BY <1>1, <1>2, <1>3, <2>1, <2>2, <2>3
<1>9. CASE SignalPresentComplete \/ Flip \/ FinishCopy \/ UNCHANGED vars
  <2>1. UNCHANGED <<thread, queue>>
    BY <1>9 DEF SignalPresentComplete, Flip, FinishCopy, vars
  <2>2. Presents = {} /\ Between
    BY <2>1 DEF thread, Presents, Between, Idle, Drawing
  <2> QED BY <1>1, <1>2, <1>3, <1>7, <2>2
<1> QED BY <1>1, <1>3, <1>4, <1>5, <1>6, <1>7, <1>8, <1>9 DEF Next, Thread, Gpu, Engine

(* A present is pushed after the draw it shows, and its image stays ready.  *)
LEMMA PresentsStep == IInv /\ ImageInv /\ [Next]_vars => PresentsDrawn'
<1> SUFFICES ASSUME IInv, ImageInv, [Next]_vars, queue' # <<>>,
                    Head(queue').kind = "present", render_to_screen' = "signaled"
             PROVE  Ready(Head(queue).image)'
  BY DEF PresentsDrawn, Ready
<1> USE DEF IInv, ImageInv
<1>1. /\ ~FinishDraw /\ ~StartPresent /\ render_to_screen = "signaled"
      /\ last_draw' = last_draw
  BY HeadComes, Steady
<1>2. ASSUME NEW i, Ready(i), Head(queue').image = i
      PROVE  Ready(Head(queue).image)'
  BY <1>1, <1>2, ImageKept DEF Ready
<1>3. CASE /\ queue # <<>> /\ Head(queue).kind = "present"
           /\ Head(queue').image = Head(queue).image
  <2>1. Ready(Head(queue).image)
    BY <1>1, <1>3 DEF PresentsDrawn, Ready
  <2> QED BY <1>2, <1>3, <2>1
<1>4. CASE PresentImage /\ queue = <<>> /\ Presents = {} /\ Head(queue').image = image_index
  <2>1. Ready(image_index)
    BY <1>1, <1>4 DEF LastDrawn, Between, PresentImage
  <2> QED BY <1>2, <1>4, <2>1
<1> QED BY <1>3, <1>4, HeadComes

(* Before anything was acquired only a chain of three is guessed right.     *)
LEMMA ImageInit == Init => ImageInv
<1> SUFFICES ASSUME Init PROVE ImageInv
  OBVIOUS
<1>1. /\ queue = <<>> /\ flips = <<>> /\ 1 .. Len(queue) = {} /\ 1 .. Len(flips) = {}
      /\ Drawing = {}
  BY DEF Init, Drawing
<1>2. GuessRight
  BY <1>1 DEF Init, GuessRight, Acquired, BackBuffer
<1> QED BY <1>1, <1>2 DEF Init, ImageInv, TargetAcquired, HeadOther, LastDrawn,
                          PresentsDrawn, FlipsQueued

(* The invariant of the images, for any number of them in any order.        *)
THEOREM ImageInvariance == Spec => []ImageInv
<1>1. IInv /\ ImageInv /\ [Next]_vars => ImageInv'
  BY GuessStep, TargetStep, HeadStep, LastStep, PresentsStep, FlipsStep DEF ImageInv
<1> QED BY <1>1, ImageInit, Invariance, PTL DEF Spec

(* No draw begins before the image acquired for it is the program's, though *)
(* execute made the framebuffer before the acquire, for the image           *)
(* back_buffer guessed; and where images come in order the guess is right,  *)
(* from the second draw on, or from the first in a chain of three.          *)
THEOREM DrawsAreAcquired == Spec => []DrawsIntoAcquired
<1>1. ImageInv => DrawsIntoAcquired
  BY DEF ImageInv, TargetAcquired, DrawsIntoAcquired, Ours
<1> QED BY <1>1, ImageInvariance, PTL

(* Only an image acquired goes to the screen, after the draw it was         *)
(* acquired for is over; and it was drawn to, if the guess was right.       *)
THEOREM PresentsAreDrawn == Spec => []PresentsDrawn
<1>1. ImageInv => PresentsDrawn
  BY DEF ImageInv
<1> QED BY <1>1, ImageInvariance, PTL
=============================================================================
