----------------------------- MODULE VulkanFrame -----------------------------
(***************************************************************************)
(* One frame after another on the Vulkan backend: the thread that records  *)
(* and submits (vk::RenderDevice::execute for each render pass, present,   *)
(* and now and then execute_block for a copy), the GPU queues that run     *)
(* what was submitted, and the presentation engine that owns the images of *)
(* the swap chain.  The three run concurrently and meet at fences,         *)
(* semaphores and blocking calls.                                          *)
(*                                                                         *)
(* Vulkan itself is not part of the repository.  It is modelled by the     *)
(* part of its contract the code relies on: a queue runs what is submitted *)
(* in order, presents included; a wait for a semaphore consumes its        *)
(* signal; an image is drawn to and presented only by whoever acquired it. *)
(*                                                                         *)
(* A definition that shares the name of the one after it, with a suffix    *)
(* (WaitIdleSkipped, BackBufferCurrent, ...), is a slip that could be made *)
(* in its place; nothing uses it.                                          *)
(***************************************************************************)
EXTENDS Naturals, Sequences

CONSTANTS
  Passes,          \* the render passes there are
  Programs,        \* the programs run, each with the engine it runs on
  ImageCount,      \* images.size()
  MaxCopies,       \* bound: calls of execute_block
  MaxQueued        \* bound: draws and presents on the master queue

(* frame: the render passes of a frame, in the order executed.              *)
(* mayRecordNothing: some command lists may be empty.                       *)
(* inOrder: the engine hands out the images round robin.                    *)
(* mayLoseSurface: the window may be resized, so that no image is acquired. *)
Program == [frame : Seq(Passes), mayRecordNothing : BOOLEAN,
            inOrder : BOOLEAN, mayLoseSurface : BOOLEAN]

ASSUME ProgramAssumption ==
  Programs \subseteq Program /\ \A g \in Programs : g.frame # <<>>
ASSUME ImageAssumption == ImageCount \in Nat \ {0}
ASSUME BoundsAssumption == MaxCopies \in Nat /\ MaxQueued \in Nat \ {0}

VARIABLES
  program,          \* the one that runs
  pc,               \* where the recording thread is
  turn,             \* which pass of the frame it executes
  cb,               \* cacheFrame.command_buffer_ of each pass
  target,           \* the image behind frame_buffer_, once recorded
  fence,            \* cacheFrame.self_execution_
  image_index,      \* image_index_
  image,            \* what each image of the chain is doing
  next_image,       \* the image the engine hands out next, if in order
  present_complete, \* present_complete_semaphore
  render_to_screen, \* render_to_screen_semaphores[0]
  last_draw,        \* history: the last draw over, and if it was Guessed
  queue,            \* the master queue: draws and presents not finished
  flips,            \* images presented and not on the screen yet
  copies,           \* transfer_queues[0]: submissions not finished
  copies_called,    \* calls of execute_block so far
  block_fence       \* its block_fence

thread == <<pc, turn>>
chain  == <<image_index, image, next_image, present_complete, flips, last_draw>>
copier == <<copies, copies_called, block_fence>>
vars   == <<program, thread, cb, target, fence, chain, render_to_screen, queue, copier>>

Image == 0 .. ImageCount - 1
NoImage == ImageCount

p == program.frame[turn]

Draw(i)    == [kind |-> "draw", pass |-> i, image |-> target[i], started |-> FALSE]
Present(i) == [kind |-> "present", pass |-> p, image |-> i, started |-> FALSE]

(* An entry of the master queue.                                            *)
Entry == [kind : {"draw", "present"}, pass : Passes, image : Nat, started : BOOLEAN]

Drawing == {k \in 1 .. Len(queue) : queue[k].kind = "draw"}

Step == {"record", "acquire", "wait_fence", "reset_fence", "submit",
         "wait_idle", "reset_cb", "present", "wait_copy"}
Signal == {"unsignaled", "pending", "signaled"}

TypeOK ==
  /\ program \in Programs
  /\ pc \in Step /\ turn \in 1 .. Len(program.frame)
  /\ cb \in [Passes -> {"none", "initial", "executable", "pending"}]
  /\ target \in [Passes -> Image]
  /\ fence \in [Passes -> {"none", "unsignaled", "signaled"}]
  /\ image_index \in Nat /\ next_image \in Image
  /\ image \in [Image -> {"free", "acquired", "drawn", "queued", "shown"}]
  /\ present_complete \in Signal
  /\ render_to_screen \in {"unsignaled", "signaled"}
  /\ queue \in Seq(Entry)
  /\ flips \in Seq(Image) /\ last_draw \in [image : Nat, guessed : BOOLEAN]
  /\ copies \in Nat /\ copies_called \in 0 .. MaxCopies
  /\ block_fence \in {"unsignaled", "signaled"}

(* image_index_ starts at 2, before anything was acquired.                  *)
Init ==
  /\ program \in Programs
  /\ pc = "record" /\ turn = 1
  /\ cb = [i \in Passes |-> "none"]
  /\ target = [i \in Passes |-> 0]
  /\ fence = [i \in Passes |-> "none"]
  /\ image_index = 2 /\ next_image = 0
  /\ image = [i \in Image |-> "free"]
  /\ present_complete = "unsignaled" /\ render_to_screen = "unsignaled"
  /\ queue = <<>> /\ flips = <<>>
  /\ last_draw = [image |-> NoImage, guessed |-> FALSE]
  /\ copies = 0 /\ copies_called = 0 /\ block_fence = "unsignaled"
-----------------------------------------------------------------------------
(* RenderDevice::execute, for the pass whose turn it is                     *)

BackBufferUnwrapped == image_index + 1
BackBufferCurrent == image_index % ImageCount
(* SwapChain::back_buffer: a guess of what will be acquired.               *)
BackBuffer == (image_index + 1) % ImageCount

(* Where the guess has to be right: the images come in order, and a draw is  *)
(* over.  Before the first, image_index_ is the 2 it starts with, which     *)
(* guesses the first image of a chain of three.                             *)
Guessed == program.inOrder /\ (last_draw.image # NoImage \/ ImageCount = 3)

FirstFenceUnsignaled == "unsignaled"
(* VK_FENCE_CREATE_SIGNALED_BIT: the first wait does not block.             *)
FirstFence == "signaled"

MakeFence == fence' = IF fence[p] = "none" THEN [fence EXCEPT ![p] = FirstFence] ELSE fence

(* The pass cache is completed, the commands are translated into the       *)
(* command buffer and the framebuffer is made again for the back buffer.   *)
Record ==
  /\ pc = "record"
  /\ MakeFence
  /\ cb' = [cb EXCEPT ![p] = "executable"]
  /\ target' = [target EXCEPT ![p] = BackBuffer]
  /\ pc' = "acquire"
  /\ UNCHANGED <<program, turn, chain, render_to_screen, queue, copier>>

(* An empty command list: nothing is recorded, acquired or submitted.      *)
RecordNothing ==
  /\ pc = "record" /\ program.mayRecordNothing
  /\ MakeFence
  /\ pc' = "reset_cb"
  /\ UNCHANGED <<program, turn, cb, target, chain, render_to_screen, queue, copier>>

(* vkAcquireNextImageKHR with no time limit: blocks until an image is free. *)
Acquire ==
  /\ pc = "acquire"
  /\ \E i \in Image :
       /\ image[i] = "free"
       /\ program.inOrder => i = next_image
       /\ image_index' = i
       /\ next_image' = (i + 1) % ImageCount
       /\ image' = [image EXCEPT ![i] = "acquired"]
  /\ present_complete' = "pending"
  /\ pc' = "wait_fence"
  /\ UNCHANGED <<program, turn, cb, target, fence, flips, last_draw, render_to_screen, queue,
                 copier>>

(* Its result is dropped: with the surface out of date no image is acquired, *)
(* no semaphore signaled, and the frame goes on with the index it had.      *)
AcquireNothing ==
  /\ pc = "acquire" /\ program.mayLoseSurface
  /\ pc' = "wait_fence"
  /\ UNCHANGED <<program, turn, cb, target, fence, chain, render_to_screen, queue, copier>>

WaitFence ==
  /\ pc = "wait_fence" /\ fence[p] = "signaled"
  /\ pc' = "reset_fence"
  /\ UNCHANGED <<program, turn, cb, target, fence, chain, render_to_screen, queue, copier>>

ResetFenceSkipped ==
  /\ pc = "reset_fence" /\ pc' = "submit"
  /\ UNCHANGED <<program, turn, cb, target, fence, chain, render_to_screen, queue, copier>>
ResetFence ==
  /\ pc = "reset_fence" /\ pc' = "submit"
  /\ fence' = [fence EXCEPT ![p] = "unsignaled"]
  /\ UNCHANGED <<program, turn, cb, target, chain, render_to_screen, queue, copier>>

(* vkQueueSubmit: waits for present_complete, signals render_to_screen and *)
(* the pass's fence.                                                       *)
Submit ==
  /\ pc = "submit" /\ pc' = "wait_idle"
  /\ queue' = Append(queue, Draw(p))
  /\ cb' = [cb EXCEPT ![p] = "pending"]
  /\ UNCHANGED <<program, turn, target, fence, chain, render_to_screen, copier>>

WaitIdleSkipped ==
  /\ pc = "wait_idle" /\ pc' = "reset_cb"
  /\ UNCHANGED <<program, turn, cb, target, fence, chain, render_to_screen, queue, copier>>
(* vkQueueWaitIdle *)
WaitIdle ==
  /\ pc = "wait_idle" /\ queue = <<>> /\ pc' = "reset_cb"
  /\ UNCHANGED <<program, turn, cb, target, fence, chain, render_to_screen, queue, copier>>

(* vkResetCommandBuffer if there is one, and execute returns: on to the    *)
(* frame's next pass, or to its present.                                   *)
ResetCommandBuffer ==
  /\ pc = "reset_cb"
  /\ cb' = IF cb[p] = "none" THEN cb ELSE [cb EXCEPT ![p] = "initial"]
  /\ IF turn < Len(program.frame)
     THEN pc' = "record" /\ turn' = turn + 1
     ELSE pc' = "present" /\ UNCHANGED turn
  /\ UNCHANGED <<program, target, fence, chain, render_to_screen, queue, copier>>
-----------------------------------------------------------------------------
(* SwapChain::present and RenderDevice::execute_block                       *)

PresentOther == (image_index + 1) % ImageCount
(* presentInfo.pImageIndices *)
PresentIndex == image_index

(* vkQueuePresentKHR: waits for render_to_screen on the queue.             *)
PresentImage ==
  /\ pc = "present" /\ pc' = "record" /\ turn' = 1
  /\ Len(queue) < MaxQueued
  /\ queue' = Append(queue, Present(PresentIndex))
  /\ UNCHANGED <<program, cb, target, fence, chain, render_to_screen, copier>>

(* execute_block(Copy), between two frames: vkQueueSubmit to the transfer  *)
(* queue with its block_fence, as the fence is.                            *)
ExecuteBlock ==
  /\ pc = "record" /\ turn = 1 /\ pc' = "wait_copy"
  /\ copies_called < MaxCopies
  /\ copies_called' = copies_called + 1
  /\ copies' = copies + 1
  /\ UNCHANGED <<program, turn, cb, target, fence, chain, render_to_screen, queue, block_fence>>

(* vkWaitForFences on block_fence, and execute_block returns.              *)
WaitBlockFence ==
  /\ pc = "wait_copy" /\ block_fence = "signaled" /\ pc' = "record"
  /\ UNCHANGED <<program, turn, cb, target, fence, chain, render_to_screen, queue, copier>>

Thread ==
  \/ Record \/ RecordNothing \/ Acquire \/ AcquireNothing \/ WaitFence \/ ResetFence \/ Submit
  \/ WaitIdle \/ ResetCommandBuffer \/ PresentImage \/ WaitBlockFence
-----------------------------------------------------------------------------
(* The GPU                                                                 *)

(* A draw at the head of the queue starts once its image may be drawn to.  *)
StartDraw ==
  /\ queue # <<>> /\ Head(queue).kind = "draw" /\ ~Head(queue).started
  /\ present_complete = "signaled"
  /\ present_complete' = "unsignaled"
  /\ queue' = [queue EXCEPT ![1].started = TRUE]
  /\ UNCHANGED <<program, thread, cb, target, fence, image_index, image, next_image, flips,
                 last_draw, render_to_screen, copier>>

FinishDraw ==
  /\ queue # <<>> /\ Head(queue).kind = "draw" /\ Head(queue).started
  /\ LET d == Head(queue) IN
       /\ fence' = [fence EXCEPT ![d.pass] = "signaled"]
       /\ cb' = [cb EXCEPT ![d.pass] = "executable"]
       /\ image' = IF image[d.image] = "acquired"
                   THEN [image EXCEPT ![d.image] = "drawn"] ELSE image
       /\ last_draw' = [image |-> d.image, guessed |-> Guessed]
  /\ render_to_screen' = "signaled"
  /\ queue' = Tail(queue)
  /\ UNCHANGED <<program, thread, target, image_index, next_image, present_complete, flips, copier>>

(* A present at the head of the queue hands its image to the engine.  One  *)
(* that was not acquired is not the queue's to hand over.                  *)
StartPresent ==
  /\ queue # <<>> /\ Head(queue).kind = "present"
  /\ render_to_screen = "signaled"
  /\ render_to_screen' = "unsignaled"
  /\ LET i == Head(queue).image IN
       IF i \in Image /\ image[i] \in {"acquired", "drawn"}
       THEN image' = [image EXCEPT ![i] = "queued"] /\ flips' = Append(flips, i)
       ELSE UNCHANGED <<image, flips>>
  /\ queue' = Tail(queue)
  /\ UNCHANGED <<program, thread, cb, target, fence, image_index, next_image, present_complete,
                 last_draw, copier>>

FinishCopy ==
  /\ copies > 0 /\ copies' = copies - 1
  /\ block_fence' = "signaled"
  /\ UNCHANGED <<program, thread, cb, target, fence, chain, render_to_screen, queue, copies_called>>
-----------------------------------------------------------------------------
(* The presentation engine                                                 *)

(* It has stopped reading the image it handed out.                         *)
SignalPresentComplete ==
  /\ present_complete = "pending" /\ present_complete' = "signaled"
  /\ UNCHANGED <<program, thread, cb, target, fence, image_index, image, next_image, flips,
                 last_draw, render_to_screen, queue, copier>>

(* The next image presented replaces the one on the screen.                *)
Flip ==
  /\ flips # <<>>
  /\ image' = [i \in Image |-> IF i = Head(flips) THEN "shown"
                               ELSE IF image[i] = "shown" THEN "free" ELSE image[i]]
  /\ flips' = Tail(flips)
  /\ UNCHANGED <<program, thread, cb, target, fence, image_index, next_image, present_complete,
                 last_draw, render_to_screen, queue, copier>>

Gpu    == StartDraw \/ FinishDraw \/ StartPresent
Engine == SignalPresentComplete \/ Flip

Next == Thread \/ ExecuteBlock \/ Gpu \/ FinishCopy \/ Engine

(* The thread runs the frame loop, and the devices do what they were given *)
(* to do.  Nothing obliges the program to call execute_block.              *)
Fairness ==
  /\ WF_vars(Thread) /\ WF_vars(Gpu) /\ WF_vars(FinishCopy)
  /\ WF_vars(SignalPresentComplete) /\ WF_vars(Flip)

Spec == Init /\ [][Next]_vars /\ Fairness
-----------------------------------------------------------------------------
(* Properties                                                              *)

(* What was submitted stays as it was until the GPU is done with it: no    *)
(* command buffer is recorded or reset, and no framebuffer replaced, while *)
(* a draw that uses it is in the queue.                                    *)
PendingUntouched ==
  \A k \in Drawing :
    cb[queue[k].pass] = "pending" /\ target[queue[k].pass] = queue[k].image

(* A fence is given to the queue unsignaled and unused, and comes back     *)
(* signaled exactly when the draw it stands for is over.                   *)
FenceDiscipline ==
  /\ pc = "submit" =>
       fence[p] = "unsignaled" /\ \A k \in Drawing : queue[k].pass # p
  /\ \A k \in Drawing : fence[queue[k].pass] = "unsignaled"

(* A semaphore is never signaled twice without a wait in between: no image  *)
(* is acquired while a draw has not taken the signal of the last, and, if   *)
(* one pass draws in a frame, no draw ends before the last was presented.   *)
(* With two passes the second draw signals render_to_screen_semaphores[0]   *)
(* again before the frame's one present waits for it.                       *)
SemaphoreDiscipline ==
  /\ pc = "acquire" =>
       present_complete = "unsignaled" /\ \A k \in Drawing : queue[k].started
  /\ Len(program.frame) = 1 =>
       \A k \in Drawing : queue[k].started => render_to_screen = "unsignaled"

(* Whatever image execute made the framebuffer for, a draw never begins     *)
(* before the one acquired for it, image_index_, is the program's to draw   *)
(* to: not one the engine shows or is about to.  Where back_buffer has to   *)
(* be right the draw goes to that image.                                    *)
DrawsIntoAcquired ==
  \A k \in Drawing : queue[k].started =>
    /\ image_index \in Image /\ image[image_index] = "acquired"
    /\ Guessed => queue[k].image = image_index

(* What goes to the screen is the program's to present, and was drawn first *)
(* where back_buffer had to be right: a present whose turn has come and     *)
(* whose semaphore is signaled names an image acquired, with a drawing in   *)
(* it just when it is the one the last draw went to.                        *)
PresentsDrawn ==
  queue # <<>> /\ Head(queue).kind = "present" /\ render_to_screen = "signaled" =>
    LET i == Head(queue).image IN
      /\ i \in Image
      /\ image[i] = IF i = last_draw.image THEN "drawn" ELSE "acquired"
      /\ last_draw.guessed => i = last_draw.image

(* RenderDevice.h, execute_block: it returns when the execution is         *)
(* completed on the GPU.                                                   *)
BlockWaits == pc # "wait_copy" => copies = 0

(* Frame after frame reaches the screen: no wait of the thread, on a       *)
(* fence, on the idle queue or on a free image, lasts forever.             *)
FramesGoOn == []<>(flips # <<>>)

(* They do for a program that draws once a frame to a surface that stays.   *)
OneDraw ==
  Len(program.frame) = 1 /\ ~program.mayRecordNothing /\ ~program.mayLoseSurface

OneDrawGoesOn == OneDraw => FramesGoOn
=============================================================================
