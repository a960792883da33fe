# Formal models of SakuraEngine

TLA+ models of the parts of SakuraEngine whose correctness depends on the
order in which things happen: the handles and tables behind which a render
device keeps its resources, the frame loop of the Vulkan backend, the command
lists of the WebGPU backend, the pipeline that runs ECS passes on the task
scheduler, the frame loop of Boids that is written on top of it, and the k-d
tree its passes search. TLC checks them on small instances; TLAPS proves the
safety properties of all of them, and two refinements, for every value of
their constants.

    tlc -workers 2 -config GpuResourceTable.cfg MCGpuResourceTable.tla
    tlapm GpuResourceTable_proofs.tla

`PROJECT.json` lists every run, the slips (mutants) that show that each
property can fail, the hazards of the code at their lines, and the source
lines each definition translates. Paths below are relative to
`src/SakuraEngine/Source/`.

## The system and its parts

| part | state it keeps | operations | models |
|---|---|---|---|
| **RenderGraph** (`Runtime/RenderGraph`, front end) | `memory_resources_`, `gpu_objects_` (a generation per handle given out), `named_handles_`, `passes` with their builders, `devices_` | `GpuBuffer`, `GpuTexture`, ..., their `Unsafe` and named forms, `RenderPipeline`, `SwapChain`, `Fence`, `create_render_pass`, `query`, `emplace_device` | `GpuResourceTable` (handles and names) |
| **Resource tables of a device** (`DeviceWebGPU.h`, `DeviceVulkan.h`) | `created_resources`, `created_objects`: vectors of (pointer, generation) | `create_*`, `destroy`, `valid`, `get`, `optional` | `GpuResourceTable`, `GpuResourceMap` |
| **Vulkan device, a frame** (`DeviceVulkan.cpp`, `SwapChainVulkan.cpp`) | `pass_cache` (command buffer, fence, framebuffer per pass), semaphores of the swap chain, `image_index_`, `block_fence` | `execute`, `execute_block`, `present` | `VulkanFrame` |
| **ECS pipeline** (`Runtime/ECS/Include/ECS/ECS.h`) | `allPasses` (weak pointers), the event and the dependencies of each pass, `force_no_fibers`, `force_no_group_parallel` | `create_pass`, `create_custom_pass`, `schedule*`, `sync_dependencies`, `sync_all`, `mark_frame` | `EcsSchedule`, `EcsPipeline` |
| **Boids, a frame** (`Test/Boids/Source/Boids.cpp`, `RenderSystem.h`) | the shared vectors of its systems, `worlds`, `ids` and `target_worlds` | `CollectAndUpload`, `BoidMainLoop`, `SpawnBoids`, `DestroyBoids`, loading a snapshot | `BoidsFrame` |
| **Boids, the k-d tree** (`Test/Boids/Source/kdtree.h`) | `points`, `nodes` | `initialize`, `search_radius`, `search_k_radius`, `search_nearest` | `KdBuild`, `KdTree` |
| **WebGPU device, a frame** (`DeviceWebGPU.cpp`) | `pass_cache` with encoders, `sets` and `bind_groups` | `execute`, `processCommand*`, `execute_block` | `WebGpuFrame` (all but `execute_block`); lookups and `destroy` in `GpuResourceTable` |
| **Render command buffer** (`RenderCommandBuffer.h`) | the list of commands, a linear allocator | `enqueue`, iteration, `reset` | `WebGpuFrame` |
| **Allocators** (`Allocators.cpp`) | free list, pool, stack | `allocate`, `free`, `reset` | the linear allocator in `WebGpuFrame`; not the others |
| **Containers** (`flat_map.hpp`, `constexpr_map.hpp`) | two vectors kept in step | `insert`, `find`, `erase` | not modelled |
| **ImGui pass** (`imgui_render_graph.cpp`) | two buffers, made again in each frame that draws | `construct`, `execute` | `WebGpuFrame` |
| **Module registry, message buses** (`RuntimeCore.cpp`) | `modules_`, window bindings | `regist`, `StartUp`, `Terminate`, `bind`, `unbind` | not modelled |
| **Resources, virtual file system** | mounted adapters, open files | `open`, `read` | not modelled (file I/O) |
| Platform windows and input, GUID, math, D3D12 stub, shader compiler, GLTF import | | | not modelled, see the end |

How they interact. A program asks the RenderGraph for a handle, hands it to a
device's `create_*`, and from then on refers to the resource by handle only:
render passes put handles into command buffers, and the device looks them up
while it records. Every frame the program calls `IRenderDevice::execute` once
per render pass and `present` once; on Vulkan these meet the GPU at fences and
semaphores. Independently of that, the simulation makes ECS passes, whose
tasks run on the threads of the scheduler (marl), and synchronises with them
before it changes entities or uploads instance data to the device. The passes
of Boids hand each other their results in shared vectors, each resized by the
init function of the pass that fills it, and in trees built of them.

What is hard, part by part:

* *Tables*: handles outlive the resource they name; slots and heap addresses
  are reused; generations and `index() + 1` wrap; the default handle is all
  ones. A correct table behaves like a map from handles to resources.
* *Vulkan frame*: three parties run concurrently (the thread, the GPU queues,
  the presentation engine). Command buffers and framebuffers must be left
  alone while the GPU uses them, fences and semaphores must alternate, images
  must be acquired before they are drawn, and no unlimited wait may last for
  ever.
* *ECS pipeline*: passes of several frames overlap; dependencies are weak
  pointers that may expire; groups of a pass run in parallel and refer to its
  closure; `mark_frame` forgets passes that `sync_all` would have to wait for.
* *WebGPU frame*: the cache of a pass outlives the frame and the buffers it
  names; what a draw uses must follow from this frame's list all the same, and
  what the device makes for a frame must not pile up.
* *Boids frame*: init functions resize vectors before their pass waits for
  anything; the main thread adds and removes boids, and fills global vectors
  through passes, while other passes run. Only the order the program makes its
  passes in, and three waits, keep these apart.
* *k-d tree*: tasks write one vector of nodes and of indices at once; the nodes
  of the last frame are overwritten, not cleared; ties and limits decide what a
  search prunes.

## Modules

| module | role |
|---|---|
| `GpuResourceMap` | abstract specification: a partial map from handles to resources |
| `GpuResourceTable` | RenderGraph's handles and a device's two tables, on either backend |
| `MCGpuResourceTable` | instance for TLC: three addresses, one name |
| `GpuResourceTable_proofs` | its theorems |
| `VulkanFrame` | the recording thread, the GPU and the presentation engine |
| `MCVulkanFrame` | the frame loops of the test programs |
| `WebGpuFrame` | recording a pass, and the WebGPU device going through its commands |
| `WebGpuFrame_proofs` | its theorems, but for one |
| `WebGpuWork_proofs` | that the queue receives what the list says |
| `MCWebGpuFrame` | the frame and the command lists of Boids |
| `EcsShapes` | what a pass declares, and when two passes conflict |
| `EcsSchedule` | abstract specification: passes that conflict run in order |
| `EcsPipeline` | the thread that makes passes, and the tasks that run them |
| `MCEcsPipeline` | the shapes of the passes Boids makes |
| `EcsPipeline_proofs` | its theorems |
| `VulkanFrame_proofs` | the theorems of `VulkanFrame` |
| `BoidsFrame` | the main thread of Boids and its passes, on `EcsSchedule` |
| `MCBoidsFrame` | which of Boids's boxes are checked |
| `BoidsFrame_proofs` | its theorems |
| `KdBuild` | building the tree by tasks and by recursion |
| `KdBuild_proofs` | its theorems |
| `KdTree` | searching the tree |
| `KdTree_proofs` | its theorems |
| `MCKdTree` | clouds of up to seven points, and the points searched from |

A definition that stands just before another one and carries its name with a
suffix (`SuccNoWrap` before `Succ`) is a slip a change to the code could make;
nothing uses it but the check that some property notices it.

### GpuResourceTable

`generations[t]` is the vector a handle's entry is pushed on (`emplace_back`),
so a handle's index is the size reached, counted from 1. `size[t]` and
`created[t]` are the device's vector and its slots; entries past `size` are
empty in the model. What an `optional` answers is a set (`Optional`): the one
resource named by the handle or nothing, and any address at all where the code
reads past the end of the vector, which is undefined and which only Vulkan's
lookup of the default handle does. `LookupInBounds` is about whether it does.
`heap[a]` is the object at address `a`, and `new` takes any free address,
so an address freed by `destroy` comes back under another handle. `destroyed`
is a history variable. The actions are `MakeResource`, `MakeNamedResource`,
`MakeObject` (the methods the `constructor_rg_*_handle` macros make:
`element` gives generation 0, `elementUnsafe` the largest), `Create` (`_create_resouce_impl` and
`_create_object_impl`) and `Destroy`. `create` on a handle that names
something and `destroy` on one that names nothing log or return at once: they
are stutters. The constant `Backend` picks between the two devices, which
differ in two places: only WebGPU's lookups refuse the default handle, and
only its `destroy` does anything.

Assumed: `MaxHandles < UHalfMax`, that is, the program never gives out as many
handles as fill the half word (2^32 on the 64-bit builds modelled; on a 32-bit
build `uhalf_t` is 16 bits and is promoted to `int` before `index() + 1`, so
the wrap this module is about does not occur). The RenderGraph and the device
are used from one thread, as in every program of the repository.

### VulkanFrame

One action per call of the recording thread that blocks or hands something to
another party: `Record` (command buffer and framebuffer made again), `Acquire`,
`WaitFence`, `ResetFence`, `Submit`, `WaitIdle`, `ResetCommandBuffer`,
`PresentImage`, `ExecuteBlock`, `WaitBlockFence`, in the order of
`RenderDevice::execute` and `SwapChain::present`; `RecordNothing` is the path
of an empty command list. `Gpu` and `Engine` are Vulkan's side and external.
They are modelled by the part of Vulkan's contract the code leans on:

* a queue runs its submissions in order, and presents take their turn on it;
* a wait for a semaphore consumes the signal;
* the engine hands out a free image; an image returns when the next one
  replaces it on the screen.

A `Program` is a frame (its passes in order) and what its surroundings may do:
record empty lists, hand out images in any order, lose the surface. The initial
state picks one, so that one run covers them all and each property names the
programs it is about. `AcquireNothing` is the call that fails because the
window was resized: the code drops its result, so the frame goes on with the
old `image_index_` and no semaphore on its way; nothing recovers from that,
which `OneDrawGoesOn` leaves out and the safety properties do not.

The framebuffer is made for `(image_index_ + 1) % ImageCount` before the image
is acquired: `back_buffer` guesses what that will be. Nothing in Vulkan promises
that images come round robin (`inOrder`), nor that there are three of them, the
number for which the initial `image_index_ = 2` guesses the first. So
`DrawsIntoAcquired` and `PresentsDrawn` have two parts. Whatever the order and
the number: a draw starts only once an image was acquired for it, that image is
neither shown nor about to be, and what is presented is such an image. Where
the guess has to be right (`Guessed`: images in order, and either three of them
or an image drawn already), the draw goes to that image and the present shows
it. `last_draw` is a history variable, the image of the last draw over and
whether it was `Guessed`. Where the guess may be wrong the model has the draw go
to another image than the one presented, as the code does.

`SemaphoreDiscipline` says of `render_to_screen_semaphores[0]` only that frames
of one pass alternate its signals and waits. In a frame of two passes they do
not: the second draw signals the semaphore again before the one present waits.
That is in the model, but no run reports it, because no text of the repository
denies it; `vulkan_boids` shows what becomes of such frames.

At this commit the test programs make the WebGPU device. They reach it through
`IRenderDevice`, so their loops are the loops a program on the Vulkan device
runs, and it is in this sense that the runs use them.

### WebGpuFrame

`at` is the pass of the frame at work and `cursor` the command being processed
(0 while the pass is recorded), counted from 1 as slots and sets are.
`commands[p]` and `memory[p]` are a pass's `RenderCommandBuffer`: the list, and
the commands its allocator has handed out room for. `imgui` is the pair of
handles the ImGui pass holds, `live` the buffers that exist under such handles,
`cache[p]` the `PassCacheFrame`. Each `processCommand*` of the device is an
action, each way to record a pass another (`RecordScene`, `RecordUi`,
`RecordNothing`), and `Finish` is the end of `RenderDevice::execute`. A command
the code asserts against, or that reads through a null pointer, sets `fault`,
after which nothing happens: the properties say that there are none.

`encoding`, `submitted` and `held` are WebGPU's side and external: what the
encoder was given, what the queue received, how many objects the device made
and has not released. Destroying a buffer whose commands have been submitted
is safe by WebGPU's contract, which is why no GPU runs beside the thread here,
in contrast to `VulkanFrame`. One thread does everything, one step after the
other: no fairness is assumed and no liveness is stated.

Left out, and why: `UpdateBinding`'s dirty flags are written and never read;
scissors and indirect draws are enqueued by no program of the repository, and
none registers a draw callback with ImGui (`ResetRenderState`); no list begins two render passes or changes the pipeline of a pass. A list whose
first binding precedes its render pass is a fault, not a behaviour left out.

`ExecutesList` is the promise of the module: what reaches the queue is told
from the list alone (`WorkOf` looks back through the list for the buffers and
bindings asked for last), while the actions get there through the cache.

### EcsPipeline

Passes are numbered in the order made. `stage[p]` is how far the pass is:
made, scheduled, waiting (initialised, waiting for its dependencies),
running in parallel or one group after another, signaled, released (its closure
destroyed). `queued[p]` and `running[p]` are its groups; `tasksGroup[p]` the
count of its `WaitGroup`. `held`, `allPasses`, `inline`, `sync`, `todo` and
`changing` belong to the thread that makes passes: the `shared_ptr`s it still
holds, the list of weak pointers, the pass it runs itself when fibers are off,
and the synchronisation it is blocked in. `Expired(p)` is that a weak pointer
does not lock: neither the thread nor the closure holds the pass.

External and modelled by what this code relies on: `core::codebase` (a
submodule that is not in the repository) computes the dependencies of a pass
as the unfinished earlier passes it conflicts with; marl's events stay
signaled (`Mode::Manual`), its `WaitGroup::wait` returns at zero, and a fiber
that can go on does so. `sync_dependencies` is called by the codebase with the
passes that touch what is about to change.

The waits for the dependencies and for the external events are one step: each
is a wait for something that stays true, so waiting one after another ends
when waiting for all of them does. Clearing the dependencies between the two
is not observable.

`EcsSchedule` is what all this promises its user: a pass begins when the
earlier passes it conflicts with are over, and its init function runs at any
time before. `phase` is how far a pass is. `Phase(p)` maps the stages of
`EcsPipeline` to it, and `ImplementsSchedule` is the refinement.

### BoidsFrame

The main thread goes through a frame (`pc`): `Collect` makes the three passes
of `CollectAndUpload`; `Simulate` is its return, which makes the passes of
`BoidMainLoop` in the order of the code with the boxes as the user left them;
then the user changes the number of boids (`UpdateBoidsCount`), loads a
snapshot, or does nothing (`Render`). Beside it each pass initialises
(`InitializePass` resizes its vector), begins and ends, as `EcsSchedule` lets
it. `size` is the number of elements of each vector and tree, `boids` the
number of boids, `spawned` whether there is an archetype of boids. The passes
are the program's, each with what it declares and the vector it resizes.
A pass made before any boid exists matches no archetype and declares no component
of one. `worlds` and `ids` begin with `TARGET_NUM` elements and `target_worlds`
with ten, one for each of the ten targets, as `RenderSystem.h:183-185` has them.
Dropped: what the passes compute, and how many entities a task takes.

The program as it is built begins with no boids (`bUseImGui` is true), so the
passes of its first frames declare no component of one, nothing later waits for
them, and they may still run when boids exist: `boids_first_spawn` shows it, and
from that start a pass may find its vectors of another size, or resized under
it. This ends when, with an archetype of boids there, a moment comes at which
every pass is over; from then on the program is `settled` (a history variable).
`Fits`, `ResizedAlone` and `SettledCycleEnded` are about the settled program,
from the real start as from one with boids, and claim nothing before that.
`CycleEnded` is the comment's claim as it stands, without condition;
`SettledCycleEnded` is the part of it that holds: once settled, and if the last
frame made the pass that updates the transforms (`enabled.l2w`), since without
that pass nothing `CollectAndUpload` waits for comes after the simulation.

`UpdateBoidsCount` waits, in one step, for the passes of the archetype of
boids: waits are for things that stay true. Not modelled are the mode that
saves a snapshot in every frame and the sliders of the boids' settings; both
only wait for more.

### KdBuild and KdTree

`calls` are the calls of `build_resursive_multithread` and of `build_recursive`
that have not returned, by the node each one makes. `Split` is `nth_element`
and the writing of the node; `CallHalf` calls for a half, by a task (a span of
`MinParallel` points or more, whose halves are built in any order) or by
recursion (the right half after the left one has returned); `CallEmpty` is the
call for an empty half, which returns `nullptr` at once; `Return` waits for
both halves and stores the node with its caller, which in a task is the
statement that ends it. The two functions differ in nothing else, so one set of
actions is both. `nth_element` is modelled by its contract: any order that
splits the span at the middle. `indices` is the vector all spans are parts of.
`nodes` survives from tree to tree as in the code.

`KdTree` extends the build with the searches, call by call. `search` is the
search that has not returned, `stack` the calls of `search_*_recursive` it is
in, `found` what it has found. A call on the stack is for a node and has either
just been entered or, `crossing`, called itself for the near side. `VisitNull`
is the call for `nullptr`, `Visit(n)` a call up to its first recursive one
(the point is noted if it is closer than the limit), `Cross` what comes after:
the far side is visited if the plane is closer than the limit, by a call that
takes the place of the one on the stack, since nothing follows it. The three
recursive functions differ in their limit (`Closer`) and in what noting does
(`Noted`), so one set of actions is all three; `Finish` returns. A search is
`const` and keeps what it finds to itself, so searches that run at once do not
see each other and one at a time shows all there is. It leaves the tree to
`KdBuild` (`SearchesOnlyRead`), and begins when the tree is built: that it does
not begin earlier is for `EcsPipeline` and `BoidsFrame`.

Coordinates are integers and their arithmetic exact, where the code has
`float`: the properties are about the order of distances, not about rounding.
The queue keeps the pairs of distance and index of `sorted_vec`; the search
within a radius, which keeps only the index, is given the distance as well, so
that one `found` serves all.

`search_k_radius` may find fewer than `k` points, and not the `k` nearest: it
compares a point with the farthest one found even while its queue has room.
Nothing in the repository says it finds the `k` nearest, so `KSearchSound`
states what it does: at most `k` points within the radius, sorted, the nearest
among them.

`NoNodeTwice` is about the calls: what is still ahead of those on the stack
(`Pending`) never grows and loses the node visited, so a search of `n` points
makes at most `n` calls that visit one.

## Runs

| run | expects | question |
|---|---|---|
| `gpu_resource_table` | pass | do the WebGPU tables implement the map, stay in bounds and lose nothing? |
| `vulkan_lookup` | violation | does a Vulkan lookup refuse the default handle? |
| `vulkan_frame` | pass | with one pass or two, empty lists, lost surfaces and images in any order, are command buffers, fences, semaphores and images used as required; do the frames of a program that draws once go on? |
| `vulkan_boids` | violation | do frames go on when two passes of a frame draw to one swap chain? |
| `vulkan_execute_block` | violation | does `execute_block` wait for its copy each time? |
| `web_gpu_frame` | pass | does the queue receive what the list says, do all handles resolve, and does nothing pile up? |
| `web_gpu_copies` | violation | does `execute` execute a list that only copies? |
| `ecs_pipeline` | pass | does every pass end, every synchronisation return, an event mean the pass is over, and the pipeline implement the schedule? |
| `ecs_order` | pass | do conflicting passes keep their order, and does a synchronised thread have what it asked for to itself? |
| `boids_frame` | pass | once the program has settled, do Boids's passes find vectors of one size that nobody moves under them, and does collecting end the last frame; is what is uploaded at rest, from the start? |
| `boids_first_spawn` | violation | started with no boids, does collecting end the last frame's passes? |
| `kd_tree` | pass | do the tasks stay apart, is the tree complete, do the searches find what they should, and come to no node twice? |

Bounds, and why they are enough.

* `gpu_resource_table`: two handles of each table, so that slots are filled out
  of order and the vector grows past a hole; half words of two bits, so the
  default handle's index wraps and the largest generation wraps on destroy;
  three addresses, fewer than the handles, so that addresses are reused.
  Addresses are only compared: their permutations are a symmetry. What the
  bounds leave open is closed by the proofs.
* `vulkan_*`: two frames, of one pass (TestImGui) and of two (Boids), each with
  the eight settings of what may happen to it in `vulkan_frame`. Three images, one more than the usual minimum of two, which
  is what the swap chain asks for (`minImageCount + 1`); the theorems are about
  any number. `MaxQueued`
  bounds draws and presents on the queue; the thread waits for an idle queue
  in every pass that records something, so three is never the reason it waits
  there. `MaxCopies` bounds the calls of `execute_block`; two are what it takes
  to meet the fence that was not reset, and with one the fence has no past,
  which is why the run that checks that frames go on has one.
* `web_gpu_frame`: Boids's two passes with its binding layouts. Four handles
  for the ImGui buffers: two in use and two to replace them with, so that the
  cache meets handles it has seen and handles it has not. Twenty-four scene
  lists: with and without a copy, two offsets, two buffers for one slot, and a
  second draw with one slot bound again, with two, or none. `Capacity = 14` has
  room for the longest list and not for two, so a `reset` that kept the memory
  would be noticed; `MaxUiDraws = 2` is what it takes for a draw after a draw.
* `ecs_pipeline`: two passes with two groups, so that a pass runs in parallel
  (`MinParallelTask = 1` instead of 8) and groups finish out of order, and all
  four settings of the switches. `ecs_order`: three passes, which is what it
  takes for a chain of dependencies, a pass that a later one skips because it
  expired, and a pass forgotten by `mark_frame` between two synchronisations;
  one group each.

* `boids_frame`: two frames, so that the second's passes meet the first's; a
  target, and up to two boids, so that the number grows, shrinks and reaches
  none; one box unchecked in either frame, or none. The number changes once in
  a frame, as one slider does. It starts with no boids, as the program is built,
  or with one, as it starts built without a user interface. One bound is a
  constraint (`SettledInTime`): where the second frame begins before the program
  has settled, the run goes no further. Such behaviours are most of the states
  of the model, and only `TypeOK` and `CollectedAtRest` ask anything of them
  unless they settle after all; the proofs leave none out. About 600,000 states.
* `kd_tree`: none, one, three, five and seven points, with points on one line
  and two in one place; `MinParallel = 3`, so that seven points are split by
  tasks twice; each tree is built after each other one, over its nodes. Every
  cell of the grid the points are on is searched from, within two radii
  that points lie exactly at; `K = 2` fills the queue. About 106,000 states.
  That seven points are enough need not be believed: the build and the searches
  are proved for any number.

Deadlock is checked on `web_gpu_frame`, where a fault would be one too, on
`kd_tree` and on `vulkan_execute_block`. It is off where the program may
stop: once the handles are used up nothing more need be created; the passes of
the pipeline and the frames of Boids are bounded; and of the programs of
`vulkan_frame` those that draw twice, record nothing or lose their surface
block in a wait. That the others do not is `OneDrawGoesOn`.

Fairness. `VulkanFrame` assumes that the thread runs its loop and that the GPU
and the engine do what they were given (WF of each); nothing obliges the
program to call `execute_block`. `EcsPipeline` assumes that each pass's task
goes on when it can (marl's workers run ready fibers, and bodies end) and that
the making thread finishes a synchronisation it began; nothing obliges it to
make passes or to synchronise. With fibers off the inline pass runs on that
same thread, which is inside `schedule` then: it too goes on when it can.

## What is proved

`GpuResourceTable_proofs`, for any heap, set of names, bound on the handles
and width of the half word:

* `TypeCorrect`, `NothingLeaks` and `IssuedLookupsAreSound` on either backend:
  the last says that the lookup of a handle the RenderGraph gave out answers
  nothing, or the live resource constructed with it;
* `LookupsAreSound`, `LookupsAreInBounds` and `DestroyedAreGone` on WebGPU. The
  first two cover the default handle too, whose lookup on Vulkan reads past the
  vector (`vulkan_lookup` shows it). `DestroyedIsGone` is not claimed of Vulkan,
  whose `destroy` is empty, and no run asks it there;
* `Refinement`, on WebGPU: `Spec => Map!MapSpec`, the tables implement
  `GpuResourceMap` under `issued <- AllIssued`, `resourceOf <- [h |-> Named(h)]`.

None of the properties is inductive. The invariant is
`IInv == TypeOK /\ SlotsOwned /\ LiveReachable /\ NamesHeld /\ DestroyedEmpty`:
a slot that points somewhere points to the resource constructed with the one
handle that has its index and generation, and lies within the vector
(`SlotsOwned`), and a live resource is in the slot its handle selects
(`LiveReachable`). `SlotsOwned` is what forbids a slot left over from another
generation of the same index; it needs that the generations pushed for an
index never change. With it a lookup's tests of the vector's size never hide a
slot that is filled (`NamedIsSlot`), so the rest of the argument is about
slots alone. The refinement uses the invariant in both states of a step.

`EcsPipeline_proofs`, for any number of passes and groups, any resources and
shapes, any threshold and any settings of the switches: `TypeCorrect`,
`OrderKept`, `EventsMeanDone`, `ExpiredAreDone`, `SyncedIsAlone`. The
invariant is `TypeOK` with

* `StagesKept`: a pass not scheduled yet is held by the thread that made it,
  so a pass can expire only after its closure was destroyed, that is, after
  its event was signaled (`ExpiredIsDone`);
* `OrderWaited`: an earlier conflicting pass is over, or is among the
  dependencies of a pass that has not begun;
* `GroupsCounted`: while a pass runs in parallel the count of its wait group is
  the number of groups queued and running, so at zero none is left
  (`JoinedIsOver`). The type of the count rests on this as well;
* `UnfinishedListed`: a pass that is not over is in `allPasses`, whatever
  `mark_frame` and `sync_all` took out;
* `SyncCovers`: the list of a synchronisation has every pass it must wait for.

`Refinement: Spec => Abstract!ScheduleSpec` shows with that invariant that the
pipeline implements `EcsSchedule`; the step that needs it is `Begin`, where
`OrderWaited` says that an earlier conflicting pass is over once the
dependencies are.

`VulkanFrame_proofs`, for any programs and passes and any number of images and
copies: `TypeCorrect`, `PendingIsUntouched`, `FencesAlternate`,
`SemaphoresAlternate`. The invariant says where the thread can be while
something is in flight, and rests on `vkQueueWaitIdle`: the queue holds at most
one draw, the last thing on it, and of the pass the thread is at (`DrawKept`);
the signal of an acquire is taken by the draw submitted next (`AcquireTaken`);
only the head of the queue is started, and `render_to_screen` is signaled
between a draw and its present. `DrawsAreAcquired` and `PresentsAreDrawn` add
`ImageInv`: where the guess has to be right the image acquired next is the one
`back_buffer` guesses (`GuessRight`), and in any case the image of the last
acquire stays acquired until its draw is over (`TargetAcquired`), only
images handed over wait for the screen (`FlipsQueued`), and the drawn image is
the one the last draw went to (`LastDrawn`). They assume nothing of the number
of images or of their order.

`WebGpuFrame_proofs`, for any passes in a frame, any binding layouts, any
capacity and any lists that are `WellFormed`: `TypeCorrect`,
`HandlesAlwaysResolve`, `RoomStays`, `EncodersEndOnce`, `NothingEverPilesUp`.
A list is well-formed when it begins at most one render pass and ends it, has
everything but copies after that beginning, binds no slot the layout lacks, and
draws only when every slot has been bound; the lists of the ImGui pass are not
assumed so but proved so, from what `UiSetup` binds. The invariant says that no
command has faulted, and that

* `ListGood`: while a list is executed, what it names exists, since buffers are
  destroyed and made only while one is recorded;
* `EncoderOwned`: a pass encoder belongs to the list at work, and one that is
  open is followed by the command that ends it;
* `BoundGood`: a slot the list has bound holds an existing resource. This is
  what a test of one frame does not reach: the cache keeps the bindings of
  earlier frames, ImGui's destroyed buffers among them, and they are harmless
  only because a draw comes after every slot was bound anew;
* `GroupsCounted`: the bind groups held are those the caches name.

`WebGpuWork_proofs` adds `ListsAreExecuted`, the promise of the module, for
lists that are `SceneComplete`: a list that copies begins a render pass
(`web_gpu_copies` shows what becomes of one that does not), and a draw comes
after a vertex and an index buffer were set. The invariant is the one above
with `Told` (the encoder has the buffers the list set last, and its work is
what `WorkUpTo` reads off the list up to the cursor) and `SlotsTold` (what the
cache holds of a slot is what the list bound to it last, of the slots it has
bound by now). That is the relation between the two ways of the same work: the
program's list, looked back through, and the cache, written over frame by
frame. A command the cursor passes adds to `WorkUpTo` what it adds to the
encoder, so no induction over the list is needed but the invariant itself.

`BoidsFrame_proofs`, for any number of boids to begin with, none included, any
targets and frames and any settings of the boxes: `TypeCorrect`,
`CollectedStaysAtRest`, `AlwaysFits`, `AlwaysResizedAlone` and `CyclesEnd`. The
last three are about the settled program, as their properties are; none assumes
that there are boids from the beginning. When the program settles, `n` passes
were made and all are over. From then on they are the past (`Settling`: there
is such an `n`), and the argument is about the passes after them (`Live(n)`),
all of which know of the boids. The invariant is `TypeOK` with

* `PassesFiled`, `CollectingLast`: each pass is one of the program's, and those
  that collect are over but for the three the main thread waits for;
* `Whole`: of the live passes the eight of `BoidsSystem` stand together in the
  order of the code, and so do the two of the targets. A pass is made in one
  frame and begins in another, so whom it conflicts with has to be told from the
  list alone;
* `InOrder`: `EcsSchedule`'s promise, kept as a fact about the passes that began;
* `FrameTail`: if it makes it (`enabled.l2w`, the condition of
  `SettledCycleEnded`), a frame ends with the pass that updates `l2w`, which
  comes after every pass before it that collects nothing; the first pass that collects comes
  after it, so to wait for what is collected is to wait for all of them;
* `BoidsFit`, `TargetsFit`, `TreesFit`: from the time a pass has resized its
  vector until the last pass that uses the vector is over, the vector has one
  element for each entity. The number of boids changes only when none of them
  runs, and the init function of the next frame's pass writes the same size.

`KdBuild_proofs`, for any clouds of points, any dimension, any threshold for
tasks, any order that `nth_element` leaves and any interleaving of the tasks:
`TypeCorrect`, `TasksStayApart`, `TreesComplete`. The invariant is

* `Sized` and `Callers`: `indices` is onto the points, every call's part lies
  within the vectors, and every call but the first is for a half of its
  caller's part that the caller has called for and that has not returned;
* `Nested`: of two calls either nothing is in common, neither nodes nor indices,
  or one lies in the half the other waits for. `TasksApart` says so of calls
  that are still to split only, which no step of the ones that wait preserves;
* `Progress`: a call that split its span keeps it split around its pivot
  (`Pivot`), whatever the calls for the halves do to their parts, and a half
  that returned is a finished tree (`Grown`): its nodes hold the points of its
  span, its children lead to sets of nodes that are not left again and lie on
  their sides (`Leads`), and whoever follows the children from its first node
  comes to all of it (`Reaches`).

A finished part stays finished as long as its nodes and its span are left alone
(`GrownKept`), which `Nested` says they are, and two finished halves with a
pivot between them are a finished whole (`GrownTogether`). What is reached from
a node is defined by closed sets of nodes, not by recursion, so the argument
takes no induction over the tree: the calls' returning is the induction.

`KdTree_proofs`, for any points, queries, radii and `K`, on any tree `KdBuild`
comes to: `RadiusSearchExact`, `NearestSearchExact`, `KSearchesSound`,
`NoNodeSearchedTwice`, and `SearchesOnlyRead` (`Spec => BuildSpec`), by which
the invariant of the build holds here too. What a search relies on is
`Branching`, which follows from `TreeComplete`: a node has nothing on both its
sides and is on neither itself, all nodes are under the first, and no point
beyond a node's plane is nearer than the plane (`BuiltBranch`; its distance is
a sum of squares of which the plane's is one, `DistanceBound`). The invariant of
a search (`SearchOf`) is

* `Stacked`: no node is ahead of two calls on the stack;
* `Covered`: every node is ahead of some call, or its point is needed no more
  (`Passed`: it is too far, was found, or one not farther was); and no point
  found is ahead again;
* `Entries`, `OfKind`: what was found are points of the tree with their
  distances, each once, and within the radius, in order and at most `K`, or at
  most one, as the search has it.

`Passed` is what makes the three searches one argument: a limit only gets
smaller, so what was too far stays so (`NotedNotes`), and to prune the far side
is to pass all of it (`FartherPassed`). When the stack is empty every point was
passed, and each property says what that means for its search. The recursion of
the code is the stack of the model, so the argument takes no induction over the
tree; the one over the dimensions of a distance goes to a least counterexample
(`LeastOf`).

The assumptions of all of them are the named `ASSUME`s of the modules, all about
constants, and the conditions on the backend and on the lists that are named
above; TLC evaluates the `ASSUME`s in every run.

Only model-checked: liveness (`PassesEnd`, `SyncsReturn`, `OneDrawGoesOn`),
which is out of the prover's reach. Every safety invariant and action property
of a passing run, and both refinements, are proved.

## Findings

Five runs end in a violation of what the repository says of itself; the quotes
are in `PROJECT.json`.

* `vulkan_lookup`: `optional_unsafe` and `get_unsafe` of the Vulkan device miss
  the comparison with `UNINITIALIZED`; the default handle's `index() + 1` wraps
  to 0 and `operator[]` reads past the vector.
* `vulkan_boids`: `execute` acquires an image for every pass that draws to the
  swap chain, `present` gives one back; with two passes per frame the images
  run out and `vkAcquireNextImageKHR` waits for ever. Before that the second
  draw of the frame signals `render_to_screen_semaphores[0]` again, unwaited.
* `vulkan_execute_block`: `block_fence` is never reset, so from the second call
  on `execute_block` returns while its copy still runs.
* `web_gpu_copies`: the WebGPU device submits only if the list began a render
  pass; the copies of a list that did not are recorded and dropped.
* `boids_first_spawn`: until boids are first spawned `SpawnBoids` has no
  archetype to synchronise with and `CollectAndUpload` no component to wait
  for, so passes of the frame before are still to run when the comment says the
  gameplay cycle is over, and run on vectors the next frame resizes. The comment
  it contradicts makes no condition, and neither does `CycleEnded`.

## What is not modelled

* File formats and I/O (VFS, GLTF, shader compiler), platform wrappers, GUID
  parsing and the vector math: sequential or numeric code without interesting
  orders of events.
* The free list, pool and stack allocators and `flat_map` are used by nothing
  in the repository, `constexpr_map` is computed by the compiler, and the
  module registry and the message buses are maps the main thread fills once.
* The D3D12 device is a stub. Vendored code (`Extern`, ImGui, simdjson,
  DirectXMath), which is most of the repository's lines, is left aside.
* In `VulkanFrame`: descriptor sets and device selection. `destroy` of the
  Vulkan device is empty; it is a stutter in `GpuResourceTable`.
* In `WebGpuFrame`: `execute_block` on WebGPU, which no program calls (its
  fence is made anew each time and never released, and it waits by polling),
  and what is named in the section above.
* In `EcsPipeline`: what init functions and bodies compute, and timestamps;
  the sizes the init functions of Boids change are in `BoidsFrame`.
* In `BoidsFrame` and `KdTree`: what their sections name.

## Plan

1. `GpuResourceTable` with its abstract map: done, proved.
2. `VulkanFrame`: done, proved. To add: the binding sets of
   `processCommandUpdateBinding`, freed and allocated anew for each draw.
3. `EcsPipeline` and `EcsSchedule`: done, proved.
4. `WebGpuFrame`: done, proved.
5. `BoidsFrame`: done, proved. To add: the mode that saves a snapshot in every
   frame.
6. `KdBuild` and `KdTree`: done, proved. To add: how deep the recursion goes,
   which is the logarithm of the number of points.
