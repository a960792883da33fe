----------------------------- MODULE WebGpuFrame -----------------------------
(***************************************************************************)
(* A frame on the WebGPU device.  For each pass of the frame the program   *)
(* records a RenderCommandBuffer and hands it to RenderDevice::execute,    *)
(* which goes through the commands with the pass's PassCacheFrame: the     *)
(* bindings last asked for (sets), a WebGPU bind group for each binding    *)
(* table (bind_groups), the encoders.  The cache outlives the frame, the   *)
(* buffers bound in it need not: the ImGui pass destroys its vertex and    *)
(* index buffer and makes two new ones whenever there is something to      *)
(* draw.                                                                   *)
(*                                                                         *)
(* WebGPU is external.  What an encoder has recorded is `encoding`, what   *)
(* the queue received last is `submitted`, and `held` counts the objects   *)
(* the device made and has not released.  A command or a list the code     *)
(* asserts against, or that reads through a null pointer, ends the program *)
(* and shows in `fault`.                                                   *)
(*                                                                         *)
(* A definition that stands just before another one and carries its name   *)
(* with a suffix is a slip a change to the code could make.                *)
(***************************************************************************)
EXTENDS Naturals, Sequences, FiniteSets

CONSTANTS
  Frame,       \* the passes executed in a frame, in order
  Layout,      \* binding_layout of a pass's pipeline: tables of slot types
  Fixed,       \* resources made before the first frame and never destroyed
  SceneLists,  \* the command lists the scene's pass may record
  UiSetup,     \* the bindings imgui_setup_render_state enqueues
  Handles,     \* handles the ImGui buffers may get
  MaxUiDraws,  \* bound: draws in one ImGui frame
  Capacity,    \* commands the memory of a command buffer has room for
  Null         \* nullptr and the default handle

Passes == {Frame[i] : i \in DOMAIN Frame}

(* A command that names resources of R.                                    *)
Command(R) ==
  [op : {"begin", "end", "draw"}] \cup [op : {"vb", "ib"}, res : R]
  \cup [op : {"copy"}, src : R, dst : R]
  \cup [op : {"bind"}, set : Nat, slot : Nat, res : R, offset : Nat]

Begun(cmds, k) == \E j \in 1 .. k - 1 : cmds[j].op = "begin"

IsBinding(c, i, j) == c.op = "bind" /\ c.set = i /\ c.slot = j

InLayout(p, i, j) == i \in DOMAIN Layout[p] /\ j \in DOMAIN Layout[p][i]

(* What a program keeps to in a list for pass p: one render pass at most,  *)
(* which is ended, with everything in it but the copies; no slot the       *)
(* pipeline does not have; and every slot bound before a draw.             *)
WellFormed(p, cmds) ==
  \A k \in DOMAIN cmds : LET c == cmds[k] IN
    /\ c.op \in {"begin", "copy"} \/ Begun(cmds, k)
    /\ c.op = "begin" =>
         ~Begun(cmds, k) /\ \E m \in k + 1 .. Len(cmds) : cmds[m].op = "end"
    /\ c.op = "bind" => InLayout(p, c.set, c.slot)
    /\ c.op = "draw" =>
         /\ \E m \in 1 .. k - 1 : cmds[m].op = "bind"
         /\ \A i \in DOMAIN Layout[p] : \A j \in DOMAIN Layout[p][i] :
              \E m \in 1 .. k - 1 : IsBinding(cmds[m], i, j)

ASSUME FrameAssumption ==
  /\ Frame \in Seq(STRING) /\ Frame # <<>>
  /\ \A i, j \in DOMAIN Frame : Frame[i] = Frame[j] => i = j
ASSUME LayoutAssumption ==
  Passes \subseteq DOMAIN Layout /\ \A p \in Passes : Layout[p] \in Seq(Seq(STRING))
ASSUME SceneAssumption ==
  \A cmds \in SceneLists :
    /\ cmds \in Seq(Command(Fixed)) /\ Len(cmds) <= Capacity
    /\ \A p \in Passes \ {"imgui"} : WellFormed(p, cmds)
ASSUME UiAssumption ==
  /\ UiSetup \in Seq(Command(Fixed)) /\ UiSetup # <<>>
  /\ MaxUiDraws \in Nat /\ Capacity \in Nat
  /\ Len(UiSetup) + 3 * MaxUiDraws + 2 <= Capacity
  /\ "imgui" \in Passes =>
       /\ \A k \in DOMAIN UiSetup :
            UiSetup[k].op = "bind" /\ InLayout("imgui", UiSetup[k].set, UiSetup[k].slot)
       /\ \A i \in DOMAIN Layout["imgui"] : \A j \in DOMAIN Layout["imgui"][i] :
            \E k \in DOMAIN UiSetup : IsBinding(UiSetup[k], i, j)
(* Null is no resource, no bind group and no pass encoder.                 *)
ASSUME NullAssumption ==
  /\ Fixed \cap Handles = {} /\ Null \notin Fixed \cup Handles \cup {"open", "ended"}
  /\ \A p \in Passes : \A i \in DOMAIN Layout[p] :
       Null \notin [DOMAIN Layout[p][i] -> Fixed \cup Handles]

VARIABLES
  at,         \* index in Frame of the pass at work
  cursor,     \* 0: to be recorded, then the next command to process
  commands,   \* RenderCommandBuffer::commands, of each pass
  memory,     \* commands its linear allocator has handed out room for
  imgui,      \* imgui_vertex_buffer and imgui_index_buffer
  live,       \* the ImGui buffers that exist on the device
  cache,      \* pass_cache: sets, bind_groups, pipeline, pass_encoder
  encoding,   \* what the command encoder holds and has set (WebGPU)
  submitted,  \* the work of the last submission (WebGPU)
  held,       \* objects made and not released, by kind (WebGPU)
  fault       \* assertions that failed and null pointers that were read

vars == <<at, cursor, commands, memory, imgui, live, cache, encoding,
          submitted, held, fault>>

pass == Frame[at]
list == commands[pass]
command == list[cursor]

Resolves(r) == r \in Fixed \cup live

(* Binding() : set 0, slot 0 (here 1, 1), a buffer with the default handle. *)
NoBinding == [set |-> 1, slot |-> 1, res |-> Null, offset |-> 0]

NoEncoding == [vb |-> Null, ib |-> Null, groups |-> <<>>, work |-> <<>>]

EmptyCache ==
  [sets |-> <<>>, groups |-> <<>>, pipeline |-> FALSE, encoder |-> Null]

Init ==
  /\ at = 1 /\ cursor = 0
  /\ commands = [p \in Passes |-> <<>>]
  /\ memory = [p \in Passes |-> 0]
  /\ imgui = [vertex |-> Null, index |-> Null]
  /\ live = {}
  /\ cache = [p \in Passes |-> EmptyCache]
  /\ encoding = NoEncoding
  /\ submitted = <<>>
  /\ held = [encoders |-> 0, passes |-> 0, views |-> 0, groups |-> 0]
  /\ fault = {}
-----------------------------------------------------------------------------
(* Recording                                                               *)

Recording == fault = {} /\ cursor = 0

MemoryKept == memory[pass]
(* RenderCommandBuffer::reset empties the list and its allocator. *)
MemoryReset == 0

(* reset, then one enqueue for each command; enqueue asserts when the      *)
(* allocator has no room left.                                             *)
Enqueue(cmds) ==
  /\ commands' = [commands EXCEPT ![pass] = cmds]
  /\ memory' = [memory EXCEPT ![pass] = MemoryReset + Len(cmds)]
  /\ fault' = IF MemoryReset + Len(cmds) > Capacity
                THEN {"render_command_buffer"} ELSE {}
  /\ cursor' = 1
  /\ encoding' = NoEncoding
  /\ held' = [held EXCEPT !.encoders = @ + 1]
  /\ UNCHANGED <<at, cache, submitted>>

RecordScene ==
  /\ Recording /\ pass # "imgui"
  /\ \E cmds \in SceneLists : Enqueue(cmds)
  /\ UNCHANGED <<imgui, live>>

RemadeLate(v, i) == (live \cup {v, i}) \ {v, i}
(* RenderPassImGui::construct destroys the two buffers (nothing, the first *)
(* time), takes two new handles and creates under them.                    *)
Remade(v, i) == (live \ {imgui.vertex, imgui.index}) \cup {v, i}

UiList(draws) ==
  LET Draw(k) == << [op |-> "vb", res |-> imgui'.vertex],
                    [op |-> "ib", res |-> imgui'.index], [op |-> "draw"] >>
      Drawn == [k \in 1 .. 3 * draws |-> Draw(k)[((k - 1) % 3) + 1]]
  IN  <<[op |-> "begin"]>> \o UiSetup \o Drawn \o <<[op |-> "end"]>>

(* Nothing to draw: buffers and list are left as they are but for reset. *)
RecordNothing ==
  /\ Recording /\ pass = "imgui"
  /\ Enqueue(<<>>)
  /\ UNCHANGED <<imgui, live>>

(* TotalVtxCount > 0: new buffers.  A window of no size records nothing;   *)
(* otherwise the draws that clipping leaves are recorded.                  *)
RecordUi ==
  /\ Recording /\ pass = "imgui"
  /\ \E v, i \in Handles \ {imgui.vertex, imgui.index} :
       /\ v # i
       /\ imgui' = [vertex |-> v, index |-> i]
       /\ live' = Remade(v, i)
  /\ \/ Enqueue(<<>>)
     \/ \E draws \in 0 .. MaxUiDraws : Enqueue(UiList(draws))
-----------------------------------------------------------------------------
(* RenderDevice::execute, one command after the other                      *)

Advance ==
  /\ cursor' = cursor + 1
  /\ UNCHANGED <<at, commands, memory, imgui, live, submitted>>

At(op) == fault = {} /\ cursor \in DOMAIN list /\ command.op = op

(* processCommandBeginRenderPass: a view of the swap chain's image, a pass *)
(* encoder with nothing set, and the pipeline.                             *)
BeginRenderPass ==
  /\ At("begin")
  /\ cache' = [cache EXCEPT ![pass].pipeline = TRUE, ![pass].encoder = "open"]
  /\ encoding' = [NoEncoding EXCEPT !.work = encoding.work]
  /\ held' = [held EXCEPT !.passes = @ + 1, !.views = @ + 1]
  /\ UNCHANGED fault
  /\ Advance

SameBuffer(b, c) == b.res = c.res
(* Binding::operator== *)
Same(b, c) == b = c

(* processCommandUpdateBinding: sets and bind_groups get their sizes from  *)
(* the pipeline of the first binding; then the slot is replaced if it      *)
(* differs.                                                                *)
UpdateBinding ==
  /\ At("bind")
  /\ LET c == cache[pass]
         tables == Layout[pass]
         sets == IF c.sets # <<>> THEN c.sets
                 ELSE [i \in DOMAIN tables |->
                         [j \in DOMAIN tables[i] |-> NoBinding]]
         groups == IF c.groups # <<>> THEN c.groups
                   ELSE [i \in DOMAIN tables |-> Null]
         b == [set |-> command.set, slot |-> command.slot,
               res |-> command.res, offset |-> command.offset]
         inRange == /\ c.pipeline
                    /\ b.set \in DOMAIN sets
                    /\ b.slot \in DOMAIN sets[b.set]
     IN  /\ fault' = IF inRange THEN {} ELSE {"Binding OverRange"}
         /\ cache' = IF ~inRange THEN cache
                     ELSE [cache EXCEPT
                            ![pass].groups = groups,
                            ![pass].sets =
                               IF Same(sets[b.set][b.slot], b) THEN sets
                               ELSE [sets EXCEPT ![b.set][b.slot] = b]]
  /\ UNCHANGED <<encoding, held>>
  /\ Advance

SetVB ==
  /\ At("vb")
  /\ encoding' = [encoding EXCEPT !.vb = command.res]
  /\ fault' = IF Resolves(command.res) THEN {} ELSE {"VB NOT FOUND"}
  /\ UNCHANGED <<cache, held>>
  /\ Advance

SetIB ==
  /\ At("ib")
  /\ encoding' = [encoding EXCEPT !.ib = command.res]
  /\ fault' = IF Resolves(command.res) THEN {} ELSE {"IB NOT FOUND"}
  /\ UNCHANGED <<cache, held>>
  /\ Advance

(* The entries updateBindGroups fills in: one for each slot a binding of   *)
(* the set names.                                                          *)
Entries(set) ==
  [j \in {set[k].slot : k \in DOMAIN set} |-> set[j].res]

(* The dynamic offsets setBindGroups passes, for the uniform buffers. *)
Offsets(set, table) ==
  [j \in {k \in DOMAIN table : table[k] = "uniform"} |-> set[j].offset]

ReleasedNever(c) == 0
(* updateBindGroups makes each bind group again, and releases the old one. *)
Released(c) == Cardinality({i \in DOMAIN c.groups : c.groups[i] # Null})

(* processCommandDraw: every bind group made again from the sets, all of   *)
(* them set with their offsets, then the draw.                             *)
Draw ==
  /\ At("draw")
  /\ LET c == cache[pass]
         tables == Layout[pass]
         groups == [i \in DOMAIN c.sets |-> Entries(c.sets[i])]
         ready == /\ c.sets # <<>>
                  /\ \A i \in DOMAIN groups : \A j \in DOMAIN groups[i] :
                       Resolves(groups[i][j])
     IN  /\ fault' = IF ready THEN {} ELSE {"Buffer Not Found!"}
         /\ IF ~ready THEN UNCHANGED <<cache, encoding, held>>
            ELSE
              /\ cache' = [cache EXCEPT ![pass].groups = groups]
              /\ held' = [held EXCEPT
                            !.groups = @ + Len(groups) - Released(c)]
              /\ encoding' = [encoding EXCEPT
                   !.groups = groups,
                   !.work = Append(@,
                      [vb |-> encoding.vb, ib |-> encoding.ib,
                       groups |-> groups,
                       offsets |-> [i \in DOMAIN tables |->
                                      Offsets(c.sets[i], tables[i])]])]
  /\ Advance

EndRenderPass ==
  /\ At("end")
  /\ cache' = [cache EXCEPT ![pass].encoder = "ended"]
  /\ UNCHANGED <<encoding, held, fault>>
  /\ Advance

(* The four copies: both ends are looked up and read without a test. *)
Copy ==
  /\ At("copy")
  /\ encoding' = [encoding EXCEPT
       !.work = Append(@, [src |-> command.src, dst |-> command.dst])]
  /\ fault' = IF Resolves(command.src) /\ Resolves(command.dst)
                THEN {} ELSE {"copy"}
  /\ UNCHANGED <<cache, held>>
  /\ Advance

EncoderKept == "released"
(* The pass encoder is forgotten once its work is submitted. *)
EncoderAfter == Null

(* After the last command: submitted if a pass was begun, and only then;   *)
(* the views, the pass encoder and the command encoder are released.       *)
Finish ==
  /\ fault = {} /\ cursor = Len(list) + 1
  /\ LET encoder == cache[pass].encoder IN
       /\ submitted' = IF encoder = Null THEN <<>> ELSE encoding.work
       /\ fault' = IF encoder \in {Null, "ended"} THEN {}
                   ELSE {"pass encoder not ended or already released"}
       /\ held' = [held EXCEPT !.encoders = @ - 1, !.views = 0,
                               !.passes = IF encoder = Null THEN @ ELSE @ - 1]
  /\ cache' = [cache EXCEPT ![pass].encoder = EncoderAfter]
  /\ encoding' = NoEncoding
  /\ cursor' = 0
  /\ at' = (at % Len(Frame)) + 1
  /\ UNCHANGED <<commands, memory, imgui, live>>

Next ==
  \/ RecordScene \/ RecordNothing \/ RecordUi
  \/ BeginRenderPass \/ UpdateBinding \/ SetVB \/ SetIB
  \/ Draw \/ EndRenderPass \/ Copy \/ Finish

Spec == Init /\ [][Next]_vars
-----------------------------------------------------------------------------
(* Properties                                                              *)

Resource == Fixed \cup Handles \cup {Null}

(* Type invariant: sets and bind_groups keep the sizes of the pipeline's   *)
(* binding layout once they have them, and an encoder is open or ended.    *)
TypeOK ==
  /\ at \in DOMAIN Frame
  /\ cursor \in 0 .. Len(list) + 1
  /\ memory \in [Passes -> Nat]
  /\ imgui \in [vertex : Handles \cup {Null}, index : Handles \cup {Null}]
  /\ live \subseteq Handles
  /\ held \in [encoders : Nat, passes : Nat, views : Nat, groups : Nat]
  /\ \A p \in Passes :
       /\ cache[p].encoder \in {Null, "open", "ended"}
       /\ \/ cache[p].sets = <<>> /\ cache[p].groups = <<>>
          \/ /\ DOMAIN cache[p].groups = DOMAIN Layout[p]
             /\ DOMAIN cache[p].sets = DOMAIN Layout[p]
             /\ \A i \in DOMAIN Layout[p] :
                  DOMAIN cache[p].sets[i] = DOMAIN Layout[p][i]

(* No command that is executed names a buffer that is gone, or a slot the  *)
(* pipeline does not have: not one of "VB NOT FOUND", "IB NOT FOUND",      *)
(* "Buffer Not Found!", "Binding Set OverRange!", nor a null pointer read  *)
(* by a copy.  The buffers a list and the cached sets name may have been   *)
(* destroyed since they were put there.                                    *)
HandlesResolve ==
  fault \cap {"VB NOT FOUND", "IB NOT FOUND", "Buffer Not Found!",
              "Binding OverRange", "copy"} = {}

(* A command buffer that has room for one frame has room for every frame:  *)
(* enqueue's assertion on a full allocator never fails.                    *)
RoomForCommands == "render_command_buffer" \notin fault

(* execute releases and finishes a pass encoder only if this execution     *)
(* began it and the list ended it, an execution of an empty list included. *)
EncoderEndedOnce == "pass encoder not ended or already released" \notin fault

(* Between two executions the device holds no encoder and no view, exactly *)
(* the bind groups its caches name, and the two ImGui buffers: nothing     *)
(* piles up from frame to frame.                                           *)
NothingPilesUp ==
  cursor = 0 =>
    /\ held.encoders = 0 /\ held.passes = 0 /\ held.views = 0
    /\ held.groups =
         Cardinality({g \in UNION {{p} \X DOMAIN cache[p].groups : p \in Passes} :
            cache[g[1]].groups[g[2]] # Null})
    /\ Cardinality(live) <= 2

(* The last command before the k-th that satisfies P: what the program     *)
(* asked for last.                                                         *)
Asked(k, P(_)) ==
  LET before == {j \in 1 .. k - 1 : P(list[j])}
  IN  list[CHOOSE j \in before : \A i \in before : i <= j]

AskedBinding(k, i, j) ==
  Asked(k, LAMBDA c : c.op = "bind" /\ c.set = i /\ c.slot = j)

(* The work command k stands for, told from the list alone. *)
WorkOf(k) ==
  LET tables == Layout[pass] IN
  IF list[k].op = "copy" THEN [src |-> list[k].src, dst |-> list[k].dst]
  ELSE [vb |-> Asked(k, LAMBDA c : c.op = "vb").res,
        ib |-> Asked(k, LAMBDA c : c.op = "ib").res,
        groups |-> [i \in DOMAIN tables |->
                      [j \in DOMAIN tables[i] |-> AskedBinding(k, i, j).res]],
        offsets |-> [i \in DOMAIN tables |->
                       [j \in {n \in DOMAIN tables[i] :
                                 tables[i][n] = "uniform"} |->
                          AskedBinding(k, i, j).offset]]]

(* The commands the queue is to receive, and how many of them are among     *)
(* the first k.                                                            *)
Worked == {k \in DOMAIN list : list[k].op \in {"draw", "copy"}}
Ordinal(k) == Cardinality({j \in Worked : j <= k})

Work ==
  [n \in 1 .. Cardinality(Worked) |->
     WorkOf(CHOOSE k \in Worked : Ordinal(k) = n)]

(* "execute a command buffer" (RenderDevice.h): what the queue receives is *)
(* the copies and the draws of the list, in order, each draw with the      *)
(* vertex and index buffer set last and, in every slot, the resource bound *)
(* last, whatever earlier frames left in the cache.                        *)
ExecutesList == [][Finish => submitted' = Work]_vars
=============================================================================
