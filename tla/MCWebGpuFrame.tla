--------------------------- MODULE MCWebGpuFrame ---------------------------
(* Boids's frame: a scene pass with two binding tables, drawn as            *)
(* RenderPassSimple records it (targets, then boids with some slots bound   *)
(* again), and the ImGui pass.                                              *)
EXTENDS WebGpuFrame

BoidsFrame == <<"boids", "imgui">>

BoidsLayout == [boids |-> <<<<"storage", "storage">>, <<"uniform">>>>,
                imgui |-> <<<<"uniform">>, <<"sampler", "texture">>>>]

Resources == {"targets", "objects", "ids", "camera", "mesh", "indices",
              "matrix", "sampler", "fonts"}

Bind(s, j, r, o) ==
  [op |-> "bind", set |-> s, slot |-> j, res |-> r, offset |-> o]

ImGuiSetup == <<Bind(1, 1, "matrix", 0), Bind(2, 1, "sampler", 0),
                Bind(2, 2, "fonts", 0)>>

CopyMesh == [op |-> "copy", src |-> "mesh", dst |-> "objects"]
MeshDraw == <<[op |-> "vb", res |-> "mesh"], [op |-> "ib", res |-> "indices"],
              [op |-> "draw"]>>

(* The offset of the uniform buffer and the order of the two storage       *)
(* buffers vary; the second draw binds one slot again, or both.            *)
Scene(copies, first, o, again) ==
  copies \o <<[op |-> "begin"], Bind(1, 1, first, 0), Bind(1, 2, "ids", 0),
              Bind(2, 1, "camera", o)>> \o MeshDraw
         \o again \o <<[op |-> "draw"], [op |-> "end"]>>

BoidsLists ==
  {Scene(copies, first, o, again) :
     copies \in {<<>>, <<CopyMesh>>}, first \in {"targets", "objects"},
     o \in {0, 1},
     again \in {<<>>, <<Bind(1, 1, "objects", 0)>>,
                <<Bind(1, 1, "objects", 0), Bind(2, 1, "camera", 1)>>}}

(* A list that only copies, which has no reason to begin a render pass. *)
CopyLists == BoidsLists \cup {<<CopyMesh>>}
=============================================================================
