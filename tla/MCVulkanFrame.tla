---------------------------- MODULE MCVulkanFrame ----------------------------
(* The frame loops of the test programs: TestImGui's single pass, and       *)
(* Boids's scene pass followed by the ImGui pass on the same swap chain.    *)
(* They reach the device through IRenderDevice; at this commit they make    *)
(* the WebGPU one, so these are the loops a run on Vulkan would have.       *)
EXTENDS VulkanFrame

MCPasses == {"boids", "imgui"}

TestImGuiFrame == <<"imgui">>
BoidsFrame     == <<"boids", "imgui">>

(* Lists that may be empty (a frame without a user interface leaves ImGui's *)
(* so), images in any order and a surface that may be lost are what Vulkan  *)
(* and its user allow.                                                      *)
AllPrograms == [frame : {TestImGuiFrame, BoidsFrame}, mayRecordNothing : BOOLEAN,
                inOrder : BOOLEAN, mayLoseSurface : BOOLEAN]

Plain(frame) == [frame |-> frame, mayRecordNothing |-> FALSE,
                 inOrder |-> TRUE, mayLoseSurface |-> FALSE]
TestImGuiOnly == {Plain(TestImGuiFrame)}
BoidsOnly     == {Plain(BoidsFrame)}
=============================================================================
