----------------------------- MODULE MCBackend -----------------------------
(* Two threads; an Auto policy, an explicit one and one that forbids       *)
(* runtime switching, on a native, a vkd3d-proton and a DXVK machine.        *)
EXTENDS BackendLifecycle, TLC

MCOrder == [D3D11  |-> <<"AntiLag2", "LatencyFlex">>,
            D3D12  |-> <<"AntiLag2", "LatencyFlex">>,
            Vulkan |-> <<"VulkanFlex", "LatencyFlex">>]
MCAuto == [output |-> [D3D11 |-> "Auto", D3D12 |-> "Auto", Vulkan |-> "Auto"],
           order |-> MCOrder, allow_fallback |-> TRUE, prefer_native |-> FALSE,
           xell_fusion |-> FALSE, vulkan_fusion |-> TRUE, startup_locked |-> TRUE,
           vulkanflex |-> TRUE, vkd3d_bridge |-> TRUE, dxvk_bridge |-> TRUE,
           dxvk_execution |-> "auto",
           runtime_switching |-> TRUE]
MCExplicit == [MCAuto EXCEPT !.output.D3D12 = "LatencyFlex", !.output.Vulkan = "VulkanFlex",
                             !.allow_fallback = FALSE, !.startup_locked = FALSE]
\* Another edit that must not move a running session.
MCPinned == [MCAuto EXCEPT !.vulkanflex = FALSE, !.runtime_switching = FALSE]
MCPolicies == <<MCAuto, MCExplicit, MCPinned>>

MCNative == [amdxx64 |-> "absent", amdxc64 |-> "loaded", xell |-> "absent",
             al2_interface |-> TRUE, vkd3d_interop |-> FALSE, vkd3d_device |-> FALSE,
             amd_anti_lag |-> FALSE, dxvk_device |-> FALSE, dxvk_low_latency |-> FALSE,
             vk_tracked |-> TRUE, vk_anti_lag |-> FALSE, transport |-> "native",
             d3d_api |-> "D3D12"]
MCProton == [MCNative EXCEPT !.al2_interface = FALSE, !.amdxc64 = "absent",
                             !.vkd3d_interop = TRUE, !.vkd3d_device = TRUE,
                             !.transport = "unknown"]
MCDxvk == [MCNative EXCEPT !.al2_interface = FALSE, !.d3d_api = "D3D11",
                           !.dxvk_device = TRUE, !.dxvk_low_latency = TRUE,
                           !.transport = "unknown"]
MCFacts == {MCNative, MCProton, MCDxvk}
MCSymmetry == Permutations(Threads)
=============================================================================
