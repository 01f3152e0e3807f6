---------------------------- MODULE OutputPolicy ----------------------------
(***************************************************************************)
(* Which backend may run: what the probes of low_latency_d3d.cpp and       *)
(* low_latency_vk.cpp find (detect_d3d_outputs, detect_vulkan_outputs),    *)
(* how OutputRecognizer accumulates it, how policy_engine.cpp orders the   *)
(* candidates, and what transport_truth.cpp concludes from direct proof    *)
(* of a translation layer.  Pure operators; BackendLifecycle uses them.    *)
(*                                                                         *)
(* A policy snapshot s is a record of the routing fields of                *)
(* RuntimePolicySnapshot; the facts f of a machine are a record of what    *)
(* the probes would find.  Confidence and evidence only reach the log and  *)
(* are left out.  NativeReflex is supported by no API and is left out.     *)
(***************************************************************************)
EXTENDS Naturals, Sequences, SequencesExt

Apis == {"D3D11", "D3D12", "Vulkan"}
Backends == {"AntiLag2", "XeLL", "AmdAntiLagVk", "LatencyFlex", "VulkanFlex"}

(* ------------------------------ recognizer ------------------------------ *)

NothingObserved == [b \in Backends |-> "unknown"]

\* OutputRecognizer::observe: positive proof wins, negative proof only over Unknown.
observe(rec, b, a) ==
    IF a = "available" \/ (a = "unavailable" /\ rec[b] = "unknown")
    THEN [rec EXCEPT ![b] = a]
    ELSE rec

usable(rec, b) == rec[b] # "unavailable"

\* A module that is loaded or a library on disk counts as available, except that an
\* AMD D3D12 library which is merely present stays unknown.
FromModule(m) == IF m \in {"loaded", "present"} THEN "available" ELSE "unknown"

DxvkExecutable(s, f) ==
    /\ s.vulkanflex /\ s.dxvk_bridge /\ f.dxvk_device
    /\ s.dxvk_execution # "disabled"
    /\ f.dxvk_low_latency \/ s.dxvk_execution = "enabled"

detect_d3d11(s, f) ==
    [NothingObserved EXCEPT
        !["LatencyFlex"] = "available",
        !["AntiLag2"] = FromModule(f.amdxx64),
        !["VulkanFlex"] = IF DxvkExecutable(s, f) THEN "available" ELSE "unavailable"]

BridgeUsable(s, f) == s.vulkanflex /\ s.vkd3d_bridge /\ f.vkd3d_device

\* The two observations of AmdAntiLagVk are made in the code's order: unknown, then proof.
detect_d3d12(s, f, dev_is_null) ==
    LET base == [NothingObserved EXCEPT
                    !["LatencyFlex"] = "available",
                    !["XeLL"] = FromModule(f.xell)]
        no_vulkan == observe(observe(base, "AmdAntiLagVk", "unavailable"),
                             "VulkanFlex", "unavailable")
        al2(rec) == observe(rec, "AntiLag2",
                            IF f.al2_interface \/ f.amdxc64 = "loaded"
                            THEN "available" ELSE "unknown")
        flex(rec) == observe(rec, "VulkanFlex",
                             IF BridgeUsable(s, f) THEN "available" ELSE "unavailable")
        amd(rec) == observe(observe(rec, "AmdAntiLagVk", "unknown"), "AmdAntiLagVk",
                            IF f.amd_anti_lag /\ f.vkd3d_device
                            THEN "available" ELSE "unavailable")
    IN  IF dev_is_null THEN no_vulkan
        ELSE IF ~f.vkd3d_interop THEN al2(no_vulkan)
        ELSE amd(flex(al2(base)))

detect_vulkan(s, f, access) ==
    [NothingObserved EXCEPT
        !["LatencyFlex"] = "available",
        !["VulkanFlex"] = IF s.vulkanflex /\ access # "blocked"
                          THEN "available" ELSE "unavailable",
        !["AmdAntiLagVk"] = IF ~f.vk_tracked THEN "unknown"
                            ELSE IF f.vk_anti_lag THEN "available" ELSE "unavailable"]

(* ---------------------------- policy engine ----------------------------- *)

backend_supported(api, b) ==
    b \in CASE api = "D3D11"  -> {"VulkanFlex", "AntiLag2", "LatencyFlex"}
            [] api = "D3D12"  -> Backends
            [] api = "Vulkan" -> {"VulkanFlex", "AmdAntiLagVk", "LatencyFlex"}

\* The executors Auto puts in front of the configured order, best first.
Promotable(api) ==
    CASE api = "D3D11"  -> <<"VulkanFlex">>
      [] api = "D3D12"  -> <<"AmdAntiLagVk", "XeLL", "AntiLag2", "VulkanFlex">>
      [] api = "Vulkan" -> <<>>

PromoteIf(s, api, rec, b) ==
    CASE b = "AmdAntiLagVk" -> s.prefer_native /\ usable(rec, b)
      [] b = "XeLL" -> s.xell_fusion /\ s.startup_locked /\ usable(rec, b)
      [] b = "AntiLag2" -> usable(rec, b)
      [] b = "VulkanFlex" ->
           /\ s.vulkanflex /\ rec[b] = "available"
           /\ \/ api = "D3D11" /\ s.dxvk_bridge /\ s.dxvk_execution # "disabled"
              \/ /\ api = "D3D12" /\ s.vkd3d_bridge
                 /\ s.vulkan_fusion /\ s.startup_locked

\* Mutant: an explicit output keeps its fallbacks whatever the policy says.
build_backend_candidates_IgnoresFallback(s, api, rec) ==
    FoldLeft(LAMBDA acc, b: IF b \in ToSet(acc) THEN acc ELSE Append(acc, b),
             IF s.output[api] = "Auto" THEN <<>> ELSE <<s.output[api]>>,
             Promotable(api) \o s.order[api])

build_backend_candidates(s, api, rec) ==
    LET explicit == s.output[api]
        Usable(b) == backend_supported(api, b) /\ usable(rec, b)
        Promoted(b) == PromoteIf(s, api, rec, b)
        head == IF explicit = "Auto" THEN SelectSeq(Promotable(api), Promoted)
                ELSE IF Usable(explicit) THEN <<explicit>> ELSE <<>>
    IN  IF explicit # "Auto" /\ ~s.allow_fallback THEN head
        ELSE FoldLeft(LAMBDA acc, b: IF Usable(b) /\ b \notin ToSet(acc)
                                     THEN Append(acc, b) ELSE acc,
                      head, s.order[api])

(* ---------------------------- transport truth --------------------------- *)

Transports == {"unknown", "native", "vkd3d", "dxvk", "mixed"}

\* TransportTruth::confirm_transport: the result of its compare-exchange loop.
confirm_transport(current, candidate) ==
    CASE current = "unknown" -> candidate
      [] current \in {candidate, "mixed"} -> current
      [] OTHER -> "mixed"

\* native_execution_access: a confirmed translation route blocks native execution.
native_execution_access(transport, hooks_installed) ==
    IF transport \in {"vkd3d", "dxvk"} THEN "blocked"
    ELSE IF hooks_installed THEN "full_wsi" ELSE "explicit_only"
=============================================================================
