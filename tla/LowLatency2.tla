---------------------------- MODULE LowLatency2 ----------------------------
(***************************************************************************)
(* How the Vulkan hooks negotiate VK_NV_low_latency2 and VK_AMD_anti_lag:  *)
(* which extensions an application is shown (enumerate_policy_extensions)  *)
(* and what hkvkCreateDevice refuses, strips, adds and records when it     *)
(* asks for some of them.  Extensions are model names:                     *)
(*   "nv" VK_NV_low_latency2        "antilag" VK_AMD_anti_lag              *)
(*   "timeline" VK_KHR_timeline_semaphore                                  *)
(*   "id", "id2", "wait" VK_KHR_present_id / present_id2 / present_wait    *)
(*   "vkd" any other extension                                             *)
(* A platform is a physical device as the driver describes it, a policy    *)
(* the fields of RuntimePolicySnapshot that are read here, a request the   *)
(* VkDeviceCreateInfo.                                                     *)
(***************************************************************************)
EXTENDS Naturals, FiniteSets

Extensions == {"nv", "antilag", "timeline", "id", "id2", "wait", "vkd"}

\* platform: [api12, exts, antilag]   policy: [expose, spoof, prefer, output, precision]
\* request:  [exts, features, group, antilag \in {"absent", "on", "off"}]

\* nv_low_latency2_emulation_prerequisites_supported
prerequisites_supported(platform) ==
    /\ platform.api12 \/ "timeline" \in platform.exts
    /\ platform.exts \cap {"id", "id2"} # {}

\* A mutant: the check at creation forgets that timeline semaphores are core
\* since Vulkan 1.2.
prerequisites_enabled_NoCore(platform, request) ==
    /\ "timeline" \in request.exts
    /\ request.exts \cap {"id", "id2"} # {}

\* nv_low_latency2_emulation_prerequisites_enabled: present_id stays an
\* extension the application has to enable itself.
prerequisites_enabled(platform, request) ==
    /\ platform.api12 \/ "timeline" \in request.exts
    /\ request.exts \cap {"id", "id2"} # {}

should_advertise_nv_low_latency2(policy, native, emulable) ==
    CASE policy.expose = "disabled" -> FALSE
      [] policy.expose = "enabled"  -> native \/ emulable
      [] policy.expose = "auto"     -> native \/ (emulable /\ policy.spoof # "off")

should_use_native_nv_low_latency2(policy, native) ==
    native /\ policy.prefer /\ policy.output \in {"auto", "native_reflex"}

Advertised(platform, policy) ==
    should_advertise_nv_low_latency2(policy, "nv" \in platform.exts,
                                     prerequisites_supported(platform))

\* What the application sees: the driver's list without the NV extension,
\* which is put back, native or emulated, when the policy advertises it.
enumerate_policy_extensions(platform, policy) ==
    (platform.exts \ {"nv"}) \cup (IF Advertised(platform, policy) THEN {"nv"} ELSE {})

\* Anti-Lag is added behind the application's back wherever the driver has
\* the extension and the feature, except for a multi-device group; a feature
\* structure of the application's own decides whether it is on.
AntiLagAdded(platform, request) ==
    "antilag" \in platform.exts /\ platform.antilag /\ ~request.group

AntiLagEnabled(platform, request) ==
    AntiLagAdded(platform, request) /\ request.antilag # "off"

\* Present precision is passive: only what the application enabled, both as an
\* extension and as a feature, and waiting only on top of identifiers.
PresentFeatures(policy, request) ==
    LET asked == IF policy.precision THEN request.exts \cap request.features ELSE {}
    IN  (asked \cap {"id", "id2"}) \cup {f \in asked \cap {"wait"} : "id" \in asked}

\* The three refusals of hkvkCreateDevice, in the order of the code.
Refusal(platform, policy, request) ==
    LET nv       == "nv" \in request.exts
        native   == should_use_native_nv_low_latency2(policy, "nv" \in platform.exts)
        emulated == nv /\ Advertised(platform, policy) /\ ~native
    IN  CASE nv /\ request.group                       -> "device_group"
          [] nv /\ ~Advertised(platform, policy)       -> "not_advertised"
          [] emulated /\ ~prerequisites_enabled(platform, request) -> "prerequisites"
          [] OTHER                                     -> "none"

\* Mutant: the emulated extension is not stripped.
HandedToDriver_KeepsEmulated(platform, policy, request) ==
    request.exts \cup (IF AntiLagAdded(platform, request) THEN {"antilag"} ELSE {})

\* The extension list handed to the driver: an emulated NV extension is taken
\* out, Anti-Lag put in.
HandedToDriver(platform, policy, request) ==
    LET native == should_use_native_nv_low_latency2(policy, "nv" \in platform.exts)
    IN  (request.exts \ (IF native THEN {} ELSE {"nv"}))
            \cup (IF AntiLagAdded(platform, request) THEN {"antilag"} ELSE {})

\* What the registry records of the new device.  A driver that hands out only
\* part of the NV entry points (~procs) is driven through the emulation.
DeviceState(platform, policy, request, procs) ==
    LET native == should_use_native_nv_low_latency2(policy, "nv" \in platform.exts)
    IN  [nv       |-> IF "nv" \notin request.exts THEN "none"
                      ELSE IF native /\ procs THEN "native" ELSE "emulated",
         antilag  |-> AntiLagEnabled(platform, request),
         features |-> PresentFeatures(policy, request)]

=============================================================================
