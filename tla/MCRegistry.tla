----------------------------- MODULE MCRegistry -----------------------------
EXTENDS DeviceRegistry, TLC

MCSymmetry == Permutations(Threads) \cup Permutations(Devices)

\* A driver that has VK_NV_low_latency2 has what that extension depends on.
MCPlatforms ==
    {p \in [api12 : BOOLEAN, exts : SUBSET {"nv", "antilag", "timeline", "id", "id2"}, antilag : BOOLEAN] :
        /\ "nv" \in p.exts => prerequisites_supported(p)
        /\ p.antilag => "antilag" \in p.exts}

MCPolicies ==
    [expose : {"auto", "enabled", "disabled"}, spoof : {"off", "nvidia"}, prefer : BOOLEAN,
     output : {"auto", "vulkan_flex"}, precision : {TRUE}]

=============================================================================
