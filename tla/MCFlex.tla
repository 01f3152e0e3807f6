------------------------------ MODULE MCFlex ------------------------------
(* VulkanFlex scheduler with two threads. *)
EXTENDS FlexScheduler, TLC

Symmetry == Permutations(Threads) \cup Permutations(Swapchains)

============================================================================
