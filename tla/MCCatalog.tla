------------------------------ MODULE MCCatalog ------------------------------
(* Small instances of Catalog for TLC: a machine with an NVIDIA GPU and    *)
(* one reached through docker; models on both sides of every comparison.   *)
EXTENDS Catalog, TLC

CONSTANTS m1, m2, l1, l2, l3, l4

MCKindOf == (m1 :> "ssh") @@ (m2 :> "docker")

MCHardwareOf ==
  (m1 :> [ram |-> 10, vram |-> 6, nvidia |-> TRUE, amd |-> FALSE, vulkan |-> TRUE]) @@
  (m2 :> [ram |-> 10, vram |-> 0, nvidia |-> FALSE, amd |-> FALSE, vulkan |-> FALSE])

MCRequirement ==
  (l1 :> [ram |-> 8, vram |-> 6]) @@ (l2 :> [ram |-> 9, vram |-> 7]) @@
  (l3 :> [ram |-> 11, vram |-> 7]) @@ (l4 :> [ram |-> 0, vram |-> 0])

Symmetry == Permutations(Handlers)
=============================================================================
