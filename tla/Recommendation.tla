--------------------------- MODULE Recommendation ---------------------------
(***************************************************************************)
(* What a machine's hardware is detected as, and which models are          *)
(* recommended for it: detectMachine, detectLocalMachine and the           *)
(* RecommendationEngine, as operators.  Amounts of memory are numbers of   *)
(* bytes; 0 stands for "not known", as in the code.                        *)
(***************************************************************************)
EXTENDS Naturals

\* What a machine really has.  nvidia, amd and vulkan: the tool is installed.
Hardware == [ram : Nat, vram : Nat, nvidia : BOOLEAN, amd : BOOLEAN, vulkan : BOOLEAN]

\* No detection finds mac_metal_ready, though the engine knows it.
Capabilities == {"nvidia_ready", "amd_rocm_ready", "vulkan_ready", "mac_metal_ready",
                 "cpu_only", "docker_ready"}

\* models.MachineFacts, as far as recommendations depend on it.
Facts == [ram : Nat, vram : Nat, capability : Capabilities]

\* models.Model: EstimatedRAMBytes and EstimatedVRAMBytes.
Requirements == [ram : Nat, vram : Nat]

-----------------------------------------------------------------------------
(* Detection: a sequence of commands whose failures are not reported.      *)

Commands == {"free", "find nvidia-smi", "run nvidia-smi", "find rocminfo", "find vulkaninfo"}

\* The facts of a machine with hardware hw if the commands in failed fail.
Detected(hw, failed) ==
  LET works(tool, c) == tool /\ c \notin failed
      identified == /\ works(hw.nvidia, "find nvidia-smi")
                    /\ works(hw.nvidia, "run nvidia-smi")
  IN [ram        |-> IF "free" \in failed THEN 0 ELSE hw.ram,
      vram       |-> IF identified THEN hw.vram ELSE 0,
      capability |-> CASE identified -> "nvidia_ready"
                       [] ~identified /\ works(hw.amd, "find rocminfo") -> "amd_rocm_ready"
                       [] /\ ~identified
                          /\ ~works(hw.amd, "find rocminfo")
                          /\ works(hw.vulkan, "find vulkaninfo") -> "vulkan_ready"
                       [] OTHER -> "cpu_only"]

\* A docker machine is not looked at.
DockerFacts == [ram |-> 0, vram |-> 0, capability |-> "docker_ready"]

-----------------------------------------------------------------------------
(* checkCompatibility                                                      *)

\* Both are known, and the model is judged by its need of GPU memory.
OnGPU(f, m) == f.vram > 0 /\ m.vram > 0

\* ramUsage > 0.8
Tight(f, m) == 10 * m.ram > 8 * f.ram

MutantCompatibility(f, m) ==  \* the comparison with the RAM turned round
  CASE OnGPU(f, m) /\ m.vram <= f.vram -> "optimal"
    [] OnGPU(f, m) /\ m.vram > f.vram ->
         IF m.ram > 0 /\ m.ram < f.ram THEN "not_recommended" ELSE "incompatible"
    [] ~OnGPU(f, m) /\ m.ram = 0 -> "compatible"
    [] ~OnGPU(f, m) /\ m.ram > 0 ->
         IF m.ram < f.ram THEN "incompatible"
         ELSE IF Tight(f, m) THEN "not_recommended" ELSE "compatible"

Compatibility(f, m) ==
  CASE OnGPU(f, m) /\ m.vram <= f.vram -> "optimal"
    [] OnGPU(f, m) /\ m.vram > f.vram ->
         IF m.ram > 0 /\ m.ram < f.ram THEN "not_recommended" ELSE "incompatible"
    [] ~OnGPU(f, m) /\ m.ram = 0 -> "compatible"
    [] ~OnGPU(f, m) /\ m.ram > 0 ->
         IF m.ram > f.ram THEN "incompatible"
         ELSE IF Tight(f, m) THEN "not_recommended" ELSE "compatible"

\* RecommendedBackend: by the capability, unless the model has to do without
\* the GPU that it was judged by.
Backend(f, m) ==
  IF OnGPU(f, m) /\ Compatibility(f, m) = "not_recommended" THEN "cpu"
  ELSE CASE f.capability = "nvidia_ready"    -> "cuda"
         [] f.capability = "amd_rocm_ready"  -> "rocm"
         [] f.capability = "vulkan_ready"    -> "vulkan"
         [] f.capability = "mac_metal_ready" -> "metal"
         [] OTHER                            -> "cpu"

\* The amounts the model's need is divided by, for ramUsage and EstimatedLoad.
Divisors(f, m) ==
  CASE Compatibility(f, m) = "incompatible" -> {}
    [] Compatibility(f, m) # "incompatible" /\ OnGPU(f, m) -> {f.vram}
    [] Compatibility(f, m) # "incompatible" /\ ~OnGPU(f, m) ->
         IF m.ram > 0 THEN {f.ram} ELSE {}

MutantRecommend(f, models, requirement) ==  \* incompatible models are listed too
  {[model |-> id, compatibility |-> Compatibility(f, requirement[id]),
    backend |-> Backend(f, requirement[id])] : id \in models}

\* GetDeployableModels: the models of a list that are not incompatible.
Recommend(f, models, requirement) ==
  {[model |-> id, compatibility |-> Compatibility(f, requirement[id]),
    backend |-> Backend(f, requirement[id])] :
     id \in {i \in models : Compatibility(f, requirement[i]) # "incompatible"}}
=============================================================================
