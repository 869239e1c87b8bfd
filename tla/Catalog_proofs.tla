--------------------------- MODULE Catalog_proofs ---------------------------
(***************************************************************************)
(* TLAPS proofs about recommendations, for any hardware, any models and    *)
(* any commands that fail.                                                 *)
(*                                                                         *)
(* Detection may find less than there is, but never more: facts are Honest *)
(* about their machine wherever they are kept.  What is recommended on     *)
(* honest facts fits.                                                      *)
(***************************************************************************)
EXTENDS Catalog, TLAPS

\* The facts f tell nothing of hardware hw that is not so.
Honest(f, hw) ==
  /\ f.ram \in {0, hw.ram}
  /\ f.vram \in {0, hw.vram}
  /\ f.vram > 0 => f.capability = "nvidia_ready"

\* The answer a is right for hardware hw.
Fits(a, hw) ==
  LET m == Requirement[a.model]
  IN /\ m.ram > 0 => m.ram <= hw.ram \/ (m.vram > 0 /\ m.vram <= hw.vram)
     /\ a.compatibility = "optimal" => a.backend = "cuda" /\ m.vram <= hw.vram

HandlerInv(h) ==
  /\ pc[h] \in {"detect", "save", "recommend", "delete"} => target[h] \in Machines
  /\ pc[h] \in {"save", "recommend"} =>
       found[h] \in Facts /\ Honest(found[h], HardwareOf[target[h]])
  /\ pc[h] # "done" => answer[h] = {}
  /\ answer[h] # {} => target[h] \in Machines
  /\ \A a \in answer[h] : Fits(a, HardwareOf[target[h]])

FactsInv == \A m \in Machines : facts[m] # NoFacts => Honest(facts[m], HardwareOf[m])

IInv ==
  /\ TypeOK
  /\ FactsInv
  /\ \A h \in Handlers : HandlerInv(h)

-----------------------------------------------------------------------------
(* Pure facts about detection and the engine.                              *)

(* Whatever commands fail, detection finds at most what there is.          *)
LEMMA DetectedHonest ==
  ASSUME NEW hw \in Hardware, NEW failed
  PROVE  Detected(hw, failed) \in Facts /\ Honest(Detected(hw, failed), hw)
<1> DEFINE works(tool, c) == tool /\ c \notin failed
           identified == /\ works(hw.nvidia, "find nvidia-smi")
                         /\ works(hw.nvidia, "run nvidia-smi")
           capability == CASE identified -> "nvidia_ready"
                           [] ~identified /\ works(hw.amd, "find rocminfo") -> "amd_rocm_ready"
                           [] /\ ~identified
                              /\ ~works(hw.amd, "find rocminfo")
                              /\ works(hw.vulkan, "find vulkaninfo") -> "vulkan_ready"
                           [] OTHER -> "cpu_only"
<1>1. Detected(hw, failed) = [ram        |-> IF "free" \in failed THEN 0 ELSE hw.ram,
                              vram       |-> IF identified THEN hw.vram ELSE 0,
                              capability |-> capability]
  BY DEF Detected
<1>2. capability \in Capabilities /\ (identified => capability = "nvidia_ready")
  BY DEF Capabilities
<1>3. hw.ram \in Nat /\ hw.vram \in Nat
  BY DEF Hardware
<1> HIDE DEF works, identified, capability
<1> QED BY <1>1, <1>2, <1>3 DEF Facts, Honest

LEMMA DockerHonest ==
  ASSUME NEW hw \in Hardware
  PROVE  DockerFacts \in Facts /\ Honest(DockerFacts, hw)
BY DEF DockerFacts, Facts, Honest, Capabilities

(* The engine never divides by zero.                                       *)
THEOREM NoZeroDivisor ==
  ASSUME NEW f \in Facts, NEW m \in Requirements
  PROVE  0 \notin Divisors(f, m)
<1>1. f.ram \in Nat /\ f.vram \in Nat /\ m.ram \in Nat /\ m.vram \in Nat
  BY DEF Facts, Requirements
<1>2. CASE Compatibility(f, m) = "incompatible"
  BY <1>2 DEF Divisors
<1>3. CASE Compatibility(f, m) # "incompatible" /\ OnGPU(f, m)
  BY <1>1, <1>3 DEF Divisors, OnGPU
<1>4. CASE Compatibility(f, m) # "incompatible" /\ ~OnGPU(f, m) /\ m.ram = 0
  BY <1>4 DEF Divisors
<1>5. CASE Compatibility(f, m) # "incompatible" /\ ~OnGPU(f, m) /\ m.ram > 0
  <2>1. m.ram <= f.ram
    BY <1>1, <1>5 DEF Compatibility
  <2> QED BY <1>1, <1>5, <2>1 DEF Divisors
<1> QED BY <1>1, <1>2, <1>3, <1>4, <1>5

(* What is recommended on honest facts fits the hardware.                  *)
LEMMA HonestFits ==
  ASSUME NEW hw \in Hardware, NEW f \in Facts, Honest(f, hw), NEW m \in Requirements,
         Compatibility(f, m) # "incompatible"
  PROVE  /\ Compatibility(f, m) \in {"optimal", "compatible", "not_recommended"}
         /\ Backend(f, m) \in {"cuda", "rocm", "vulkan", "metal", "cpu"}
         /\ m.ram > 0 => m.ram <= hw.ram \/ (m.vram > 0 /\ m.vram <= hw.vram)
         /\ Compatibility(f, m) = "optimal" => Backend(f, m) = "cuda" /\ m.vram <= hw.vram
<1>1. /\ f.ram \in Nat /\ f.vram \in Nat /\ m.ram \in Nat /\ m.vram \in Nat
      /\ hw.ram \in Nat /\ hw.vram \in Nat
  BY DEF Facts, Requirements, Hardware
<1>2. Backend(f, m) \in {"cuda", "rocm", "vulkan", "metal", "cpu"}
  BY DEF Backend
<1>3. CASE OnGPU(f, m) /\ m.vram <= f.vram
  <2>1. Compatibility(f, m) = "optimal"
    BY <1>1, <1>3 DEF Compatibility
  <2>2. f.vram = hw.vram /\ m.vram > 0 /\ f.capability = "nvidia_ready"
    BY <1>1, <1>3 DEF OnGPU, Honest
  <2>3. Backend(f, m) = "cuda"
    BY <2>1, <2>2 DEF Backend
  <2> QED BY <1>3, <2>1, <2>2, <2>3
<1>4. CASE OnGPU(f, m) /\ m.vram > f.vram
  <2>1. m.ram < f.ram /\ Compatibility(f, m) = "not_recommended"
    BY <1>1, <1>4 DEF Compatibility
  <2> QED BY <1>1, <1>2, <2>1 DEF Honest
<1>5. CASE ~OnGPU(f, m)
  <2>1. /\ m.ram <= f.ram
        /\ Compatibility(f, m) \in {"compatible", "not_recommended"}
    BY <1>1, <1>5 DEF Compatibility
  <2> QED BY <1>1, <1>2, <2>1 DEF Honest
<1> QED BY <1>1, <1>3, <1>4, <1>5

-----------------------------------------------------------------------------
LEMMA NoFactsIsNone == NoFacts \notin Facts
BY DEF NoFacts, Facts, Capabilities

LEMMA InitInv == Init => IInv
BY DEF Init, IInv, TypeOK, FactsInv, HandlerInv

(* The requests that create and delete in one operation.                   *)
LEMMA CatalogInv ==
  ASSUME IInv,
         \/ \E m \in Machines : CreateMachine(m)
         \/ \E l \in Models : CreateModel(l) \/ DeleteModel(l)
  PROVE  IInv'
BY DEF IInv, TypeOK, FactsInv, HandlerInv, CreateMachine, CreateModel, DeleteModel, MayFail

LEMMA StepInv ==
  ASSUME IInv, NEW h \in Handlers, Step(h)
  PROVE  IInv'
<1> USE CatalogAssumption
<1>1. ASSUME NEW m \in Machines, DeleteFacts(h, m) \/ Detect(h, m)
      PROVE  IInv'
  <2>1. TypeOK' /\ FactsInv'
    BY <1>1 DEF IInv, TypeOK, FactsInv, DeleteFacts, Detect, Goto, MayFail
  <2>2. ASSUME NEW g \in Handlers PROVE HandlerInv(g)'
    BY <1>1 DEF IInv, TypeOK, HandlerInv, DeleteFacts, Detect, Goto
  <2> QED BY <2>1, <2>2 DEF IInv
<1>2. CASE DeleteMachine(h) \/ SaveFacts(h)
  <2>1. TypeOK' /\ FactsInv'
    BY <1>2 DEF IInv, TypeOK, FactsInv, HandlerInv, DeleteMachine, SaveFacts, TearFacts,
       Goto, MayFail
  <2>2. ASSUME NEW g \in Handlers PROVE HandlerInv(g)'
    BY <1>2 DEF IInv, TypeOK, HandlerInv, DeleteMachine, SaveFacts, Goto
  <2> QED BY <2>1, <2>2 DEF IInv
<1>3. CASE RunDetection(h)
  <2>1. target[h] \in Machines /\ HardwareOf[target[h]] \in Hardware
    BY <1>3 DEF IInv, HandlerInv, RunDetection
  <2>2. PICK f \in Facts : /\ Honest(f, HardwareOf[target[h]])
                           /\ found' = [found EXCEPT ![h] = f]
    BY <1>3, <2>1, DetectedHonest, DockerHonest DEF RunDetection
  <2>3. TypeOK' /\ FactsInv'
    BY <1>3, <2>2 DEF IInv, TypeOK, FactsInv, RunDetection, Goto
  <2>4. ASSUME NEW g \in Handlers PROVE HandlerInv(g)'
    BY <1>3, <2>1, <2>2 DEF IInv, TypeOK, HandlerInv, RunDetection, Goto
  <2> QED BY <2>3, <2>4 DEF IInv
<1>4. ASSUME NEW m \in Machines, GetFacts(h, m) PROVE IInv'
  <2>1. facts[m] \in Facts /\ Honest(facts[m], HardwareOf[m])
    BY <1>4 DEF IInv, TypeOK, FactsInv, GetFacts
  <2>2. TypeOK' /\ FactsInv'
    BY <1>4, <2>1 DEF IInv, TypeOK, FactsInv, GetFacts, Goto
  <2>3. ASSUME NEW g \in Handlers PROVE HandlerInv(g)'
    BY <1>4, <2>1 DEF IInv, TypeOK, HandlerInv, GetFacts, Goto
  <2> QED BY <2>2, <2>3 DEF IInv
<1>5. CASE GetDeployableModels(h)
  <2>1. /\ target[h] \in Machines /\ HardwareOf[target[h]] \in Hardware
        /\ found[h] \in Facts /\ Honest(found[h], HardwareOf[target[h]])
    BY <1>5 DEF IInv, HandlerInv, GetDeployableModels
  <2>0. PICK listed \in SUBSET models :
           answer' = [answer EXCEPT ![h] = Recommend(found[h], listed, Requirement)]
    BY <1>5 DEF GetDeployableModels, Listings
  <2> DEFINE A == Recommend(found[h], listed, Requirement)
  <2>2. ASSUME NEW a \in A
        PROVE  /\ a \in [model         : Models,
                         compatibility : {"optimal", "compatible", "not_recommended"},
                         backend       : {"cuda", "rocm", "vulkan", "metal", "cpu"}]
               /\ Fits(a, HardwareOf[target[h]])
    <3>1. PICK i \in listed :
             /\ Compatibility(found[h], Requirement[i]) # "incompatible"
             /\ a = [model |-> i,
                     compatibility |-> Compatibility(found[h], Requirement[i]),
                     backend |-> Backend(found[h], Requirement[i])]
      BY DEF Recommend
    <3>2. i \in Models /\ Requirement[i] \in Requirements
      BY DEF IInv, TypeOK
    <3> QED BY <2>1, <3>1, <3>2, HonestFits DEF Fits
  <2> HIDE DEF A
  <2>3. answer' = [answer EXCEPT ![h] = A]
    BY <2>0 DEF A
  <2>4. TypeOK' /\ FactsInv'
    BY <1>5, <2>2, <2>3 DEF IInv, TypeOK, FactsInv, GetDeployableModels, Goto
  <2>5. ASSUME NEW g \in Handlers PROVE HandlerInv(g)'
    BY <1>5, <2>1, <2>2, <2>3 DEF IInv, TypeOK, HandlerInv, GetDeployableModels, Goto, Fits
  <2> QED BY <2>4, <2>5 DEF IInv
<1>6. CASE Reply(h)
  <2>1. TypeOK' /\ FactsInv'
    BY <1>6 DEF IInv, TypeOK, FactsInv, Reply, Goto
  <2>2. ASSUME NEW g \in Handlers PROVE HandlerInv(g)'
    BY <1>6 DEF IInv, TypeOK, HandlerInv, Reply, Goto
  <2> QED BY <2>1, <2>2 DEF IInv
<1> QED BY <1>1, <1>2, <1>3, <1>4, <1>5, <1>6 DEF Step

LEMMA CrashInv ==
  ASSUME IInv, Crash
  PROVE  IInv'
BY DEF IInv, TypeOK, FactsInv, HandlerInv, Crash, TearFacts

LEMMA NextInv == IInv /\ [Next]_vars => IInv'
<1>1. IInv /\ UNCHANGED vars => IInv'
  BY DEF vars, IInv, TypeOK, FactsInv, HandlerInv
<1> QED BY <1>1, CatalogInv, StepInv, CrashInv DEF Next

LEMMA Invariance == Spec => []IInv
BY InitInv, NextInv, PTL DEF Spec

-----------------------------------------------------------------------------
(* The types hold in every reachable state.                                *)
THEOREM CatalogTypeCorrect == Spec => []TypeOK
<1>1. IInv => TypeOK
  BY DEF IInv
<1> QED BY <1>1, Invariance, PTL

(* Whatever commands of its detection failed, a machine is only            *)
(* recommended models that fit what it really has, where their need of RAM *)
(* is known.                                                               *)
THEOREM RecommendationsFit == Spec => []RecommendedFits
<1>1. IInv => RecommendedFits
  BY DEF IInv, HandlerInv, RecommendedFits, Fits
<1> QED BY <1>1, Invariance, PTL

(* The facts of a deleted machine do not come back by themselves.          *)
LEMMA GoneStep ==
  ASSUME IInv, [Next]_vars, NEW m \in Machines, Gone(m)
  PROVE  Gone(m)'
<1>1. CASE \E h \in Handlers : Step(h)
  <2>1. PICK h \in Handlers : Step(h)
    BY <1>1
  <2>2. m \in used' \ machines'
    BY <2>1 DEF Gone, Step, DeleteFacts, Detect, GetFacts, DeleteMachine, RunDetection,
       SaveFacts, GetDeployableModels, Reply, MayFail
  <2>3. facts'[m] = NoFacts
    BY <2>1 DEF IInv, TypeOK, Gone, Step, DeleteFacts, Detect, GetFacts, DeleteMachine,
       RunDetection, SaveFacts, TearFacts, GetDeployableModels, Reply, MayFail
  <2>4. ASSUME NEW g \in Handlers, target'[g] = m PROVE pc'[g] \notin {"detect", "save"}
    <3>1. CASE g # h
      BY <2>1, <2>4, <3>1 DEF IInv, TypeOK, Gone, Step, DeleteFacts, Detect, GetFacts,
         DeleteMachine, RunDetection, SaveFacts, GetDeployableModels, Reply, Goto
    <3>2. CASE g = h
      BY <2>1, <2>4, <3>2 DEF IInv, TypeOK, Gone, Step, DeleteFacts, Detect, GetFacts,
         DeleteMachine, RunDetection, SaveFacts, GetDeployableModels, Reply, Goto
    <3> QED BY <3>1, <3>2
  <2> QED BY <2>2, <2>3, <2>4 DEF Gone
<1>2. CASE UNCHANGED vars
  BY <1>2 DEF vars, Gone
<1>3. CASE \/ \E n \in Machines : CreateMachine(n)
           \/ \E l \in Models : CreateModel(l) \/ DeleteModel(l)
  BY <1>3 DEF Gone, CreateMachine, CreateModel, DeleteModel, MayFail
<1>4. CASE Crash
  BY <1>4, CatalogAssumption DEF IInv, TypeOK, Gone, Crash, TearFacts
<1> QED BY <1>1, <1>2, <1>3, <1>4 DEF Next

THEOREM FactsStayGone == Spec => GoneForGood
<1>1. IInv /\ [Next]_vars => [\A m \in Machines : Gone(m) => Gone(m)']_vars
  BY GoneStep
<1> QED BY <1>1, Invariance, PTL DEF Spec, GoneForGood
=============================================================================
