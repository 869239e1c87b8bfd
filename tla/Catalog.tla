------------------------------- MODULE Catalog -------------------------------
(***************************************************************************)
(* Machines, the facts detected about them, and models: the handlers of    *)
(* MachineHandler and ModelHandler that keep them, interleaved at the      *)
(* operations of the store.  Detect runs commands for as long as it takes  *)
(* between reading the machine's record and saving its facts.              *)
(*                                                                         *)
(* A file that a crash or a failing disk left torn is to every reader as   *)
(* good as none, and to every writer and deletion too: torn and absent     *)
(* records are not told apart here.                                        *)
(***************************************************************************)
EXTENDS Recommendation

CONSTANTS
  Machines,     \* the random ids of machines (none is generated twice)
  KindOf,       \* ConnectionType of each machine: "ssh", "local" or "docker"
  HardwareOf,   \* what each machine really has
  Models,       \* the random ids of models
  Requirement,  \* what each model needs
  Handlers,     \* HTTP handler goroutines
  Fails,        \* the detection commands that may fail
  Faults        \* what may go wrong: "disk", "crash"

ASSUME CatalogAssumption ==
  /\ KindOf \in [Machines -> {"ssh", "local", "docker"}]
  /\ HardwareOf \in [Machines -> Hardware]
  /\ Requirement \in [Models -> Requirements]
  /\ Fails \subseteq Commands
  /\ Faults \subseteq {"disk", "crash"}
  /\ "none" \notin Machines

VARIABLES
  machines,  \* the machines that have a record
  facts,     \* machine_facts/<id>.json
  models,    \* the models that have a record
  used,      \* the ids of machines and models generated so far
  pc,        \* where each handler is
  target,    \* the machine its request names
  found,     \* the facts it has detected or read
  answer     \* the recommendations it is about to send

vars == <<machines, facts, models, used, pc, target, found, answer>>

NoFacts == [ram |-> 0, vram |-> 0, capability |-> "none"]
Goto(h, label) == pc' = [pc EXCEPT ![h] = label]

\* What becomes of records that a failing disk may leave as they are.
MayFail(old, new) == {new} \cup (IF "disk" \in Faults THEN {old} ELSE {})

\* What GetAll may list of the models.  A file that cannot be read is left
\* out; an error, which the handler answers, recommends as little as none.
Listings == {models} \cup (IF "disk" \in Faults THEN SUBSET models ELSE {})

\* The file that h is saving is truncated and not written.
TearFacts(h) == facts' = [facts EXCEPT ![target[h]] = NoFacts]

-----------------------------------------------------------------------------
CreateMachine(m) ==
  /\ m \notin used
  /\ used' = used \cup {m}
  /\ machines' \in MayFail(machines, machines \cup {m})
  /\ UNCHANGED <<facts, models, pc, target, found, answer>>

CreateModel(l) ==
  /\ l \notin used
  /\ used' = used \cup {l}
  /\ models' \in MayFail(models, models \cup {l})
  /\ UNCHANGED <<machines, facts, pc, target, found, answer>>

DeleteModel(l) ==
  /\ l \in models
  /\ models' = models \ {l}
  /\ UNCHANGED <<machines, facts, used, pc, target, found, answer>>

-----------------------------------------------------------------------------
(* DELETE /api/machines/{id}: the facts first, then the record, whether or *)
(* not the facts have gone.                                                *)

DeleteFacts(h, m) ==
  /\ pc[h] = "idle"
  /\ m \in used
  /\ facts' \in MayFail(facts, [facts EXCEPT ![m] = NoFacts])
  /\ target' = [target EXCEPT ![h] = m]
  /\ Goto(h, "delete")
  /\ UNCHANGED <<machines, models, used, found, answer>>

DeleteMachine(h) ==
  /\ pc[h] = "delete"
  /\ machines' \in MayFail(machines, machines \ {target[h]})
  /\ Goto(h, "done")
  /\ UNCHANGED <<facts, models, used, target, found, answer>>

-----------------------------------------------------------------------------
(* POST /api/machines/{id}/detect                                          *)

MutantDetect(h, m) ==  \* the record is not looked up
  /\ pc[h] = "idle"
  /\ m \in used
  /\ target' = [target EXCEPT ![h] = m]
  /\ Goto(h, "detect")
  /\ UNCHANGED <<machines, facts, models, used, found, answer>>

Detect(h, m) ==
  /\ pc[h] = "idle"
  /\ m \in machines
  /\ target' = [target EXCEPT ![h] = m]
  /\ Goto(h, "detect")
  /\ UNCHANGED <<machines, facts, models, used, found, answer>>

RunDetection(h) ==
  /\ pc[h] = "detect"
  /\ \E failed \in SUBSET Fails :
       found' = [found EXCEPT ![h] =
         IF KindOf[target[h]] = "docker" THEN DockerFacts
         ELSE Detected(HardwareOf[target[h]], failed)]
  /\ Goto(h, "save")
  /\ UNCHANGED <<machines, facts, models, used, target, answer>>

\* A save that fails leaves the facts that were there, or tears them.
SaveFacts(h) ==
  /\ pc[h] = "save"
  /\ \/ facts' = [facts EXCEPT ![target[h]] = found[h]]
     \/ "disk" \in Faults /\ (TearFacts(h) \/ UNCHANGED facts)
  /\ Goto(h, "done")
  /\ UNCHANGED <<machines, models, used, target, found, answer>>

-----------------------------------------------------------------------------
(* GET /api/machines/{id}/deployable-models: the facts (or the answer that *)
(* there are none), then the list of models.                               *)

GetFacts(h, m) ==
  /\ pc[h] = "idle"
  /\ facts[m] # NoFacts
  /\ target' = [target EXCEPT ![h] = m]
  /\ found' = [found EXCEPT ![h] = facts[m]]
  /\ Goto(h, "recommend")
  /\ UNCHANGED <<machines, facts, models, used, answer>>

GetDeployableModels(h) ==
  /\ pc[h] = "recommend"
  /\ \E listed \in Listings :
       answer' = [answer EXCEPT ![h] = Recommend(found[h], listed, Requirement)]
  /\ Goto(h, "done")
  /\ UNCHANGED <<machines, facts, models, used, target, found>>

Reply(h) ==
  /\ pc[h] = "done"
  /\ target' = [target EXCEPT ![h] = "none"]
  /\ found' = [found EXCEPT ![h] = NoFacts]
  /\ answer' = [answer EXCEPT ![h] = {}]
  /\ Goto(h, "idle")
  /\ UNCHANGED <<machines, facts, models, used>>

-----------------------------------------------------------------------------
Init ==
  /\ machines = {}
  /\ facts = [m \in Machines |-> NoFacts]
  /\ models = {}
  /\ used = {}
  /\ pc = [h \in Handlers |-> "idle"]
  /\ target = [h \in Handlers |-> "none"]
  /\ found = [h \in Handlers |-> NoFacts]
  /\ answer = [h \in Handlers |-> {}]

\* The process of the control plane ends: requests are gone, and a file being
\* saved may be torn.
Crash ==
  /\ "crash" \in Faults
  /\ UNCHANGED facts \/ \E h \in Handlers : pc[h] = "save" /\ TearFacts(h)
  /\ pc' = [h \in Handlers |-> "idle"]
  /\ target' = [h \in Handlers |-> "none"]
  /\ found' = [h \in Handlers |-> NoFacts]
  /\ answer' = [h \in Handlers |-> {}]
  /\ UNCHANGED <<machines, models, used>>

Step(h) ==
  \/ \E m \in Machines : DeleteFacts(h, m) \/ Detect(h, m) \/ GetFacts(h, m)
  \/ DeleteMachine(h)
  \/ RunDetection(h) \/ SaveFacts(h)
  \/ GetDeployableModels(h)
  \/ Reply(h)

Next ==
  \/ \E m \in Machines : CreateMachine(m)
  \/ \E l \in Models : CreateModel(l) \/ DeleteModel(l)
  \/ \E h \in Handlers : Step(h)
  \/ Crash

Spec == Init /\ [][Next]_vars

-----------------------------------------------------------------------------
(* Properties.                                                             *)

TypeOK ==
  /\ machines \subseteq Machines
  /\ facts \in [Machines -> Facts \cup {NoFacts}]
  /\ models \subseteq Models
  /\ used \subseteq Machines \cup Models
  /\ pc \in [Handlers -> {"idle", "delete", "detect", "save", "recommend", "done"}]
  /\ target \in [Handlers -> Machines \cup {"none"}]
  /\ found \in [Handlers -> Facts \cup {NoFacts}]
  /\ answer \in [Handlers -> SUBSET [model         : Models,
                                     compatibility : {"optimal", "compatible", "not_recommended"},
                                     backend       : {"cuda", "rocm", "vulkan", "metal", "cpu"}]]

(* Whatever detection commands fail, a model whose need of RAM is known    *)
(* (one of 0 is not: such a model is offered to every machine without a    *)
(* GPU to judge it by) is only recommended for a machine whose real        *)
(* hardware has room for it, and any model is called optimal only where it *)
(* fits the GPU it was measured by, and with the backend of that GPU.      *)
RecommendedFits ==
  \A h \in Handlers : \A a \in answer[h] :
    LET hw == HardwareOf[target[h]]
        m  == Requirement[a.model]
    IN /\ m.ram > 0 => m.ram <= hw.ram \/ (m.vram > 0 /\ m.vram <= hw.vram)
       /\ a.compatibility = "optimal" => a.backend = "cuda" /\ m.vram <= hw.vram

\* m is deleted, its facts are gone and nobody is about to save any.
Gone(m) ==
  /\ m \in used \ machines
  /\ facts[m] = NoFacts
  /\ \A h \in Handlers : target[h] = m => pc[h] \notin {"detect", "save"}

(* A deleted machine whose facts are gone stays that way, unless a         *)
(* detection was under way when it was deleted (machines.go:292 saves the  *)
(* facts without looking at the record again), whatever crashes and disk   *)
(* errors come between.                                                    *)
GoneForGood ==
  [][\A m \in Machines : Gone(m) => Gone(m)']_vars
=============================================================================
