--------------------------- MODULE AdoptDisksProofs ---------------------------
(***************************************************************************)
(* The two commands that ask a pool what is there and then change it.      *)
(* They share no state.  Of TfAdopt: adoption stays a pure state operation,*)
(* for any leaves, resources and operator choices, however the providers   *)
(* and the state backend answer.  Of XoaDisks: what an exit code 0 of the  *)
(* disk reconciler promises, and which VMs it may boot, for any number of  *)
(* terminals, hosts, VMs and disks.                                        *)
(***************************************************************************)
EXTENDS TfAdopt, XoaDisks, FiniteSetTheorems, TLAPS

-----------------------------------------------------------------------------
(* TfAdopt: the inductive invariant *)

Importing == run.pc \in {"plan", "replan", "apply"}

(* What is being imported belongs to one leaf that is still to be done, and *)
(* is of a kind that has an import id.                                      *)
OneLeafAtATime ==
    Importing => /\ \E l \in run.todo : run.imports \subseteq Of(l)
                 /\ \A r \in run.imports : Kind[r] \in Imported

(* The actions the gate refuses, as far as the operator did not allow them. *)
Refused == {"create", "delete", "replace"} \cup (IF run.opts.updates THEN {} ELSE {"update"})

(* The second plan is not gated, but if nothing changed in between it finds *)
(* no more than the first did for the imports and what they need.           *)
GateHolds ==
    /\ run.pc = "replan" /\ ~raced =>
          Changing(PlanOf(Targeted(run.imports), run.imports), Refused) = {}
    /\ run.pc = "apply" /\ ~raced => Changing(run.plan, Refused) = {}

(* Without --allow-updates the ids still lead to the right objects. *)
RightIds ==
    run.pc \in {"replan", "apply"} /\ ~raced /\ ~run.opts.updates =>
        \A r \in run.imports : live[r] \notin {"renamed", "foreign"}

IInv == TypeOK /\ OneLeafAtATime /\ GateHolds /\ RightIds /\ PureImport /\ RightObject

-----------------------------------------------------------------------------
LEMMA PlanIsTyped ==
    ASSUME NEW S, NEW imports
    PROVE  PlanOf(S, imports) \in [Resources -> Actions]
<1>1. \A r \in Resources : ActionOn(r, imports) \in Actions
  BY DEF ActionOn, Actions
<1> QED BY <1>1 DEF PlanOf, Actions

(* What is adoptable has an import id. *)
LEMMA AdoptIsImported ==
    ASSUME NEW l \in Leaves, NEW r \in Rows(l), NEW inState, NEW mute,
           Verdict(r, inState, mute) = "adopt"
    PROVE  r \in Resources /\ Kind[r] \in Imported
<1>1. r \in Resources /\ Kind[r] \in Kinds \ {"undeclared"}
  BY KindAssumption DEF Rows, Declared
<1>2. Kind[r] \notin {"secret", "runner", "manual"}
  BY DEF Verdict
<1> QED BY <1>1, <1>2 DEF Kinds, Imported

(* What the imports of a leaf need is of that leaf, and is no runner. *)
LEMMA TargetsStay ==
    ASSUME NEW l, NEW imports \in SUBSET Of(l), \A r \in imports : Kind[r] \in Imported
    PROVE  /\ imports \subseteq Targeted(imports) /\ Targeted(imports) \subseteq Of(l)
           /\ \A r \in Targeted(imports) : Kind[r] # "runner"
<1>1. imports \subseteq Resources /\ \A r \in imports : LeafOf[r] = l
  BY DEF Of
<1>2. \A r \in imports : \A d \in Needs[r] :
         d \in Resources /\ LeafOf[d] = l /\ Kind[d] # "runner"
  BY <1>1, NeedsAssumption DEF Imported
<1> QED BY <1>1, <1>2 DEF Targeted, Of, Imported

(* The two plans agree on what both are about. *)
LEMMA PlansAgree ==
    ASSUME NEW S, NEW T \in SUBSET S, NEW imports, NEW r \in T, r \in Resources
    PROVE  PlanOf(T, imports)[r] = PlanOf(S, imports)[r]
  BY DEF PlanOf

(* An import whose id leads to another object shows up in the plan. *)
LEMMA WrongObjectShows ==
    ASSUME NEW S, NEW imports, NEW r \in imports \cap S, r \in Resources,
           Kind[r] \in Imported
    PROVE  /\ live[r] = "foreign" => PlanOf(S, imports)[r] = "replace"
           /\ live[r] = "renamed" => PlanOf(S, imports)[r] = "update"
  BY DEF PlanOf, ActionOn, Imported, Declared

LEMMA CurrentIs ==
    ASSUME OneLeafAtATime, Importing
    PROVE  Current \in run.todo /\ run.imports \subseteq Of(Current)
  BY DEF OneLeafAtATime, Current

LEMMA IdleIsRun == Idle \in Run
<1>1. NoPlan \in [Resources -> Actions]
  BY DEF NoPlan, Actions
<1> QED BY <1>1 DEF Idle, Run, Options, Pcs

LEMMA InitIInv == Init => IInv
<1> SUFFICES ASSUME Init PROVE IInv
  OBVIOUS
<1>1. TypeOK
  <2>1. live \in [Resources -> Live] /\ drifts \in 0 .. MaxDrifts
    BY DriftAssumption DEF Init
  <2> QED BY <2>1, IdleIsRun DEF Init, TypeOK
<1>2. run.pc = "idle"
  BY DEF Init, Idle
<1> QED BY <1>1, <1>2
  DEF Init, IInv, OneLeafAtATime, GateHolds, RightIds, PureImport, RightObject, Importing

-----------------------------------------------------------------------------
(* What the ways to leave a leaf do to the command. *)
LEMMA LeafDone ==
    ASSUME TypeOK, NEW l, Refuse(l) \/ PassOver(l)
    PROVE  run' \in Run /\ run'.pc = "loop" /\ run'.opts = run.opts
  BY DEF TypeOK, Run, Refuse, PassOver, Pcs

LEMMA CommandOver ==
    ASSUME TypeOK, Finish \/ Exit
    PROVE  run'.pc \in {"idle", "exit"}
<1>1. run \in Run
  BY DEF TypeOK
<1>2. CASE Finish
  BY <1>1, <1>2 DEF Finish, Run
<1>3. CASE Exit
  BY <1>3 DEF Exit, Idle
<1> QED BY <1>2, <1>3

(* The command goes on with a plan, with a leaf, or not at all. *)
LEMMA RunIsTyped ==
    ASSUME TypeOK,
           \/ GatePlan \/ TargetedPlan \/ Apply \/ Finish \/ Exit
           \/ \E l \in Leaves : Consider(l)
           \/ \E opts \in Options, given \in Choices : Start(opts, given)
    PROVE  run' \in Run
<1> USE DEF TypeOK
<1>1. ASSUME NEW l \in Leaves, Consider(l)
      PROVE  run' \in Run
  <2>1. PICK inState \in StateLists(l),
             mute \in SUBSET {r \in Of(l) : Kind[r] \in {"verified", "lookup"}} :
           LET adoptable == {r \in Rows(l) : Verdict(r, inState, mute) = "adopt"}
           IN  \/ Refuse(l) \/ PassOver(l)
               \/ run' = [run EXCEPT !.pc = "plan", !.imports = adoptable]
    BY <1>1 DEF Consider
  <2> DEFINE adoptable == {r \in Rows(l) : Verdict(r, inState, mute) = "adopt"}
  <2>2. adoptable \in SUBSET Resources
    BY DEF Rows, Declared
  <2> HIDE DEF adoptable
  <2>3. CASE run' = [run EXCEPT !.pc = "plan", !.imports = adoptable]
    BY <2>2, <2>3 DEF Run, Pcs
  <2> QED BY <2>1, <2>3, LeafDone DEF adoptable
<1>2. ASSUME NEW opts \in Options, NEW given \in Choices, Start(opts, given)
      PROVE  run' \in Run
  <2>1. given \in SUBSET Resources /\ given \in SUBSET (Resources \cup Flags)
    BY ChoiceAssumption
  <2> QED BY <1>2, <2>1, IdleIsRun DEF Start, Run, Pcs
<1>3. CASE GatePlan
  <2> DEFINE plan == PlanOf(Of(Current), run.imports)
  <2>1. plan \in [Resources -> Actions]
    BY PlanIsTyped
  <2>2. \/ Refuse(Current)
        \/ run' = [run EXCEPT !.pc = "apply", !.plan = plan]
        \/ run' = [run EXCEPT !.pc = "replan", !.targets = Flags]
    BY <1>3 DEF GatePlan
  <2> HIDE DEF plan
  <2> QED BY <2>1, <2>2, LeafDone DEF Run, Pcs
<1>4. CASE TargetedPlan
  <2> DEFINE plan == PlanOf(Targeted(run.imports), run.imports)
  <2>1. plan \in [Resources -> Actions]
    BY PlanIsTyped
  <2>2. Refuse(Current) \/ run' = [run EXCEPT !.pc = "apply", !.plan = plan]
    BY <1>4 DEF TargetedPlan
  <2> HIDE DEF plan
  <2> QED BY <2>1, <2>2, LeafDone DEF Run, Pcs
<1>5. CASE Apply
  BY <1>5, LeafDone DEF Apply
<1>6. CASE Finish
  <2>1. NoPlan \in [Resources -> Actions]
    BY DEF NoPlan, Actions
  <2> HIDE DEF TypeOK
  <2>2. run \in Run
    BY DEF TypeOK
  <2> QED BY <1>6, <2>1, <2>2 DEF Finish, Run, Pcs
<1>7. CASE Exit
  BY <1>7, IdleIsRun DEF Exit
<1> QED BY <1>1, <1>2, <1>3, <1>4, <1>5, <1>6, <1>7

LEMMA NextTypes ==
    ASSUME TypeOK, [Next]_vars
    PROVE  TypeOK'
<1>1. ASSUME NEW r \in Resources, NEW what \in Live, Drift(r, what)
      PROVE  TypeOK'
  BY <1>1, DriftAssumption DEF Drift, TypeOK, history
<1>2. ASSUME NEW opts \in Options, NEW given \in Choices, Start(opts, given)
      PROVE  TypeOK'
  BY <1>2, RunIsTyped DEF Start, TypeOK
<1>3. ASSUME NEW l \in Leaves, Consider(l)
      PROVE  TypeOK'
  BY <1>3, RunIsTyped DEF Consider, TypeOK, history
<1>4. CASE GatePlan \/ TargetedPlan \/ Finish \/ Exit
  BY <1>4, RunIsTyped DEF GatePlan, TargetedPlan, Finish, Exit, TypeOK, history
<1>5. CASE Apply
  <2>1. run' \in Run
    BY <1>5, RunIsTyped
  <2>2. run.imports \subseteq Resources
    BY DEF TypeOK, Run
  <2>3. \A actions : Changing(run.plan, actions) \subseteq Resources
    BY DEF Changing
  <2>4. live' \in [Resources -> Live]
    BY <1>5 DEF Apply, TypeOK, Live
  <2>5. /\ bound' \subseteq Resources /\ created' \subseteq Resources
        /\ destroyed' \subseteq Resources /\ misbound' \subseteq Resources
    BY <1>5, <2>2, <2>3 DEF Apply, TypeOK
  <2> QED BY <1>5, <2>1, <2>4, <2>5 DEF Apply, TypeOK
<1>6. CASE UNCHANGED vars
  BY <1>6 DEF vars, TypeOK, history
<1> QED BY <1>1, <1>2, <1>3, <1>4, <1>5, <1>6 DEF Next

-----------------------------------------------------------------------------
(* The imports are gathered from one leaf and stay until it is done. *)
LEMMA NextOneLeaf ==
    ASSUME TypeOK, OneLeafAtATime, [Next]_vars
    PROVE  OneLeafAtATime'
<1> USE DEF OneLeafAtATime, Importing
<1>1. ASSUME NEW r \in Resources, NEW what \in Live, Drift(r, what)
      PROVE  OneLeafAtATime'
  BY <1>1 DEF Drift, Of
<1>2. ASSUME NEW opts \in Options, NEW given \in Choices, Start(opts, given)
      PROVE  OneLeafAtATime'
  BY <1>2 DEF Start, Idle
<1>3. ASSUME NEW l \in Leaves, Consider(l)
      PROVE  OneLeafAtATime'
  <2>1. PICK inState \in StateLists(l),
             mute \in SUBSET {r \in Of(l) : Kind[r] \in {"verified", "lookup"}} :
           LET adoptable == {r \in Rows(l) : Verdict(r, inState, mute) = "adopt"}
           IN  \/ Refuse(l) \/ PassOver(l)
               \/ run' = [run EXCEPT !.pc = "plan", !.imports = adoptable]
    BY <1>3 DEF Consider
  <2> DEFINE adoptable == {r \in Rows(l) : Verdict(r, inState, mute) = "adopt"}
  <2>2. /\ \A r \in adoptable : Kind[r] \in Imported
        /\ adoptable \subseteq Of(l)
    BY AdoptIsImported DEF Rows
  <2> HIDE DEF adoptable
  <2>3. CASE run' = [run EXCEPT !.pc = "plan", !.imports = adoptable]
    <3>1. run'.imports = adoptable /\ run'.todo = run.todo /\ l \in run.todo
      BY <1>3, <2>3 DEF TypeOK, Run, Consider
    <3> QED BY <2>2, <3>1 DEF Of
  <2>4. CASE Refuse(l) \/ PassOver(l)
    BY <2>4, LeafDone
  <2> QED BY <2>1, <2>3, <2>4 DEF adoptable
<1>4. CASE GatePlan \/ TargetedPlan
  <2>1. CASE Refuse(Current)
    BY <2>1, LeafDone
  <2>2. CASE ~Refuse(Current)
    <3>1. run'.imports = run.imports /\ run'.todo = run.todo /\ Importing
      BY <1>4, <2>2 DEF GatePlan, TargetedPlan, TypeOK, Run
    <3> QED BY <3>1 DEF Of
  <2> QED BY <2>1, <2>2
<1>5. CASE Apply
  BY <1>5, LeafDone DEF Apply
<1>6. CASE Finish \/ Exit
  BY <1>6, CommandOver
<1>7. CASE UNCHANGED vars
  BY <1>7 DEF vars, Of
<1> QED BY <1>1, <1>2, <1>3, <1>4, <1>5, <1>6, <1>7 DEF Next

(* What passes the gate holds no refused action, also for its targets alone, *)
(* and the ids of the imports lead to the right objects.                     *)
LEMMA GateGives ==
    ASSUME TypeOK, OneLeafAtATime, run.pc = "plan",
           NEW plan, plan = PlanOf(Of(Current), run.imports), Beyond(plan) = {}
    PROVE  /\ PendingSafe(plan) = {} => Changing(plan, Refused) = {}
           /\ Changing(PlanOf(Targeted(run.imports), run.imports), Refused) = {}
           /\ ~run.opts.updates => \A r \in run.imports : live[r] \notin {"renamed", "foreign"}
<1> DEFINE T == Targeted(run.imports)
<1>1. run.imports \subseteq Of(Current) /\ \A r \in run.imports : Kind[r] \in Imported
  BY CurrentIs DEF OneLeafAtATime, Importing
<1>2. /\ run.imports \subseteq T /\ T \subseteq Of(Current)
      /\ \A r \in T : Kind[r] # "runner"
  BY <1>1, TargetsStay
<1>3. run.imports \subseteq Resources
  BY DEF TypeOK, Run
<1> HIDE DEF T
<1>4. \A r \in Resources : plan[r] \in Refused => r \in PendingSafe(plan)
  BY DEF Beyond, Refused, Changing
<1>5. \A r \in PendingSafe(plan) : r \notin T
  BY <1>2 DEF PendingSafe
<1>6. \A r \in Resources \cap T : PlanOf(T, run.imports)[r] = plan[r]
  BY <1>2, PlansAgree
<1>7. \A r \in Resources \ T : PlanOf(T, run.imports)[r] = "none"
  BY DEF PlanOf
<1>8. Changing(PlanOf(T, run.imports), Refused) = {}
  BY <1>4, <1>5, <1>6, <1>7 DEF Changing, Refused
<1>9. ~run.opts.updates => \A r \in run.imports : live[r] \notin {"renamed", "foreign"}
  BY <1>1, <1>2, <1>3, <1>8, WrongObjectShows DEF Refused, Changing
<1> QED BY <1>4, <1>8, <1>9 DEF Changing, T

(* From the gate to the apply the plan stays good, unless an object changes. *)
LEMMA NextGate ==
    ASSUME TypeOK, OneLeafAtATime, GateHolds, RightIds, [Next]_vars
    PROVE  GateHolds' /\ RightIds'
<1>1. ASSUME NEW r \in Resources, NEW what \in Live, Drift(r, what)
      PROVE  GateHolds' /\ RightIds'
  BY <1>1 DEF Drift, GateHolds, RightIds, TypeOK
<1>2. ASSUME run'.pc \in {"idle", "loop", "plan", "exit"}
      PROVE  GateHolds' /\ RightIds'
  BY <1>2 DEF GateHolds, RightIds
<1>3. ASSUME NEW opts \in Options, NEW given \in Choices, Start(opts, given)
      PROVE  GateHolds' /\ RightIds'
  BY <1>2, <1>3 DEF Start, Idle
<1>4. ASSUME NEW l \in Leaves, Consider(l)
      PROVE  GateHolds' /\ RightIds'
  <2>1. CASE Refuse(l) \/ PassOver(l)
    BY <1>2, <2>1, LeafDone
  <2>2. CASE ~(Refuse(l) \/ PassOver(l))
    BY <1>2, <1>4, <2>2 DEF Consider, TypeOK, Run
  <2> QED BY <2>1, <2>2
<1>5. CASE GatePlan
  <2> DEFINE plan == PlanOf(Of(Current), run.imports)
  <2>1. \/ Refuse(Current)
        \/ /\ Beyond(plan) = {} /\ PendingSafe(plan) = {}
           /\ run' = [run EXCEPT !.pc = "apply", !.plan = plan]
        \/ /\ Beyond(plan) = {}
           /\ run' = [run EXCEPT !.pc = "replan", !.targets = Flags]
    BY <1>5 DEF GatePlan
  <2>2. run.pc = "plan" /\ UNCHANGED <<live, bound, raced>>
    BY <1>5 DEF GatePlan
  <2> HIDE DEF plan
  <2>3. Beyond(plan) = {} =>
           /\ PendingSafe(plan) = {} => Changing(plan, Refused) = {}
           /\ Changing(PlanOf(Targeted(run.imports), run.imports), Refused) = {}
           /\ ~run.opts.updates =>
                 \A r \in run.imports : live[r] \notin {"renamed", "foreign"}
    BY <2>2, GateGives DEF plan
  <2>4. CASE Refuse(Current)
    BY <1>2, <2>4, LeafDone
  <2>5. CASE /\ Beyond(plan) = {} /\ PendingSafe(plan) = {}
             /\ run' = [run EXCEPT !.pc = "apply", !.plan = plan]
    <3>1. /\ run'.pc = "apply" /\ run'.plan = plan /\ run'.opts = run.opts
          /\ run'.imports = run.imports
      BY <2>5 DEF TypeOK, Run
    <3> QED BY <2>2, <2>3, <2>5, <3>1 DEF GateHolds, RightIds, Refused, Changing
  <2>6. CASE /\ Beyond(plan) = {}
             /\ run' = [run EXCEPT !.pc = "replan", !.targets = Flags]
    <3>1. /\ run'.pc = "replan" /\ run'.opts = run.opts /\ run'.imports = run.imports
      BY <2>6 DEF TypeOK, Run
    <3>2. PlanOf(Targeted(run.imports), run.imports)' = PlanOf(Targeted(run.imports), run.imports)
      BY <2>2, <3>1 DEF PlanOf, ActionOn, Targeted
    <3> QED BY <2>2, <2>3, <2>6, <3>1, <3>2 DEF GateHolds, RightIds, Refused, Changing
  <2> QED BY <2>1, <2>4, <2>5, <2>6
<1>6. CASE TargetedPlan
  <2> DEFINE plan == PlanOf(Targeted(run.imports), run.imports)
  <2>1. CASE Refuse(Current)
    BY <1>2, <2>1, LeafDone
  <2>2. CASE run' = [run EXCEPT !.pc = "apply", !.plan = plan]
    <3>1. run.pc = "replan" /\ UNCHANGED <<live, bound, raced>>
      BY <1>6 DEF TargetedPlan
    <3> HIDE DEF plan
    <3>2. /\ run'.pc = "apply" /\ run'.plan = plan /\ run'.opts = run.opts
          /\ run'.imports = run.imports
      BY <2>2 DEF TypeOK, Run
    <3>3. ~raced => Changing(plan, Refused) = {}
      BY <3>1 DEF plan, GateHolds
    <3> QED BY <3>1, <3>2, <3>3 DEF GateHolds, RightIds, Refused, Changing
  <2> QED BY <1>6, <2>1, <2>2 DEF TargetedPlan
<1>7. CASE Apply
  BY <1>2, <1>7, LeafDone DEF Apply
<1>8. CASE Finish \/ Exit
  BY <1>2, <1>8, CommandOver
<1>9. CASE UNCHANGED vars
  BY <1>9 DEF vars, GateHolds, RightIds, Refused, Changing, PlanOf, ActionOn, Targeted
<1> QED BY <1>1, <1>3, <1>4, <1>5, <1>6, <1>7, <1>8, <1>9 DEF Next

(* Only an apply writes the history, and it does no more than its plan. *)
LEMMA NextPure ==
    ASSUME TypeOK, GateHolds, RightIds, PureImport, RightObject, [Next]_vars
    PROVE  PureImport' /\ RightObject'
<1>1. CASE Apply
  <2>1. UNCHANGED raced /\ run.pc = "apply"
    BY <1>1 DEF Apply
  <2>2. \/ raced
        \/ /\ Changing(run.plan, {"create", "replace"}) = {}
           /\ Changing(run.plan, {"delete", "replace"}) = {}
    BY <2>1 DEF GateHolds, Changing, Refused
  <2>3. ~raced => created' = {} /\ destroyed' = {}
    BY <1>1, <2>2 DEF Apply, PureImport
  <2>4. ~raced => misbound' = {}
    BY <1>1, <2>1 DEF Apply, RightIds, RightObject
  <2> QED BY <2>1, <2>3, <2>4 DEF PureImport, RightObject
<1>2. ASSUME NEW r \in Resources, NEW what \in Live, Drift(r, what)
      PROVE  PureImport' /\ RightObject'
  BY <1>2 DEF Drift, history, PureImport, RightObject, TypeOK
<1>3. ASSUME NEW opts \in Options, NEW given \in Choices, Start(opts, given)
      PROVE  PureImport' /\ RightObject'
  BY <1>3 DEF Start, PureImport, RightObject
<1>4. ASSUME UNCHANGED <<raced, history>>
      PROVE  PureImport' /\ RightObject'
  BY <1>4 DEF history, PureImport, RightObject
<1>5. ASSUME NEW l \in Leaves, Consider(l)
      PROVE  PureImport' /\ RightObject'
  BY <1>4, <1>5 DEF Consider
<1>6. CASE GatePlan \/ TargetedPlan \/ Finish \/ Exit
  BY <1>4, <1>6 DEF GatePlan, TargetedPlan, Finish, Exit
<1>7. CASE UNCHANGED vars
  BY <1>4, <1>7 DEF vars, history
<1> QED BY <1>1, <1>2, <1>3, <1>5, <1>6, <1>7 DEF Next

LEMMA NextIInv == IInv /\ [Next]_vars => IInv'
  BY NextTypes, NextOneLeaf, NextGate, NextPure DEF IInv

-----------------------------------------------------------------------------
THEOREM Invariance == Spec => []IInv
  BY InitIInv, NextIInv, PTL DEF Spec

(* The command's record and its histories are well typed throughout. *)
THEOREM TypeCorrect == Spec => []TypeOK
<1>1. IInv => TypeOK
  BY DEF IInv
<1> QED BY <1>1, Invariance, PTL

(* An adoption creates and destroys nothing, unless somebody changes a live *)
(* object between its gate and its apply.                                   *)
THEOREM AdoptionIsPure == Spec => []PureImport
<1>1. IInv => PureImport
  BY DEF IInv
<1> QED BY <1>1, Invariance, PTL

(* Without --allow-updates no address is bound to an object that is not the *)
(* one it declares, under the same proviso.                                 *)
THEOREM AdoptionBindsRight == Spec => []RightObject
<1>1. IInv => RightObject
  BY DEF IInv
<1> QED BY <1>1, Invariance, PTL

-----------------------------------------------------------------------------
(* XoaDisks: the inductive invariant *)

Calling == [m : {"call"}, call : Call, st : Replies]
Busy    == {"look", "plan", "set", "call", "halting", "booting", "verify"}
Acting  == Busy \ {"look"}
Sizing  == Acting \ {"plan"}

DiskTypes ==
    /\ world \in Worlds /\ power \in [Vms -> Power] /\ size \in [Disks -> Sizes]
    /\ cli \in [Terms -> Cli] /\ rpc \in [Terms -> Calling \union {NoCall}] /\ late \subseteq Call

(* A command that is about a host has it, and the VM it found for it, and only
   plans disks of that VM. *)
About(c) ==
    /\ c.pc \in Busy => c.host \in Hosts
    /\ c.pc \in Acting => c.vm \in Vms
    /\ c.pc \in {"idle", "look"} => c.plan = {} /\ ~c.startedHalt
    /\ c.pc = "booting" => c.plan = {}
    /\ \A d \in c.plan : On[d] = c.vm /\ c.goal[VdiName[d]] > 0

(* A call it waits for is there; it boots when all disks of its plan are done. *)
Waits(c, r) ==
    /\ c.pc = "call" => r # NoCall /\ (r.call.m = "vm.start" => c.plan = {})
    /\ c.pc = "verify" => r # NoCall /\ r.call.m = "vdi.set"

(* What it shut down it remembers, and boots nothing else. *)
Remembers(c) ==
    /\ c.startedHalt => c.vm \in c.stopped
    /\ c.pc = "halting" => c.vm \in c.stopped
    /\ c.pc = "idle" => c.asked = {}
    /\ c.op \in {"reconcile", "resize"} => c.asked \subseteq c.stopped

(* A host that has a large enough disk of every name it declares. *)
Grown(h) ==
    \A n \in VdiNames : world.goal[h][n] > 0 =>
        \E d \in Disks : /\ On[d] = FindVm(h, TRUE) /\ VdiName[d] = n
                         /\ size[d] >= world.goal[h][n]

(* Of every declared name a disk of the VM is to be grown, or large enough. *)
Served(c) ==
    \A n \in VdiNames : c.goal[n] > 0 =>
        \E d \in Disks : /\ On[d] = c.vm /\ VdiName[d] = n
                         /\ d \in c.plan \/ size[d] >= c.goal[n]

(* The reconciler: what it is about is what is declared of the host. *)
Planned(c) ==
    c.op = "reconcile" =>
        /\ c.pc \in Busy => c.goal = world.goal[c.host]
        /\ c.pc \in Acting => c.vm = FindVm(c.host, TRUE)
        /\ c.pc = "done" /\ c.allOk => c.todo = {}

(* As long as nothing failed, the hosts behind it are grown, and of the host it
   is about so is a disk of every name that is not in its plan. *)
Progress(c) ==
    c.op = "reconcile" /\ ~c.dry =>
        /\ c.allOk => \A h \in c.names : h \in c.todo \/ (c.pc \in Busy /\ h = c.host) \/ Grown(h)
        /\ c.pc \in Sizing /\ c.ok => Served(c)

Sound(c, r) == About(c) /\ Waits(c, r) /\ Remembers(c) /\ Planned(c) /\ Progress(c)

DiskInv == DiskTypes /\ \A t \in Terms : Sound(cli[t], rpc[t])

-----------------------------------------------------------------------------
(* What holds of a command between two calls, wherever it is. *)
Past(c) ==
    /\ c.op \in {"reconcile", "resize"} => c.asked \subseteq c.stopped
    /\ c.op = "reconcile" /\ ~c.dry /\ c.allOk =>
          \A h \in c.names : h \in c.todo \/ h = c.host \/ Grown(h)

Ready(c) ==
    /\ c.host \in Hosts /\ c.vm \in Vms
    /\ \A d \in c.plan : On[d] = c.vm /\ c.goal[VdiName[d]] > 0
    /\ c.startedHalt => c.vm \in c.stopped
    /\ c.op = "reconcile" => c.goal = world.goal[c.host] /\ c.vm = FindVm(c.host, TRUE)
    /\ c.op = "reconcile" /\ ~c.dry /\ c.ok => Served(c)
    /\ Past(c)

LEMMA IsPast == ASSUME NEW c, NEW r, Sound(c, r), c.pc \in Busy PROVE Past(c)
BY DEF Sound, Remembers, Progress, Past

LEMMA IsReady == ASSUME NEW c, NEW r, Sound(c, r), c.pc \in Sizing PROVE Ready(c)
<1>1. c.pc \in Busy /\ c.pc \in Acting
  BY DEF Sizing, Acting
<1>2. QED
  BY <1>1, IsPast DEF Sound, About, Remembers, Planned, Progress, Ready

LEMMA ReadyIsSound ==
    ASSUME NEW c, NEW r, Ready(c), c.pc \in Sizing, Waits(c, r),
           c.pc = "halting" => c.vm \in c.stopped, c.pc = "booting" => c.plan = {}
    PROVE  Sound(c, r)
<1>1. c.pc \in Busy /\ c.pc \in Acting /\ c.pc \notin {"idle", "look", "done"}
  BY DEF Sizing, Acting, Busy
<1>2. About(c)
  BY <1>1 DEF Ready, About
<1>3. Remembers(c)
  BY <1>1 DEF Ready, Past, Remembers
<1>4. Planned(c) /\ Progress(c)
  BY <1>1 DEF Ready, Past, Planned, Progress
<1>5. QED
  BY <1>2, <1>3, <1>4 DEF Sound

LEMMA WorldTypes ==
    ASSUME DiskTypes
    PROVE  /\ world \in World
           /\ \A h \in Hosts : world.goal[h] \in Goals /\ world.ipOf[h] \in Vms \union {NoVm}
           /\ NoVm \notin Vms
<1>1. world \in World /\ NoVm \notin Vms
  BY WorldAssumption DEF DiskTypes
<1>2. QED
  BY <1>1 DEF World

(* A lookup finds a VM of the pool or none. *)
LEMMA Found ==
    ASSUME DiskTypes, NEW h \in Hosts, NEW full \in BOOLEAN
    PROVE  FindVm(h, full) \in Vms \union {NoVm}
<1> DEFINE names == <<h>> \o (IF full THEN <<world.alias[h]>> ELSE <<>>) \o <<world.domain[h]>>
           used == {i \in DOMAIN names : Carrying(names[i]) # {}}
           dotted == {v \in Vms : world.label[v] \in Dotted[h]}
           only(s) == IF Cardinality(s) = 1 THEN CHOOSE v \in s : TRUE ELSE NoVm
           first == Carrying(names[CHOOSE i \in used : \A j \in used : i <= j])
           ip == IF full THEN world.ipOf[h] ELSE NoVm
<1>1. ASSUME NEW s \in SUBSET Vms PROVE only(s) \in Vms \union {NoVm}
  <2>1. CASE s = {}
    <3>1. Cardinality(s) # 1
      BY <2>1, FS_EmptySet
    <3>2. QED
      BY <3>1
  <2>2. CASE s # {}
    <3>1. (CHOOSE v \in s : TRUE) \in s
      BY <2>2
    <3>2. QED
      BY <3>1
  <2>3. QED
    BY <2>1, <2>2
<1>2. first \in SUBSET Vms /\ dotted \in SUBSET Vms
  BY DEF Carrying
<1>3. ip \in Vms \union {NoVm}
  BY WorldTypes
<1>4. FindVm(h, full) = IF used # {} THEN only(first)
                        ELSE IF Cardinality(dotted) = 1 THEN only(dotted) ELSE ip
  BY DEF FindVm
<1>5. only(first) \in Vms \union {NoVm} /\ only(dotted) \in Vms \union {NoVm}
  BY <1>1, <1>2
<1> HIDE DEF used, first, dotted, only, ip
<1>6. QED
  BY <1>3, <1>4, <1>5

Larger == \A d \in Disks : size'[d] >= size[d]

LEMMA SameLookup ==
    ASSUME world' = world, NEW h, NEW full
    PROVE  FindVm(h, full)' = FindVm(h, full)
BY DEF FindVm, Carrying

(* Disks only ever grow, so what is true of a command stays true while others
   act. *)
LEMMA StaysSound ==
    ASSUME DiskTypes, DiskTypes', world' = world, Larger,
           NEW c \in Cli, NEW r, Sound(c, r)
    PROVE  Sound(c, r)'
<1>1. \A h : FindVm(h, TRUE)' = FindVm(h, TRUE)
  BY SameLookup
<1>2. \A d \in Disks : size[d] \in Nat /\ size'[d] \in Nat /\ size'[d] >= size[d]
  BY DEF DiskTypes, Larger, Sizes
<1>3. c.goal \in [VdiNames -> Nat] /\ c.names \subseteq Hosts
  BY DEF Cli, Goals
<1>4. \A h \in Hosts, n \in VdiNames : world.goal[h][n] \in Nat
  BY WorldTypes DEF Goals
<1>5. ASSUME NEW h \in Hosts, Grown(h) PROVE Grown(h)'
  <2> SUFFICES ASSUME NEW n \in VdiNames, world.goal[h][n] > 0
               PROVE  \E d \in Disks : /\ On[d] = FindVm(h, TRUE)' /\ VdiName[d] = n
                                       /\ size'[d] >= world.goal[h][n]
    BY DEF Grown
  <2>1. PICK d \in Disks : /\ On[d] = FindVm(h, TRUE) /\ VdiName[d] = n
                           /\ size[d] >= world.goal[h][n]
    BY <1>5 DEF Grown
  <2>2. size'[d] >= world.goal[h][n]
    BY <1>2, <1>4, <2>1
  <2>3. QED
    BY <1>1, <2>1, <2>2
<1>6. About(c)' /\ Waits(c, r)' /\ Remembers(c)'
  BY DEF Sound, About, Waits, Remembers
<1>7. Planned(c)'
  BY <1>1 DEF Sound, Planned
<1>8. Progress(c)'
  <2>1. c.op = "reconcile" /\ ~c.dry /\ c.allOk =>
          \A h \in c.names : h \in c.todo \/ (c.pc \in Busy /\ h = c.host) \/ Grown(h)'
    BY <1>3, <1>5 DEF Sound, Progress
  <2>2. ASSUME Served(c) PROVE Served(c)'
    <3> SUFFICES ASSUME NEW n \in VdiNames, c.goal[n] > 0
                 PROVE  \E d \in Disks : /\ On[d] = c.vm /\ VdiName[d] = n
                                         /\ d \in c.plan \/ size'[d] >= c.goal[n]
      BY DEF Served
    <3>1. PICK d \in Disks : /\ On[d] = c.vm /\ VdiName[d] = n
                             /\ d \in c.plan \/ size[d] >= c.goal[n]
      BY <2>2 DEF Served
    <3>2. size[d] >= c.goal[n] => size'[d] >= c.goal[n]
      BY <1>2, <1>3
    <3>3. QED
      BY <3>1, <3>2
  <2>3. QED
    BY <2>1, <2>2 DEF Sound, Progress
<1>9. QED
  BY <1>6, <1>7, <1>8 DEF Sound

LEMMA Renamed ==
    ASSUME NEW c, NEW r, NEW t, cli'[t] = c, rpc'[t] = r, Sound(c, r)'
    PROVE  Sound(cli[t], rpc[t])'
<1>1. About(cli[t])'
  BY DEF Sound, About
<1>2. Waits(cli[t], rpc[t])'
  BY DEF Sound, Waits
<1>3. Remembers(cli[t])'
  BY DEF Sound, Remembers
<1>4. Planned(cli[t])'
  BY DEF Sound, Planned
<1>5. Progress(cli[t])'
  BY DEF Sound, Progress
<1>6. QED
  BY <1>1, <1>2, <1>3, <1>4, <1>5 DEF Sound

(* A step of one terminal: the others keep what they had. *)
LEMMA OneSteps ==
    ASSUME DiskInv, DiskTypes', world' = world, Larger, NEW t \in Terms,
           \A u \in Terms \ {t} : cli'[u] = cli[u] /\ rpc'[u] = rpc[u],
           NEW e \in Cli, NEW r, cli'[t] = e, rpc'[t] = r, Sound(e, r)
    PROVE  DiskInv'
<1>1. DiskTypes
  BY DEF DiskInv
<1>2. Sound(e, r)'
  BY <1>1, StaysSound
<1>3. ASSUME NEW u \in Terms PROVE Sound(cli[u], rpc[u])'
  <2>1. CASE u = t
    BY <1>2, <2>1, Renamed
  <2>2. CASE u # t
    <3>1. PICK c \in Cli : c = cli[u]
      BY DEF DiskInv, DiskTypes
    <3>2. PICK q : q = rpc[u]
      OBVIOUS
    <3>3. Sound(c, q)'
      BY <1>1, <3>1, <3>2, StaysSound DEF DiskInv
    <3>4. cli'[u] = c /\ rpc'[u] = q
      BY <2>2, <3>1, <3>2
    <3>5. QED
      BY <3>3, <3>4, Renamed
  <2>3. QED
    BY <2>1, <2>2
<1>4. QED
  BY <1>3 DEF DiskInv

(* The same where the pool itself does not change. *)
Quiet == UNCHANGED <<world, power, size>> /\ late' \subseteq Call

LEMMA QuietStep ==
    ASSUME DiskInv, NEW t \in Terms, Quiet, NEW e \in Cli, Put(t, e),
           NEW r \in Calling \union {NoCall},
           rpc' = [rpc EXCEPT ![t] = r] \/ (rpc' = rpc /\ r = rpc[t]), Sound(e, r)
    PROVE  DiskInv'
<1>1. DiskTypes
  BY DEF DiskInv
<1>2. cli' = [cli EXCEPT ![t] = e]
  BY DEF Put
<1>3. cli' \in [Terms -> Cli] /\ cli'[t] = e /\ \A u \in Terms \ {t} : cli'[u] = cli[u]
  BY <1>1, <1>2 DEF DiskTypes
<1>4. /\ rpc' \in [Terms -> Calling \union {NoCall}] /\ rpc'[t] = r
      /\ \A u \in Terms \ {t} : rpc'[u] = rpc[u]
  BY <1>1 DEF DiskTypes
<1>5. DiskTypes'
  BY <1>1, <1>3, <1>4 DEF DiskTypes, Quiet
<1>6. world' = world /\ Larger
  BY <1>1 DEF Quiet, Larger, DiskTypes, Sizes
<1>7. QED
  BY <1>3, <1>4, <1>5, <1>6, OneSteps

-----------------------------------------------------------------------------
(* What a command does of its own *)

LEMMA NextHost ==
    ASSUME DiskTypes, NEW c \in Cli, Past(c), NEW good \in BOOLEAN,
           good /\ c.op = "reconcile" /\ ~c.dry => Grown(c.host),
           NEW e \in AfterHost(c, good), NEW r
    PROVE  e \in Cli /\ Sound(e, r)
<1> DEFINE verdict == c.allOk /\ good
           none == [n \in VdiNames |-> 0]
           closed == [c EXCEPT !.host = NoVm, !.vm = NoVm, !.goal = none, !.seen = "Running",
                               !.plan = {}, !.ok = TRUE, !.allOk = verdict, !.startedHalt = FALSE]
<1>1. verdict \in BOOLEAN /\ none \in Goals
  <2>1. c.allOk \in BOOLEAN
    BY DEF Cli
  <2>2. none \in Goals
    BY WorldAssumption DEF Goals
  <2>3. QED
    BY <2>1, <2>2
<1>2. [Blank(c) EXCEPT !.allOk = verdict, !.startedHalt = FALSE] = closed
  BY DEF Blank, Cli
<1>3. verdict => c.allOk /\ good
  BY DEF Cli
<1> HIDE DEF verdict, none
<1>4. /\ closed \in Cli /\ closed.op = c.op /\ closed.names = c.names /\ closed.dry = c.dry
      /\ closed.stopped = c.stopped /\ closed.asked = c.asked /\ closed.todo = c.todo
      /\ closed.plan = {} /\ closed.startedHalt = FALSE /\ closed.allOk = verdict
  BY <1>1 DEF Cli, Power
<1> HIDE DEF closed
<1>5. AfterHost(c, good) =
        IF c.todo = {} THEN {[closed EXCEPT !.pc = "done"]}
        ELSE {[closed EXCEPT !.pc = "look", !.host = h, !.goal = world.goal[h],
                             !.todo = c.todo \ {h}] : h \in c.todo}
  BY <1>2 DEF AfterHost, verdict
<1>6. c.todo \subseteq Hosts /\ c.names \subseteq Hosts
  BY DEF Cli
<1>7. c.op = "reconcile" /\ ~c.dry /\ verdict => \A h \in c.names : h \in c.todo \/ Grown(h)
  BY <1>3 DEF Past
<1>8. CASE c.todo = {}
  <2>1. e = [closed EXCEPT !.pc = "done"]
    BY <1>5, <1>8
  <2>2. /\ e \in Cli /\ e.op = c.op /\ e.names = c.names /\ e.dry = c.dry
        /\ e.stopped = c.stopped /\ e.asked = c.asked /\ e.todo = {}
        /\ e.plan = {} /\ e.startedHalt = FALSE /\ e.allOk = verdict /\ e.pc = "done"
    BY <1>4, <1>8, <2>1 DEF Cli, XoaPcs
  <2>3. "done" \notin Busy /\ "done" \notin Acting /\ "done" \notin Sizing
    BY DEF Busy, Acting, Sizing
  <2>4. About(e) /\ Waits(e, r) /\ Planned(e)
    BY <2>2, <2>3 DEF About, Waits, Planned
  <2>5. Remembers(e)
    BY <2>2 DEF Past, Remembers
  <2>6. Progress(e)
    BY <1>7, <1>8, <2>2, <2>3 DEF Progress
  <2>7. QED
    BY <2>2, <2>4, <2>5, <2>6 DEF Sound
<1>9. CASE c.todo # {}
  <2>1. PICK h \in c.todo : e = [closed EXCEPT !.pc = "look", !.host = h, !.goal = world.goal[h],
                                               !.todo = c.todo \ {h}]
    BY <1>5, <1>9
  <2>2. world.goal[h] \in Goals /\ h \in Hosts
    BY <1>6, WorldTypes
  <2> DEFINE g == world.goal[h]
             rest == c.todo \ {h}
  <2>3. e = [closed EXCEPT !.pc = "look", !.host = h, !.goal = g, !.todo = rest]
    BY <2>1
  <2>4. g \in Goals /\ rest \in SUBSET Hosts /\ h \in Hosts
    BY <1>6, <2>2
  <2> HIDE DEF g, rest
  <2>5. /\ e \in Cli /\ e.op = c.op /\ e.names = c.names /\ e.dry = c.dry
        /\ e.stopped = c.stopped /\ e.asked = c.asked /\ e.todo = rest
        /\ e.plan = {} /\ e.startedHalt = FALSE /\ e.allOk = verdict /\ e.pc = "look"
        /\ e.host = h /\ e.goal = g
    BY <1>4, <2>3, <2>4 DEF Cli, XoaPcs
  <2>6. "look" \in Busy /\ "look" \notin Acting /\ "look" \notin Sizing
    BY DEF Busy, Acting, Sizing
  <2>7. About(e) /\ Waits(e, r)
    BY <2>4, <2>5, <2>6 DEF About, Waits
  <2>8. Planned(e)
    BY <2>5, <2>6 DEF Planned, g
  <2>9. Remembers(e)
    BY <2>5 DEF Past, Remembers
  <2>10. Progress(e)
    BY <1>7, <2>5, <2>6 DEF Progress, rest
  <2>11. QED
    BY <2>5, <2>7, <2>8, <2>9, <2>10 DEF Sound
<1>10. QED
  BY <1>8, <1>9

LEMMA ItsTypes ==
    ASSUME DiskInv, NEW t \in Terms
    PROVE  /\ DiskTypes /\ cli[t] \in Cli /\ rpc[t] \in Calling \union {NoCall}
           /\ Sound(cli[t], rpc[t])
BY DEF DiskInv, DiskTypes

LEMMA NoCallIsNone == NoCall \notin Calling /\ NoCall.st = "none"
BY DEF NoCall, Calling, Replies

LEMMA Finishes ==
    ASSUME DiskInv, NEW t \in Terms, Quiet, NEW c \in Cli, Past(c), NEW good \in BOOLEAN,
           good /\ c.op = "reconcile" /\ ~c.dry => Grown(c.host),
           NEW e \in AfterHost(c, good), Put(t, e),
           rpc' = rpc \/ rpc' = [rpc EXCEPT ![t] = NoCall]
    PROVE  DiskInv'
<1>1. DiskTypes /\ rpc[t] \in Calling \union {NoCall}
  BY ItsTypes
<1>2. e \in Cli /\ \A r : Sound(e, r)
  BY <1>1, NextHost
<1>3. CASE rpc' = rpc
  BY <1>1, <1>2, <1>3, QuietStep
<1>4. CASE rpc' = [rpc EXCEPT ![t] = NoCall]
  BY <1>2, <1>4, QuietStep
<1>5. QED
  BY <1>3, <1>4

LEMMA HostIsDone ==
    ASSUME DiskInv, NEW t \in Terms, Quiet, cli[t].pc \in Busy, NEW good \in BOOLEAN,
           good /\ cli[t].op = "reconcile" /\ ~cli[t].dry => Grown(cli[t].host),
           HostDone(t, good), rpc' = rpc \/ rpc' = [rpc EXCEPT ![t] = NoCall]
    PROVE  DiskInv'
<1>1. cli[t] \in Cli /\ Past(cli[t])
  BY ItsTypes, IsPast
<1>2. PICK e \in AfterHost(cli[t], good) : Put(t, e)
  BY DEF HostDone
<1>3. QED
  BY <1>1, <1>2, Finishes

LEMMA Errs ==
    ASSUME DiskInv, NEW t \in Terms, Quiet, cli[t].pc \in Busy, NEW fault \in BOOLEAN,
           Error(t, fault), rpc' = rpc \/ rpc' = [rpc EXCEPT ![t] = NoCall]
    PROVE  DiskInv'
<1> DEFINE f == cli[t].fault \/ fault
           lost == cli[t].lost \union (cli[t].stopped \ cli[t].asked)
           c == [cli[t] EXCEPT !.fault = f, !.lost = lost]
<1>1. cli[t] \in Cli /\ Past(cli[t])
  BY ItsTypes, IsPast
<1>2. f \in BOOLEAN /\ lost \in SUBSET Vms
  BY <1>1 DEF Cli
<1>3. PICK e \in AfterHost(c, FALSE) : Put(t, e)
  BY DEF Error
<1> HIDE DEF f, lost
<1>4. /\ c \in Cli /\ c.op = cli[t].op /\ c.names = cli[t].names /\ c.todo = cli[t].todo
      /\ c.host = cli[t].host /\ c.asked = cli[t].asked /\ c.stopped = cli[t].stopped
      /\ c.dry = cli[t].dry /\ c.allOk = cli[t].allOk
  BY <1>1, <1>2 DEF Cli
<1> HIDE DEF c
<1>5. Past(c)
  BY <1>1, <1>4 DEF Past
<1>6. QED
  BY <1>3, <1>4, <1>5, Finishes

LEMMA Sends ==
    ASSUME DiskInv, NEW t \in Terms, Quiet, NEW e \in Cli, Ready(e), NEW k \in Call,
           Send(t, k, e),
           k.m = "vm.start" => e.plan = {} /\ (e.op \in {"reconcile", "resize"} => k.on \in e.stopped)
    PROVE  DiskInv'
<1> DEFINE asked == IF k.m = "vm.start" THEN e.asked \union {k.on} ELSE e.asked
           f == [e EXCEPT !.pc = "call", !.asked = asked]
           r == [m |-> "call", call |-> k, st |-> "sent"]
<1>1. k.m = "vm.start" => k.on \in Vms
  BY DEF Call
<1>2. asked \in SUBSET Vms /\ (e.op \in {"reconcile", "resize"} => asked \subseteq e.stopped)
  BY <1>1 DEF Cli, Ready, Past
<1>3. Put(t, f) /\ rpc' = [rpc EXCEPT ![t] = r]
  BY DEF Send
<1>4. r \in Calling /\ r.call = k /\ r # NoCall
  BY NoCallIsNone DEF Calling, Replies
<1> HIDE DEF asked, r
<1>5. /\ f \in Cli /\ f.op = e.op /\ f.names = e.names /\ f.todo = e.todo /\ f.host = e.host
      /\ f.vm = e.vm /\ f.goal = e.goal /\ f.plan = e.plan /\ f.startedHalt = e.startedHalt
      /\ f.stopped = e.stopped /\ f.dry = e.dry /\ f.ok = e.ok /\ f.allOk = e.allOk
      /\ f.pc = "call" /\ f.asked = asked
  BY <1>2 DEF Cli, XoaPcs
<1> HIDE DEF f
<1>6. Ready(f)
  BY <1>2, <1>5 DEF Ready, Served, Past
<1>7. Waits(f, r)
  BY <1>4, <1>5 DEF Waits
<1>8. Sound(f, r)
  BY <1>5, <1>6, <1>7, ReadyIsSound DEF Sizing, Acting, Busy
<1>9. QED
  BY <1>3, <1>4, <1>5, <1>8, QuietStep

-----------------------------------------------------------------------------
(* Each action keeps the invariant *)

LEMMA BeginKeeps == ASSUME DiskInv, NEW t \in Terms, BeginAny(t) PROVE DiskInv'
<1>1. DiskTypes /\ cli[t] \in Cli /\ rpc[t] \in Calling \union {NoCall} /\ Sound(cli[t], rpc[t])
  BY ItsTypes
<1>2. ASSUME NEW op \in {"halt", "start", "reconcile", "resize"}, NEW h \in Hosts,
             NEW todo \in SUBSET Hosts, NEW mayHalt \in BOOLEAN, NEW dry \in BOOLEAN,
             NEW goal \in Goals, op = "reconcile" => goal = world.goal[h],
             Begin(t, op, h, todo, mayHalt, dry, goal)
      PROVE  DiskInv'
  <2> DEFINE names == todo \union {h}
             e == [cli[t] EXCEPT !.pc = "look", !.op = op, !.host = h, !.todo = todo,
                                 !.names = names, !.mayHalt = mayHalt, !.dry = dry, !.goal = goal]
  <2>1. cli[t].pc = "idle" /\ Put(t, e) /\ rpc' = rpc /\ Quiet
    BY <1>1, <1>2 DEF Begin, Quiet, DiskTypes
  <2>2. names \in SUBSET Hosts
    BY <1>2
  <2>3. cli[t].plan = {} /\ cli[t].startedHalt = FALSE /\ cli[t].asked = {}
    BY <1>1, <2>1 DEF Sound, About, Remembers, Cli
  <2>4. \A x \in names : x \in todo \/ x = h
    OBVIOUS
  <2> HIDE DEF names
  <2>5. /\ e \in Cli /\ e.pc = "look" /\ e.op = op /\ e.host = h /\ e.todo = todo
        /\ e.names = names /\ e.dry = dry /\ e.goal = goal /\ e.plan = {}
        /\ e.startedHalt = FALSE /\ e.asked = {}
    BY <1>1, <1>2, <2>2, <2>3 DEF Cli, XoaPcs
  <2> HIDE DEF e
  <2>6. "look" \in Busy /\ "look" \notin Acting /\ "look" \notin Sizing
    BY DEF Busy, Acting, Sizing
  <2>7. Sound(e, rpc[t])
    BY <1>2, <2>4, <2>5, <2>6 DEF Sound, About, Waits, Remembers, Planned, Progress
  <2>8. QED
    BY <1>1, <2>1, <2>5, <2>7, QuietStep
<1>3. [n \in VdiNames |-> 0] \in Goals
  BY WorldAssumption DEF Goals
<1>4. ASSUME NEW n \in VdiNames, NEW s \in Sizes
      PROVE  [m \in VdiNames |-> IF m = n THEN s ELSE 0] \in Goals
  BY WorldAssumption DEF Goals, Sizes
<1>5. \A h \in Hosts : world.goal[h] \in Goals
  BY <1>1, WorldTypes
<1>6. PICK h \in Hosts :
        \/ \E op \in {"halt", "start"} :
              Begin(t, op, h, {}, FALSE, FALSE, [n \in VdiNames |-> 0])
        \/ \E todo \in SUBSET (Hosts \ {h}), mh, dry \in BOOLEAN :
              Begin(t, "reconcile", h, todo, mh, dry, world.goal[h])
        \/ \E n \in VdiNames, s \in Sizes, mh \in BOOLEAN :
              Begin(t, "resize", h, {}, mh, FALSE, [m \in VdiNames |-> IF m = n THEN s ELSE 0])
  BY DEF BeginAny
<1>7. CASE \E op \in {"halt", "start"} : Begin(t, op, h, {}, FALSE, FALSE, [n \in VdiNames |-> 0])
  BY <1>2, <1>3, <1>7
<1>8. CASE \E todo \in SUBSET (Hosts \ {h}), mh, dry \in BOOLEAN :
              Begin(t, "reconcile", h, todo, mh, dry, world.goal[h])
  BY <1>2, <1>5, <1>8
<1>9. CASE \E n \in VdiNames, s \in Sizes, mh \in BOOLEAN :
              Begin(t, "resize", h, {}, mh, FALSE, [m \in VdiNames |-> IF m = n THEN s ELSE 0])
  BY <1>2, <1>4, <1>9
<1>10. QED
  BY <1>6, <1>7, <1>8, <1>9

LEMMA LookKeeps == ASSUME DiskInv, NEW t \in Terms, Look(t) PROVE DiskInv'
<1> DEFINE c == cli[t]
<1>1. DiskTypes /\ c \in Cli /\ rpc[t] \in Calling \union {NoCall} /\ Sound(c, rpc[t])
  BY ItsTypes
<1>2. c.pc = "look" /\ Quiet /\ c.pc \in Busy
  BY <1>1 DEF Look, Quiet, DiskTypes, Busy
<1>3. c.host \in Hosts /\ c.plan = {} /\ c.startedHalt = FALSE
  BY <1>1, <1>2 DEF Sound, About, Cli
<1>4. (c.op = "reconcile") \in BOOLEAN
  OBVIOUS
<1> DEFINE v == FindVm(c.host, c.op = "reconcile")
           p == power[v]
           e == [c EXCEPT !.vm = v, !.seen = p]
           g == [e EXCEPT !.pc = "plan"]
<1>5. v \in Vms \union {NoVm} /\ (c.op = "reconcile" => v = FindVm(c.host, TRUE))
  BY <1>1, <1>3, <1>4, Found
<1>6. \/ \E fault \in BOOLEAN : Error(t, fault) /\ rpc' = rpc
      \/ v # NoVm /\ Put(t, g) /\ rpc' = rpc
      \/ c.op \in {"halt", "start"} /\ HostDone(t, TRUE) /\ rpc' = rpc
      \/ v # NoVm /\ c.op = "halt" /\ Send(t, [m |-> "vm.stop", on |-> v, to |-> 0], e)
      \/ v # NoVm /\ c.op = "start" /\ Send(t, [m |-> "vm.start", on |-> v, to |-> 0], e)
  BY DEF Look
<1>7. CASE \E fault \in BOOLEAN : Error(t, fault) /\ rpc' = rpc
  BY <1>2, <1>7, Errs
<1>8. CASE c.op \in {"halt", "start"} /\ HostDone(t, TRUE) /\ rpc' = rpc
  <2>1. c.op # "reconcile"
    BY <1>8
  <2>2. QED
    BY <1>2, <1>8, <2>1, HostIsDone
<1>9. ASSUME v # NoVm
      PROVE  /\ e \in Cli /\ e.host = c.host /\ e.vm = v /\ e.plan = {} /\ e.startedHalt = FALSE
             /\ e.op = c.op /\ e.names = c.names /\ e.todo = c.todo /\ e.dry = c.dry
             /\ e.goal = c.goal /\ e.asked = c.asked /\ e.stopped = c.stopped
             /\ e.allOk = c.allOk /\ v \in Vms
  <2>1. v \in Vms /\ p \in Power
    BY <1>1, <1>5, <1>9 DEF DiskTypes
  <2> HIDE DEF v, p
  <2>2. QED
    BY <1>1, <1>3, <2>1 DEF Cli
<1>10. CASE v # NoVm /\ Put(t, g) /\ rpc' = rpc
  <2> HIDE DEF v, e
  <2>1. /\ g \in Cli /\ g.pc = "plan" /\ g.host = c.host /\ g.vm = v /\ g.plan = {}
        /\ g.startedHalt = FALSE
        /\ g.op = c.op /\ g.names = c.names /\ g.todo = c.todo /\ g.dry = c.dry
        /\ g.goal = c.goal /\ g.asked = c.asked /\ g.stopped = c.stopped
        /\ g.allOk = c.allOk /\ v \in Vms
    BY <1>9, <1>10 DEF Cli, XoaPcs
  <2> HIDE DEF g
  <2>2. "plan" \in Busy /\ "plan" \in Acting /\ "plan" \notin Sizing
    BY DEF Busy, Acting, Sizing
  <2>3. About(g) /\ Waits(g, rpc[t]) /\ Remembers(g)
    BY <1>1, <1>3, <2>1, <2>2 DEF Sound, About, Waits, Remembers
  <2>4. Planned(g)
    BY <1>1, <1>2, <1>5, <2>1, <2>2 DEF Sound, Planned
  <2>5. Progress(g)
    BY <1>1, <1>2, <2>1, <2>2 DEF Sound, Progress
  <2>6. Sound(g, rpc[t])
    BY <2>3, <2>4, <2>5 DEF Sound
  <2>7. QED
    BY <1>1, <1>2, <1>10, <2>1, <2>6, QuietStep
<1>11. CASE v # NoVm /\ c.op = "halt" /\ Send(t, [m |-> "vm.stop", on |-> v, to |-> 0], e)
  <2> HIDE DEF v, e
  <2>1. [m |-> "vm.stop", on |-> v, to |-> 0] \in Call
    BY <1>9, <1>11 DEF Call
  <2>2. Ready(e)
    BY <1>3, <1>9, <1>11 DEF Ready, Served, Past
  <2>3. QED
    BY <1>2, <1>9, <1>11, <2>1, <2>2, Sends
<1>12. CASE v # NoVm /\ c.op = "start" /\ Send(t, [m |-> "vm.start", on |-> v, to |-> 0], e)
  <2> HIDE DEF v, e
  <2>1. [m |-> "vm.start", on |-> v, to |-> 0] \in Call
    BY <1>9, <1>12 DEF Call
  <2>2. Ready(e)
    BY <1>3, <1>9, <1>12 DEF Ready, Served, Past
  <2>3. QED
    BY <1>2, <1>9, <1>12, <2>1, <2>2, Sends
<1>13. QED
  BY <1>6, <1>7, <1>8, <1>10, <1>11, <1>12

(* A host whose declared disks were all there and are all done is grown. *)
LEMMA AllDone ==
    ASSUME DiskTypes, NEW c \in Cli, Ready(c), c.plan = {}, c.op = "reconcile", ~c.dry, c.ok
    PROVE  Grown(c.host)
BY DEF Ready, Served, Grown

LEMMA PlanKeeps == ASSUME DiskInv, NEW t \in Terms, Plan(t) PROVE DiskInv'
<1> DEFINE c == cli[t]
<1>0. PICK found \in Listings(c.vm) :
        LET grow == {d \in found : size[d] < c.goal[VdiName[d]]}
            good == \A n \in VdiNames : c.goal[n] > 0 =>
                      \E d \in found : VdiName[d] = n /\ size[d] <= c.goal[n]
            planned == [c EXCEPT !.plan = grow, !.ok = good]
        IN  \/ Error(t, TRUE) /\ rpc' = rpc
            \/ (grow = {} \/ c.dry) /\ HostDone(t, good) /\ rpc' = rpc
            \/ HostDone(t, FALSE) /\ rpc' = rpc
            \/ Put(t, [planned EXCEPT !.pc = "set"]) /\ rpc' = rpc
            \/ Send(t, [m |-> "vm.stop", on |-> c.vm, to |-> 0], planned)
  BY DEF Plan
<1> DEFINE grow == {d \in found : size[d] < c.goal[VdiName[d]]}
           good == \A n \in VdiNames : c.goal[n] > 0 =>
                      \E d \in found : VdiName[d] = n /\ size[d] <= c.goal[n]
           e == [c EXCEPT !.plan = grow, !.ok = good]
           g == [e EXCEPT !.pc = "set"]
           stop == [m |-> "vm.stop", on |-> c.vm, to |-> 0]
<1>1. DiskTypes /\ c \in Cli /\ rpc[t] \in Calling \union {NoCall} /\ Sound(c, rpc[t])
  BY ItsTypes
<1>2. c.pc = "plan" /\ Quiet /\ c.pc \in Busy /\ c.pc \in Acting
  BY <1>1 DEF Plan, Quiet, DiskTypes, Busy, Acting
<1>3. /\ c.host \in Hosts /\ c.vm \in Vms /\ (c.startedHalt => c.vm \in c.stopped)
      /\ c.op = "reconcile" => c.goal = world.goal[c.host] /\ c.vm = FindVm(c.host, TRUE)
      /\ Past(c)
  BY <1>1, <1>2, IsPast DEF Sound, About, Remembers, Planned
<1>41. /\ found \subseteq Disks /\ \A d \in found : On[d] = c.vm
       /\ \A d \in Disks : size[d] \in Nat /\ size[d] > 0 /\ VdiName[d] \in VdiNames
       /\ \A n \in VdiNames : c.goal[n] \in Nat
  BY <1>1, WorldAssumption DEF Listings, DiskTypes, Sizes, Cli, Goals
<1>4. /\ grow \in SUBSET Disks /\ good \in BOOLEAN
      /\ \A d \in grow : On[d] = c.vm /\ c.goal[VdiName[d]] > 0
  BY <1>41
<1>5. ASSUME good, NEW n \in VdiNames, c.goal[n] > 0
      PROVE  \E d \in Disks : /\ On[d] = c.vm /\ VdiName[d] = n
                              /\ d \in grow \/ size[d] >= c.goal[n]
  <2>1. PICK d \in found : VdiName[d] = n /\ size[d] <= c.goal[n]
    BY <1>5
  <2>2. d \in grow \/ size[d] >= c.goal[n]
    BY <1>41, <2>1
  <2>3. QED
    BY <1>41, <2>1, <2>2
<1>6. ASSUME good, grow = {}, c.op = "reconcile" PROVE Grown(c.host)
  <2>1. c.goal = world.goal[c.host] /\ c.vm = FindVm(c.host, TRUE)
    BY <1>3, <1>6
  <2> SUFFICES ASSUME NEW n \in VdiNames, c.goal[n] > 0
               PROVE  \E d \in Disks : /\ On[d] = c.vm /\ VdiName[d] = n
                                       /\ size[d] >= c.goal[n]
    BY <2>1 DEF Grown
  <2>2. QED
    BY <1>5, <1>6
<1>7. \/ Error(t, TRUE) /\ rpc' = rpc
      \/ (grow = {} \/ c.dry) /\ HostDone(t, good) /\ rpc' = rpc
      \/ HostDone(t, FALSE) /\ rpc' = rpc
      \/ Put(t, g) /\ rpc' = rpc
      \/ Send(t, stop, e)
  BY <1>0
<1> HIDE DEF grow, good
<1>8. /\ e \in Cli /\ e.host = c.host /\ e.vm = c.vm /\ e.plan = grow /\ e.ok = good
      /\ e.startedHalt = c.startedHalt /\ e.op = c.op /\ e.names = c.names /\ e.todo = c.todo
      /\ e.dry = c.dry /\ e.goal = c.goal /\ e.asked = c.asked /\ e.stopped = c.stopped
      /\ e.allOk = c.allOk
  BY <1>1, <1>4 DEF Cli
<1> HIDE DEF e
<1>9. Ready(e)
  <2>1. e.ok => Served(e)
    BY <1>5, <1>8 DEF Served
  <2>2. QED
    BY <1>3, <1>4, <1>8, <2>1 DEF Ready, Past
<1>10. CASE Error(t, TRUE) /\ rpc' = rpc
  BY <1>2, <1>10, Errs
<1>11. CASE (grow = {} \/ c.dry) /\ HostDone(t, good) /\ rpc' = rpc
  BY <1>2, <1>4, <1>6, <1>11, HostIsDone
<1>12. CASE HostDone(t, FALSE) /\ rpc' = rpc
  BY <1>2, <1>12, HostIsDone
<1>13. CASE Put(t, g) /\ rpc' = rpc
  <2>1. /\ g \in Cli /\ g.pc = "set" /\ g.host = e.host /\ g.vm = e.vm /\ g.plan = e.plan
        /\ g.ok = e.ok /\ g.startedHalt = e.startedHalt /\ g.op = e.op /\ g.names = e.names
        /\ g.todo = e.todo /\ g.dry = e.dry /\ g.goal = e.goal /\ g.asked = e.asked
        /\ g.stopped = e.stopped /\ g.allOk = e.allOk
    BY <1>8 DEF Cli, XoaPcs
  <2> HIDE DEF g
  <2>2. Ready(g)
    BY <1>9, <2>1 DEF Ready, Served, Past
  <2>3. Sound(g, rpc[t])
    BY <2>1, <2>2, ReadyIsSound DEF Waits, Sizing, Acting, Busy
  <2>4. QED
    BY <1>1, <1>2, <1>13, <2>1, <2>3, QuietStep
<1>14. CASE Send(t, stop, e)
  <2>1. stop \in Call /\ stop.m = "vm.stop"
    BY <1>3 DEF Call
  <2> HIDE DEF stop
  <2>2. QED
    BY <1>2, <1>8, <1>9, <1>14, <2>1, Sends
<1>15. QED
  BY <1>7, <1>10, <1>11, <1>12, <1>13, <1>14

LEMMA SetOrBootKeeps == ASSUME DiskInv, NEW t \in Terms, SetOrBoot(t) PROVE DiskInv'
<1> DEFINE c == cli[t]
<1>1. DiskTypes /\ c \in Cli /\ rpc[t] \in Calling \union {NoCall} /\ Sound(c, rpc[t])
  BY ItsTypes
<1>2. c.pc = "set" /\ Quiet /\ c.pc \in Busy /\ c.pc \in Sizing
  BY <1>1 DEF SetOrBoot, Quiet, DiskTypes, Busy, Acting, Sizing
<1>3. Ready(c)
  BY <1>1, <1>2, IsReady
<1>4. CASE \E d \in c.plan : Send(t, [m |-> "vdi.set", on |-> d, to |-> c.goal[VdiName[d]]], c)
  <2>1. PICK d \in c.plan : Send(t, [m |-> "vdi.set", on |-> d, to |-> c.goal[VdiName[d]]], c)
    BY <1>4
  <2>2. d \in Disks /\ On[d] # NoVm /\ c.goal[VdiName[d]] \in Sizes
    <3>1. d \in Disks /\ c.goal[VdiName[d]] \in 0 .. MaxSize
      BY <1>1, WorldAssumption DEF Cli, Goals
    <3>2. On[d] \in Vms /\ c.goal[VdiName[d]] > 0
      BY <1>3 DEF Ready
    <3>3. QED
      BY <3>1, <3>2, WorldAssumption DEF Sizes
  <2> DEFINE k == [m |-> "vdi.set", on |-> d, to |-> c.goal[VdiName[d]]]
  <2>3. k \in Call /\ k.m = "vdi.set" /\ Send(t, k, c)
    BY <2>1, <2>2 DEF Call
  <2> HIDE DEF k
  <2>4. QED
    BY <1>1, <1>2, <1>3, <2>3, Sends
<1>5. CASE /\ c.plan = {} /\ c.startedHalt
           /\ Send(t, [m |-> "vm.start", on |-> c.vm, to |-> 0], c)
  <2> DEFINE k == [m |-> "vm.start", on |-> c.vm, to |-> 0]
  <2>1. k \in Call /\ k.on = c.vm /\ Send(t, k, c)
    BY <1>3, <1>5 DEF Call, Ready
  <2>2. c.vm \in c.stopped
    BY <1>3, <1>5 DEF Ready
  <2> HIDE DEF k
  <2>3. QED
    BY <1>1, <1>2, <1>3, <1>5, <2>1, <2>2, Sends
<1>6. CASE c.plan = {} /\ HostDone(t, c.ok) /\ rpc' = rpc
  <2>1. c.ok \in BOOLEAN
    BY <1>1 DEF Cli
  <2>2. c.ok /\ c.op = "reconcile" /\ ~c.dry => Grown(c.host)
    BY <1>1, <1>3, <1>6, AllDone
  <2>3. QED
    BY <1>2, <1>6, <2>1, <2>2, HostIsDone
<1>7. QED
  BY <1>4, <1>5, <1>6 DEF SetOrBoot

LEMMA ReplyKeeps == ASSUME DiskInv, NEW t \in Terms, Reply(t) PROVE DiskInv'
<1> DEFINE c == cli[t]
           r == rpc[t]
<1>1. DiskTypes /\ c \in Cli /\ r \in Calling \union {NoCall} /\ Sound(c, r)
  BY ItsTypes
<1>2. c.pc = "call" /\ Quiet /\ c.pc \in Busy /\ c.pc \in Sizing
  BY <1>1 DEF Reply, Quiet, DiskTypes, Busy, Acting, Sizing
<1>3. Ready(c)
  BY <1>1, <1>2, IsReady
<1>4. r \in Calling /\ r.call \in Call /\ (r.call.m = "vm.start" => c.plan = {})
  BY <1>1, <1>2 DEF Sound, Waits, Calling
<1>5. CASE r.st = "error"
  BY <1>2, <1>5, Errs DEF Reply
<1>6. CASE r.st # "error"
  <2> DEFINE m == r.call.m
             stopped == IF m = "vm.stop" THEN c.stopped \union {c.vm} ELSE c.stopped
             next == CASE m = "vm.stop" -> "halting" [] m = "vm.start" -> "booting"
                       [] m = "vdi.set" -> "verify"
             e == [c EXCEPT !.stopped = stopped, !.pc = next]
  <2>1. Put(t, e) /\ rpc' = IF m = "vdi.set" THEN rpc ELSE [rpc EXCEPT ![t] = NoCall]
    BY <1>6 DEF Reply
  <2>2. m \in {"vm.stop", "vm.start", "vdi.set"}
    BY <1>4 DEF Call
  <2>3. /\ stopped \in SUBSET Vms /\ c.stopped \subseteq stopped
        /\ m = "vm.stop" => c.vm \in stopped
    BY <1>1, <1>3 DEF Cli, Ready
  <2>4. /\ next \in {"halting", "booting", "verify"} /\ (next = "halting" => m = "vm.stop")
        /\ next = "booting" => m = "vm.start"
        /\ next = "verify" => m = "vdi.set"
    BY <2>2
  <2>5. m = "vm.start" => c.plan = {}
    BY <1>4
  <2> HIDE DEF stopped, next, m
  <2>6. /\ e \in Cli /\ e.host = c.host /\ e.vm = c.vm /\ e.plan = c.plan /\ e.ok = c.ok
        /\ e.startedHalt = c.startedHalt /\ e.op = c.op /\ e.names = c.names /\ e.todo = c.todo
        /\ e.dry = c.dry /\ e.goal = c.goal /\ e.asked = c.asked /\ e.stopped = stopped
        /\ e.allOk = c.allOk /\ e.pc = next
    BY <1>1, <2>3, <2>4 DEF Cli, XoaPcs
  <2> HIDE DEF e
  <2>7. Ready(e)
    BY <1>3, <2>3, <2>6 DEF Ready, Served, Past
  <2>8. e.pc \in Sizing /\ e.pc # "call"
    BY <2>4, <2>6 DEF Sizing, Acting, Busy
  <2>9. \A q : (m = "vdi.set" => q = r) => Sound(e, q)
    <3> TAKE q
    <3> HAVE m = "vdi.set" => q = r
    <3>1. Waits(e, q)
      BY <1>4, <2>4, <2>6, <2>8, NoCallIsNone DEF Waits, m
    <3>2. QED
      BY <2>3, <2>4, <2>5, <2>6, <2>7, <2>8, <3>1, ReadyIsSound
  <2>10. CASE m = "vdi.set"
    <3>1. Sound(e, r)
      BY <2>9
    <3>2. QED
      BY <1>1, <1>2, <2>1, <2>6, <2>10, <3>1, QuietStep
  <2>11. CASE m # "vdi.set"
    <3>1. Sound(e, NoCall)
      BY <2>9, <2>11
    <3>2. QED
      BY <1>2, <2>1, <2>6, <2>11, <3>1, QuietStep
  <2>12. QED
    BY <2>10, <2>11
<1>7. QED
  BY <1>5, <1>6

LEMMA GiveUpKeeps == ASSUME DiskInv, NEW t \in Terms, GiveUp(t) PROVE DiskInv'
<1>1. DiskTypes /\ rpc[t] \in Calling \union {NoCall}
  BY ItsTypes
<1>2. rpc[t].call \in Call
  BY <1>1, NoCallIsNone DEF GiveUp, Calling
<1>3. Quiet /\ cli[t].pc \in Busy
  BY <1>1, <1>2 DEF GiveUp, Quiet, DiskTypes, Busy
<1>4. QED
  BY <1>3, Errs DEF GiveUp

LEMMA KillKeeps == ASSUME DiskInv, NEW t \in Terms, Kill(t) PROVE DiskInv'
<1> DEFINE c == cli[t]
           none == [n \in VdiNames |-> 0]
           lost == c.lost \union (c.stopped \ c.asked)
           e == [c EXCEPT !.host = NoVm, !.vm = NoVm, !.goal = none, !.seen = "Running",
                          !.plan = {}, !.ok = TRUE, !.pc = "done", !.allOk = FALSE,
                          !.fault = TRUE, !.todo = {}, !.startedHalt = FALSE, !.lost = lost]
<1>1. DiskTypes /\ c \in Cli /\ rpc[t] \in Calling \union {NoCall} /\ Sound(c, rpc[t])
  BY ItsTypes
<1>2. rpc[t].st = "sent" => rpc[t].call \in Call
  BY <1>1, NoCallIsNone DEF Calling
<1>3. Quiet
  BY <1>1, <1>2 DEF Kill, Quiet, DiskTypes
<1>4. none \in Goals /\ lost \in SUBSET Vms
  BY <1>1, WorldAssumption DEF Goals, Cli
<1>5. Put(t, [Blank(c) EXCEPT !.pc = "done", !.allOk = FALSE, !.fault = TRUE,
                !.todo = {}, !.startedHalt = FALSE, !.lost = @ \union (c.stopped \ c.asked)])
  BY DEF Kill
<1>6. [Blank(c) EXCEPT !.pc = "done", !.allOk = FALSE, !.fault = TRUE,
         !.todo = {}, !.startedHalt = FALSE, !.lost = @ \union (c.stopped \ c.asked)] = e
  BY <1>1 DEF Blank, Cli
<1>7. Put(t, e) /\ rpc' = [rpc EXCEPT ![t] = NoCall]
  BY <1>5, <1>6 DEF Kill
<1> HIDE DEF none, lost
<1>8. /\ e \in Cli /\ e.op = c.op /\ e.pc = "done" /\ e.allOk = FALSE /\ e.plan = {}
      /\ e.startedHalt = FALSE /\ e.asked = c.asked /\ e.stopped = c.stopped
  BY <1>1, <1>4 DEF Cli, XoaPcs, Power
<1> HIDE DEF e
<1>9. "done" \notin Busy /\ "done" \notin Acting /\ "done" \notin Sizing
  BY DEF Busy, Acting, Sizing
<1>10. Sound(e, NoCall)
  BY <1>1, <1>8, <1>9 DEF Sound, About, Waits, Remembers, Planned, Progress
<1>11. QED
  BY <1>3, <1>7, <1>8, <1>10, QuietStep

LEMMA WaitKeeps == ASSUME DiskInv, NEW t \in Terms, Wait(t) PROVE DiskInv'
<1> DEFINE c == cli[t]
           e == [c EXCEPT !.pc = "set", !.startedHalt = TRUE]
<1>1. DiskTypes /\ c \in Cli /\ rpc[t] \in Calling \union {NoCall} /\ Sound(c, rpc[t])
  BY ItsTypes
<1>2. /\ c.pc \in {"halting", "booting"} /\ Quiet /\ c.pc \in Busy /\ c.pc \in Sizing
      /\ rpc' = rpc
  BY <1>1 DEF Wait, Quiet, DiskTypes, Busy, Acting, Sizing
<1>3. Ready(c)
  BY <1>1, <1>2, IsReady
<1>4. \/ \E fault \in BOOLEAN : Error(t, fault)
      \/ c.op = "halt" /\ HostDone(t, TRUE)
      \/ c.pc = "halting" /\ Put(t, e)
      \/ c.pc = "booting" /\ HostDone(t, c.ok)
  BY DEF Wait
<1>5. CASE \E fault \in BOOLEAN : Error(t, fault)
  BY <1>2, <1>5, Errs
<1>6. CASE c.op = "halt" /\ HostDone(t, TRUE)
  <2>1. c.op # "reconcile"
    BY <1>6
  <2>2. QED
    BY <1>2, <1>6, <2>1, HostIsDone
<1>7. CASE c.pc = "halting" /\ Put(t, e)
  <2>1. c.vm \in c.stopped
    BY <1>1, <1>7 DEF Sound, Remembers
  <2>2. /\ e \in Cli /\ e.host = c.host /\ e.vm = c.vm /\ e.plan = c.plan /\ e.ok = c.ok
        /\ e.op = c.op /\ e.names = c.names /\ e.todo = c.todo
        /\ e.dry = c.dry /\ e.goal = c.goal /\ e.asked = c.asked /\ e.stopped = c.stopped
        /\ e.allOk = c.allOk /\ e.pc = "set"
    BY <1>1 DEF Cli, XoaPcs
  <2> HIDE DEF e
  <2>3. Ready(e)
    BY <1>3, <2>1, <2>2 DEF Ready, Served, Past
  <2>4. Sound(e, rpc[t])
    BY <2>2, <2>3, ReadyIsSound DEF Waits, Sizing, Acting, Busy
  <2>5. QED
    BY <1>1, <1>2, <1>7, <2>2, <2>4, QuietStep
<1>8. CASE c.pc = "booting" /\ HostDone(t, c.ok)
  <2>1. c.ok \in BOOLEAN /\ c.plan = {}
    BY <1>1, <1>8 DEF Cli, Sound, About
  <2>2. c.ok /\ c.op = "reconcile" /\ ~c.dry => Grown(c.host)
    BY <1>1, <1>3, <2>1, AllDone
  <2>3. QED
    BY <1>2, <1>8, <2>1, <2>2, HostIsDone
<1>9. QED
  BY <1>4, <1>5, <1>6, <1>7, <1>8

LEMMA VerifyKeeps == ASSUME DiskInv, NEW t \in Terms, Verify(t) PROVE DiskInv'
<1> DEFINE c == cli[t]
           d == rpc[t].call.on
           grown == size[d] >= c.goal[VdiName[d]]
           rest == c.plan \ {d}
           ok == c.ok /\ grown
           e == [c EXCEPT !.pc = "set", !.plan = rest, !.ok = ok]
<1>1. DiskTypes /\ c \in Cli /\ rpc[t] \in Calling \union {NoCall} /\ Sound(c, rpc[t])
  BY ItsTypes
<1>2. /\ c.pc = "verify" /\ Quiet /\ c.pc \in Busy /\ c.pc \in Sizing
      /\ rpc' = [rpc EXCEPT ![t] = NoCall]
  BY <1>1 DEF Verify, Quiet, DiskTypes, Busy, Acting, Sizing
<1>3. Ready(c)
  BY <1>1, <1>2, IsReady
<1>4. Error(t, TRUE) \/ Put(t, e)
  BY DEF Verify
<1>5. CASE Error(t, TRUE)
  BY <1>2, <1>5, Errs
<1>6. CASE Put(t, e)
  <2>1. rest \in SUBSET Disks /\ rest \subseteq c.plan /\ ok \in BOOLEAN /\ (ok => c.ok /\ grown)
    <3>1. c.ok \in BOOLEAN /\ c.plan \in SUBSET Disks
      BY <1>1 DEF Cli
    <3>2. QED
      BY <3>1
  <2>2. \A x \in c.plan : x \in rest \/ x = d
    OBVIOUS
  <2> HIDE DEF rest, ok
  <2>3. /\ e \in Cli /\ e.host = c.host /\ e.vm = c.vm /\ e.plan = rest /\ e.ok = ok
        /\ e.startedHalt = c.startedHalt /\ e.op = c.op /\ e.names = c.names /\ e.todo = c.todo
        /\ e.dry = c.dry /\ e.goal = c.goal /\ e.asked = c.asked /\ e.stopped = c.stopped
        /\ e.allOk = c.allOk /\ e.pc = "set"
    BY <1>1, <2>1 DEF Cli, XoaPcs
  <2> HIDE DEF e
  <2>4. ASSUME e.op = "reconcile", ~e.dry, e.ok PROVE Served(e)
    <3> SUFFICES ASSUME NEW n \in VdiNames, c.goal[n] > 0
                 PROVE  \E x \in Disks : /\ On[x] = c.vm /\ VdiName[x] = n
                                         /\ x \in rest \/ size[x] >= c.goal[n]
      BY <2>3 DEF Served
    <3>1. c.ok /\ size[d] >= c.goal[VdiName[d]] /\ Served(c)
      BY <1>3, <2>1, <2>3, <2>4 DEF Ready
    <3>2. PICK x \in Disks : /\ On[x] = c.vm /\ VdiName[x] = n
                             /\ x \in c.plan \/ size[x] >= c.goal[n]
      BY <3>1 DEF Served
    <3>3. x \in rest \/ size[x] >= c.goal[n]
      BY <2>2, <3>1, <3>2
    <3>4. QED
      BY <3>2, <3>3
  <2>5. Ready(e)
    BY <1>3, <2>1, <2>3, <2>4 DEF Ready, Served, Past
  <2>6. Sound(e, NoCall)
    BY <2>3, <2>5, ReadyIsSound DEF Waits, Sizing, Acting, Busy
  <2>7. QED
    BY <1>2, <1>6, <2>3, <2>6, QuietStep
<1>7. QED
  BY <1>4, <1>5, <1>6

-----------------------------------------------------------------------------
(* What the pool and its people do *)

(* No call makes a disk smaller. *)
LEMMA Effects ==
    ASSUME DiskTypes, NEW k \in Call, Accepts(k), Effect(k)
    PROVE  power' \in [Vms -> Power] /\ size' \in [Disks -> Sizes] /\ Larger
<1>1. power \in [Vms -> Power] /\ size \in [Disks -> Sizes]
  BY DEF DiskTypes
<1>2. CASE k.m = "vdi.set"
  <2>1. k.on \in Disks /\ k.to \in Sizes /\ k.to >= size[k.on]
    BY <1>2 DEF Call, Accepts
  <2>2. power' = power /\ size' = [size EXCEPT ![k.on] = k.to]
    BY <1>2 DEF Effect
  <2>3. QED
    BY <1>1, <2>1, <2>2 DEF Larger, Sizes
<1>3. CASE k.m # "vdi.set"
  <2>1. k.on \in Vms
    BY <1>3 DEF Call
  <2>2. size' = size /\ power' = [power EXCEPT ![k.on] = IF k.m = "vm.stop" THEN "Halted" ELSE "Running"]
    BY <1>3 DEF Effect
  <2>3. power' \in [Vms -> Power]
    BY <1>1, <2>1, <2>2 DEF Power
  <2>4. QED
    BY <1>1, <2>2, <2>3 DEF Larger, Sizes
<1>4. QED
  BY <1>2, <1>3

LEMMA NobodySteps ==
    ASSUME DiskInv, world' = world, UNCHANGED <<cli, rpc>>, late' \subseteq Call,
           power' \in [Vms -> Power], size' \in [Disks -> Sizes], Larger
    PROVE  DiskInv'
<1>1. DiskTypes /\ DiskTypes'
  BY DEF DiskInv, DiskTypes
<1>2. ASSUME NEW u \in Terms PROVE Sound(cli[u], rpc[u])'
  <2>1. PICK c \in Cli : c = cli[u]
    BY <1>1 DEF DiskTypes
  <2>2. PICK q : q = rpc[u]
    OBVIOUS
  <2>3. Sound(c, q)'
    BY <1>1, <2>1, <2>2, StaysSound DEF DiskInv
  <2>4. QED
    BY <2>1, <2>2, <2>3, Renamed
<1>3. QED
  BY <1>1, <1>2 DEF DiskInv

LEMMA ServeKeeps == ASSUME DiskInv, NEW t \in Terms, Serve(t) PROVE DiskInv'
<1>1. DiskTypes /\ cli[t] \in Cli /\ rpc[t] \in Calling \union {NoCall} /\ Sound(cli[t], rpc[t])
  BY ItsTypes
<1>2. rpc[t] \in Calling /\ rpc[t].call \in Call /\ UNCHANGED <<world, cli, late>>
  BY <1>1, NoCallIsNone DEF Serve, Calling
<1>3. PICK st \in {"ok", "error"} : rpc' = [rpc EXCEPT ![t].st = st]
  BY DEF Serve
<1>4. power' \in [Vms -> Power] /\ size' \in [Disks -> Sizes] /\ Larger
  <2>1. CASE Accepts(rpc[t].call) /\ Effect(rpc[t].call)
    BY <1>1, <1>2, <2>1, Effects
  <2>2. CASE UNCHANGED <<power, size>>
    BY <1>1, <2>2 DEF DiskTypes, Larger, Sizes
  <2>3. QED
    BY <2>1, <2>2 DEF Serve
<1> DEFINE r == [rpc[t] EXCEPT !.st = st]
<1>5. r \in Calling /\ r.call = rpc[t].call /\ r # NoCall /\ rpc[t] # NoCall
  BY <1>2, NoCallIsNone DEF Calling, Replies
<1>6. rpc' = [rpc EXCEPT ![t] = r]
  BY <1>3
<1> HIDE DEF r
<1>7. /\ rpc' \in [Terms -> Calling \union {NoCall}] /\ rpc'[t] = r
      /\ \A u \in Terms \ {t} : rpc'[u] = rpc[u]
  BY <1>1, <1>5, <1>6 DEF DiskTypes
<1>8. DiskTypes'
  BY <1>1, <1>2, <1>4, <1>7 DEF DiskTypes
<1>9. Sound(cli[t], r)
  BY <1>1, <1>5 DEF Sound, Waits
<1>10. PICK c \in Cli : c = cli[t]
  BY <1>1
<1>11. cli'[t] = c /\ Sound(c, r) /\ \A u \in Terms \ {t} : cli'[u] = cli[u]
  BY <1>2, <1>9, <1>10
<1>12. QED
  BY <1>2, <1>4, <1>7, <1>8, <1>11, OneSteps

LEMMA ServeLateKeeps == ASSUME DiskInv, ServeLate PROVE DiskInv'
<1>1. DiskTypes /\ late \subseteq Call /\ UNCHANGED <<world, cli, rpc>>
  BY DEF DiskInv, DiskTypes, ServeLate
<1>2. PICK k \in late : /\ late' = late \ {k}
                        /\ IF Accepts(k) THEN Effect(k) ELSE UNCHANGED <<power, size>>
  BY DEF ServeLate
<1>3. power' \in [Vms -> Power] /\ size' \in [Disks -> Sizes] /\ Larger
  <2>1. CASE Accepts(k)
    BY <1>1, <1>2, <2>1, Effects
  <2>2. CASE ~Accepts(k)
    BY <1>1, <1>2, <2>2 DEF DiskTypes, Larger, Sizes
  <2>3. QED
    BY <2>1, <2>2
<1>4. QED
  BY <1>1, <1>2, <1>3, NobodySteps

LEMMA ConsoleKeeps == ASSUME DiskInv, ConsolePower \/ ConsoleGrow PROVE DiskInv'
<1>1. DiskTypes
  BY DEF DiskInv
<1>2. CASE ConsolePower
  <2>1. power' \in [Vms -> Power] /\ UNCHANGED <<world, size, cli, rpc, late>>
    BY <1>1, <1>2 DEF ConsolePower, DiskTypes
  <2>2. QED
    BY <1>1, <2>1, NobodySteps DEF DiskTypes, Larger, Sizes
<1>3. CASE ConsoleGrow
  <2>1. PICK d \in Disks : size[d] < MaxSize /\ size' = [size EXCEPT ![d] = @ + 1]
    BY <1>3 DEF ConsoleGrow
  <2>2. size[d] \in Sizes /\ size[d] + 1 \in Sizes
    BY <1>1, <2>1, WorldAssumption DEF DiskTypes, Sizes
  <2>3. size' \in [Disks -> Sizes] /\ Larger
    BY <1>1, <2>1, <2>2 DEF DiskTypes, Larger, Sizes
  <2>4. QED
    BY <1>1, <1>3, <2>3, NobodySteps DEF ConsoleGrow, DiskTypes
<1>4. QED
  BY <1>2, <1>3

LEMMA DisksBegin == ASSUME XoaInit PROVE DiskInv
<1> DEFINE none == [n \in VdiNames |-> 0]
           c == [pc |-> "idle", op |-> "none", names |-> {}, todo |-> {}, host |-> NoVm, vm |-> NoVm,
                 goal |-> none, mayHalt |-> FALSE, dry |-> FALSE,
                 seen |-> "Running", plan |-> {}, startedHalt |-> FALSE, ok |-> TRUE,
                 allOk |-> TRUE, stopped |-> {}, asked |-> {}, lost |-> {}, fault |-> FALSE]
<1>1. none \in Goals
  BY WorldAssumption DEF Goals
<1>2. cli = [t \in Terms |-> c] /\ rpc = [t \in Terms |-> NoCall]
  BY DEF XoaInit
<1> HIDE DEF none
<1>3. c \in Cli /\ c.pc = "idle" /\ c.op = "none" /\ c.plan = {} /\ c.startedHalt = FALSE /\ c.asked = {}
  BY <1>1 DEF Cli, XoaPcs, Power
<1> HIDE DEF c
<1>4. DiskTypes
  BY <1>2, <1>3 DEF XoaInit, DiskTypes
<1>5. Sound(c, NoCall)
  BY <1>3 DEF Sound, About, Waits, Remembers, Planned, Progress, Busy, Acting
<1>6. QED
  BY <1>2, <1>4, <1>5 DEF DiskInv

LEMMA DisksStep == ASSUME DiskInv, [XoaNext]_xoaVars PROVE DiskInv'
<1>1. ASSUME NEW t \in Terms, BeginAny(t) \/ Step(t) \/ Serve(t) \/ Kill(t) PROVE DiskInv'
  BY <1>1, BeginKeeps, LookKeeps, PlanKeeps, SetOrBootKeeps, ReplyKeeps, GiveUpKeeps, WaitKeeps,
     VerifyKeeps, ServeKeeps, KillKeeps DEF Step
<1>2. CASE ServeLate \/ ConsolePower \/ ConsoleGrow
  BY <1>2, ServeLateKeeps, ConsoleKeeps
<1>3. CASE UNCHANGED xoaVars
  BY <1>3, NobodySteps DEF xoaVars, DiskInv, DiskTypes, Larger, Sizes
<1>4. QED
  BY <1>1, <1>2, <1>3 DEF XoaNext

(* What every step of a terminal, of the pool and of its people keeps. *)
THEOREM DisksInvariance == XoaSpec => []DiskInv
<1>1. XoaInit => DiskInv
  BY DisksBegin
<1>2. DiskInv /\ [XoaNext]_xoaVars => DiskInv'
  BY DisksStep
<1>3. QED
  BY <1>1, <1>2, PTL DEF XoaSpec

(* The variables have their types; a call for a disk is for one of a VM. *)
THEOREM DisksTypeCorrect == XoaSpec => []XoaTypeOK
<1>1. DiskInv => XoaTypeOK
  <2> SUFFICES ASSUME DiskInv PROVE XoaTypeOK
    OBVIOUS
  <2>1. DiskTypes
    BY DEF DiskInv
  <2>2. \A t \in Terms : rpc[t] = NoCall \/ (rpc[t].call \in Call /\ rpc[t].st \in Replies)
    BY <2>1 DEF DiskTypes, Calling
  <2>3. QED
    BY <2>1, <2>2 DEF DiskTypes, XoaTypeOK
<1>2. QED
  BY <1>1, DisksInvariance, PTL

(* A reconciler that exits 0 left every declared disk of its hosts on the VM it
   found and at least as large as declared. *)
THEOREM HealthyIsGrown == XoaSpec => []HealthyMeansGrown
<1>1. DiskInv => HealthyMeansGrown
  <2> SUFFICES ASSUME DiskInv, NEW t \in Terms, cli[t].pc = "done", cli[t].op = "reconcile",
                      ~cli[t].dry, cli[t].allOk, NEW h \in cli[t].names
               PROVE  Grown(h)
    BY DEF HealthyMeansGrown, Grown
  <2>1. Sound(cli[t], rpc[t])
    BY DEF DiskInv
  <2>2. cli[t].todo = {} /\ cli[t].pc \notin Busy
    BY <2>1 DEF Sound, Planned, Busy
  <2>3. QED
    BY <2>1, <2>2 DEF Sound, Progress
<1>2. QED
  BY <1>1, DisksInvariance, PTL

(* A disk command boots no VM that it did not shut down itself. *)
THEOREM BootsItsOwn == XoaSpec => []BootsOnlyWhatItStopped
<1>1. DiskInv => BootsOnlyWhatItStopped
  BY DEF DiskInv, Sound, Remembers, BootsOnlyWhatItStopped
<1>2. QED
  BY <1>1, DisksInvariance, PTL
=============================================================================
