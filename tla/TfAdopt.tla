------------------------------- MODULE TfAdopt -------------------------------
(***************************************************************************)
(* `fleet deploy tf adopt` (fleet_launcher/tf_stacks.py): rebuild the      *)
(* state of leaf stacks from live infrastructure by importing what the     *)
(* rendered configuration declares.  The import id of a resource is        *)
(* derived or looked up, checked against the provider, and finally gated   *)
(* on the plan tofu makes of it.                                           *)
(*                                                                         *)
(* A resource stands for its address, for the object its import id leads   *)
(* to, and for what is found there.  Live objects may change at any time,  *)
(* a provider or the state backend may fail to answer, and an apply may    *)
(* stop half way.                                                          *)
(***************************************************************************)
EXTENDS FiniteSets, Integers

CONSTANTS
    Leaves,     \* leaf stacks the scope matches
    Resources,  \* addresses
    LeafOf,     \* [Resources -> Leaves]
    Kind,       \* [Resources -> Kinds]
    Needs,      \* [Resources -> SUBSET Resources]: what its configuration
                \* refers to, directly or not
    Choices,    \* sets of --target addresses the operator may give; {}: none
    MaxDrifts   \* bound on changes of live objects

Kinds == {
    "verified",     \* derived id, checked against the provider (kind True)
    "derived",      \* derived id, nothing to check (kind False)
    "lookup",       \* id fetched from the provider by name
    "manual",       \* no resolver
    "secret",       \* unimportable, a new one rotates a live value
    "runner",       \* unimportable, safe to create again (_RECREATE_SAFE)
    "undeclared"}   \* in the state only, no longer in the configuration

ASSUME KindAssumption == LeafOf \in [Resources -> Leaves] /\ Kind \in [Resources -> Kinds]
(* References stay within a stack.  A runner refers to the machine it runs for,
   and nothing that is imported refers to a runner. *)
ASSUME NeedsAssumption ==
    /\ Needs \in [Resources -> SUBSET Resources]
    /\ \A r \in Resources : \A d \in Needs[r] : LeafOf[d] = LeafOf[r]
    /\ \A r \in Resources : Kind[r] \in {"verified", "derived", "lookup"} =>
           \A d \in Needs[r] : Kind[d] # "runner"
ASSUME ChoiceAssumption == Choices \subseteq SUBSET Resources
ASSUME DriftAssumption == MaxDrifts \in Nat

VARIABLES
    live,       \* resource -> what its id leads to
    bound,      \* resources in the tofu states
    run,        \* the adopt command
    drifts,     \* number of changes of live objects
    raced,      \* history: an object changed between the gate and the apply
    created,    \* history: resources whose object the command created
    destroyed,  \* history: resources whose object the command destroyed
    misbound,   \* history: resources it bound to an object that is not theirs
    skipped     \* history: leaves it did not consider

vars == <<live, bound, run, drifts, raced, created, destroyed, misbound, skipped>>
history == <<created, destroyed, misbound>>

-----------------------------------------------------------------------------
(* absent: no such object; same: as declared; drifted: the declared object,
   in-place update needed; renamed: an object that is not the declared one,
   with another host name if its id is derived and under the same name if it
   was looked up, in-place update needed; foreign: likewise, and only a
   replacement makes it fit. *)
Live == {"absent", "same", "drifted", "renamed", "foreign"}
Imported == {"verified", "derived", "lookup"}
Declared == {r \in Resources : Kind[r] # "undeclared"}
Of(l) == {r \in Resources : LeafOf[r] = l}

(* What the code assigns to `targets` in the loop: -target=... strings, which
   are no addresses. *)
Flags == {"-target"}

Actions == {"none", "update", "create", "delete", "replace", "error"}
Options == [yes : BOOLEAN, merge : BOOLEAN, verify : BOOLEAN, updates : BOOLEAN]
Pcs == {"idle", "loop", "plan", "replan", "apply", "exit"}

Run == [pc : Pcs, opts : Options, given : SUBSET Resources,
        targets : SUBSET (Resources \cup Flags), todo : SUBSET Leaves,
        imports : SUBSET Resources, plan : [Resources -> Actions], rc : {0, 1}]

NoPlan == [r \in Resources |-> "none"]
Idle == [pc |-> "idle",
         opts |-> [yes |-> FALSE, merge |-> FALSE, verify |-> TRUE, updates |-> FALSE],
         given |-> {}, targets |-> {}, todo |-> {}, imports |-> {}, plan |-> NoPlan, rc |-> 0]

TypeOK ==
    /\ live \in [Resources -> Live]
    /\ bound \subseteq Resources
    /\ run \in Run
    /\ drifts \in 0 .. MaxDrifts
    /\ raced \in BOOLEAN
    /\ created \subseteq Resources /\ destroyed \subseteq Resources
    /\ misbound \subseteq Resources
    /\ skipped \subseteq Leaves

(* A lookup by name may find another object of that name: of two that share it
   list_vms_by_name keeps one. *)
Findable(r) == IF Kind[r] \in {"secret", "runner"} THEN {"absent"}
               ELSE IF Kind[r] = "undeclared" THEN {"same"}
               ELSE Live

Init ==
    /\ live \in {f \in [Resources -> Live] : \A r \in Resources : f[r] \in Findable(r)}
    /\ bound \in SUBSET Resources
    /\ run = Idle
    /\ drifts = 0
    /\ raced = FALSE
    /\ created = {} /\ destroyed = {} /\ misbound = {}
    /\ skipped = {}

-----------------------------------------------------------------------------
(* Somebody changes or replaces a live object. *)
Drift(r, what) ==
    /\ drifts < MaxDrifts
    /\ Kind[r] \in Imported
    /\ what \in Findable(r) \ {live[r]}
    /\ live' = [live EXCEPT ![r] = what]
    /\ drifts' = drifts + 1
    /\ raced' = (raced \/ run.pc \in {"replan", "apply"})
    /\ UNCHANGED <<bound, run, history, skipped>>

Start(opts, given) ==
    /\ run.pc = "idle"
    /\ run' = [Idle EXCEPT !.pc = "loop", !.opts = opts, !.given = given,
                           !.targets = given, !.todo = Leaves]
    /\ raced' = FALSE
    /\ created' = {} /\ destroyed' = {} /\ misbound' = {}
    /\ skipped' = {}
    /\ UNCHANGED <<live, bound, drifts>>

-----------------------------------------------------------------------------
(* _adopt_rows: the verdict on a declared resource that is not in state.  mute
   holds the resources whose provider does not answer or answers ambiguously. *)

Verdict(r, inState, mute) ==
    IF Kind[r] \in {"secret", "runner"} THEN "unimportable"
    ELSE IF r \in inState THEN "in-state"
    ELSE IF Kind[r] = "manual" \/ (Kind[r] = "lookup" /\ ~run.opts.verify) THEN "manual"
    ELSE IF Kind[r] = "derived" \/ ~run.opts.verify THEN "adopt"
    ELSE IF r \in mute THEN "unverified"
    ELSE IF live[r] = "absent" THEN "not-found"
    ELSE IF /\ Kind[r] = "verified" /\ ~run.opts.updates
            /\ live[r] \in {"renamed", "foreign"} THEN "mismatch"
    ELSE "adopt"

(* The rows of leaf l, limited to the targets. *)
Rows(l) == {r \in Declared \cap Of(l) : run.targets = {} \/ r \in run.targets}

(* What `tofu state list` may say: a failure lists nothing. *)
StateLists(l) == {bound \cap Of(l), {}}

Refuse(l) == run' = [run EXCEPT !.pc = "loop", !.todo = @ \ {l}, !.rc = 1]
PassOver(l) == run' = [run EXCEPT !.pc = "loop", !.todo = @ \ {l}]

(* One leaf up to the point where its state would be written. *)
Consider(l) ==
    /\ run.pc = "loop"
    /\ l \in run.todo
    /\ \E inState \in StateLists(l),
          mute \in SUBSET {r \in Of(l) : Kind[r] \in {"verified", "lookup"}} :
          LET adoptable == {r \in Rows(l) : Verdict(r, inState, mute) = "adopt"}
              mismatched == {r \in Rows(l) : Verdict(r, inState, mute) = "mismatch"}
          IN  IF mismatched # {} THEN Refuse(l)
              ELSE IF adoptable = {} \/ ~run.opts.yes THEN PassOver(l)
              ELSE IF inState # {} /\ ~run.opts.merge THEN Refuse(l)
              ELSE run' = [run EXCEPT !.pc = "plan", !.imports = adoptable]
    /\ skipped' = skipped \cup {k \in {l} : Rows(k) = {}}
    /\ UNCHANGED <<live, bound, drifts, raced, history>>

-----------------------------------------------------------------------------
(* Mutant: a no-op is listed as an action of the plan. *)
ActionOnNoOp(r, imports) == IF r \in bound THEN "no-op" ELSE "create"

(* tofu's plan for one resource: state, configuration and imports against  *)
(* what is live.                                                           *)
ActionOn(r, imports) ==
    IF r \in bound /\ Kind[r] = "undeclared" THEN "delete"
    ELSE IF r \in bound /\ Kind[r] \in {"secret", "runner"} THEN "none"
    ELSE IF r \notin bound \cup imports THEN "create"
    ELSE IF live[r] = "absent" THEN (IF r \in bound THEN "create" ELSE "error")
    ELSE IF live[r] = "foreign" THEN "replace"
    ELSE IF live[r] \in {"drifted", "renamed"} THEN "update"
    ELSE "none"

PlanOf(S, imports) ==
    [r \in Resources |-> IF r \in S /\ (r \in bound \/ r \in Declared)
                         THEN ActionOn(r, imports) ELSE "none"]

Changing(plan, actions) == {r \in Resources : plan[r] \in actions}

(* Creations of resources that are safe to leave pending. *)
PendingSafe(plan) == {r \in Changing(plan, {"create"}) : Kind[r] = "runner"}

(* Mutant: the gate looks at deletions only. *)
BeyondDeletes(plan) == Changing(plan, {"delete", "replace"})

(* What the gate finds beyond the imports. *)
Beyond(plan) ==
    (Changing(plan, {"create", "delete", "replace"}) \ PendingSafe(plan))
    \cup (IF run.opts.updates THEN {} ELSE Changing(plan, {"update"}))

(* The leaf whose state is being written. *)
Current == CHOOSE l \in run.todo : run.imports \subseteq Of(l)

(* Mutant: the full plan is applied although creations are pending. *)
GatePlanFull ==
    /\ run.pc = "plan"
    /\ LET plan == PlanOf(Of(Current), run.imports)
       IN  IF Changing(plan, {"error"}) # {} \/ Beyond(plan) # {} THEN Refuse(Current)
           ELSE run' = [run EXCEPT !.pc = "apply", !.plan = plan]
    /\ UNCHANGED <<live, bound, drifts, raced, history, skipped>>

(* The gate.  With creations pending, `targets` is overwritten for the second,
   targeted plan. *)
GatePlan ==
    /\ run.pc = "plan"
    /\ LET plan == PlanOf(Of(Current), run.imports)
       IN  IF Changing(plan, {"error"}) # {} \/ Beyond(plan) # {} THEN Refuse(Current)
           ELSE IF PendingSafe(plan) = {}
           THEN run' = [run EXCEPT !.pc = "apply", !.plan = plan]
           ELSE run' = [run EXCEPT !.pc = "replan", !.targets = Flags]
    /\ UNCHANGED <<live, bound, drifts, raced, history, skipped>>

(* -target takes what the targets refer to with them. *)
Targeted(imports) == imports \cup UNION {Needs[r] : r \in imports}

(* The second plan is not gated. *)
TargetedPlan ==
    /\ run.pc = "replan"
    /\ LET plan == PlanOf(Targeted(run.imports), run.imports)
       IN  IF Changing(plan, {"error"}) # {} THEN Refuse(Current)
           ELSE run' = [run EXCEPT !.pc = "apply", !.plan = plan]
    /\ UNCHANGED <<live, bound, drifts, raced, history, skipped>>

(* tofu apply of the saved plan, which may stop half way; done is what it did. *)
Apply ==
    /\ run.pc = "apply"
    /\ \E done \in SUBSET (run.imports \cup Changing(run.plan, Actions \ {"none"})) :
          LET doing(actions) == done \cap Changing(run.plan, actions)
              all == done = run.imports \cup Changing(run.plan, Actions \ {"none"})
          IN  /\ live' = [r \in Resources |->
                             IF r \in doing({"create", "update", "replace"}) THEN "same"
                             ELSE IF r \in doing({"delete"}) THEN "absent"
                             ELSE live[r]]
              /\ bound' = (bound \cup done) \ doing({"delete"})
              /\ created' = created \cup doing({"create", "replace"})
              /\ destroyed' = destroyed \cup doing({"delete", "replace"})
              /\ misbound' = IF run.opts.updates THEN misbound
                             ELSE misbound \cup {r \in done \cap run.imports :
                                                    live[r] \in {"renamed", "foreign"}}
              /\ IF all THEN PassOver(Current) ELSE Refuse(Current)
    /\ UNCHANGED <<drifts, raced, skipped>>

Finish ==
    /\ run.pc = "loop" /\ run.todo = {}
    /\ run' = [run EXCEPT !.pc = "exit", !.imports = {}, !.plan = NoPlan]
    /\ UNCHANGED <<live, bound, drifts, raced, history, skipped>>

Exit ==
    /\ run.pc = "exit"
    /\ run' = Idle
    /\ UNCHANGED <<live, bound, drifts, raced, history, skipped>>

-----------------------------------------------------------------------------
Next ==
    \/ \E r \in Resources, what \in Live : Drift(r, what)
    \/ \E opts \in Options, given \in Choices : Start(opts, given)
    \/ \E l \in Leaves : Consider(l)
    \/ GatePlan \/ TargetedPlan \/ Apply \/ Finish \/ Exit

Spec == Init /\ [][Next]_vars

-----------------------------------------------------------------------------
(* Properties.  raced excuses a change of a live object after the gate. *)

(* "Adoption must be a pure state operation": whatever the operator passes and
   the providers fail to answer, no object is created or destroyed -- no
   duplicate, no rotated secret, no runner executed, nothing replaced. *)
PureImport == ~raced => created = {} /\ destroyed = {}

(* Without --allow-updates, and even with --no-verify, no address is bound to an
   object other than the one the configuration means. *)
RightObject == ~raced => misbound = {}

(* "Rebuild tofu state from live infrastructure for matched leaves": without
   --target every leaf of the scope is considered. *)
EveryLeafConsidered == run.pc = "exit" /\ run.given = {} => skipped = {}
=============================================================================
