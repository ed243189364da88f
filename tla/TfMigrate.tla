------------------------------ MODULE TfMigrate ------------------------------
(***************************************************************************)
(* `fleet deploy tf migrate-backend` and the verbs it competes with        *)
(* (fleet_launcher/tf_stacks.py), for one leaf stack in one checkout.      *)
(*                                                                         *)
(* The settings declare a backend, config.tf.json carries the one it was   *)
(* rendered with, and .terraform binds the workdir to the one tofu really  *)
(* uses: tofu refuses to read or write a state while the last two differ.  *)
(* The settings may change at any time, several terminals run commands in  *)
(* the same workdir, a backend may be unreachable, a copy may lose         *)
(* resources, and a command may be killed between any two steps.  A        *)
(* command treats the leaves of its scope one after another and            *)
(* independently, so one leaf is enough.                                   *)
(***************************************************************************)
EXTENDS Integers

CONSTANTS
    Terminals,  \* processes that may run migrate-backend
    Backends,   \* the backends the settings may declare
    Restamps,   \* those that mint a lineage of their own (pg)
    Items,      \* resource instances, each with its attributes
    None        \* absent

ASSUME RestampAssumption == Restamps \subseteq Backends
ASSUME NoneAssumption == None \notin Backends \cup {"first"}

VARIABLES
    declared,   \* fleet.settings.backend
    config,     \* backend block of .tf/<leaf>/config.tf.json
    key,        \* settings recorded in the sidecar .cache.json
    bound,      \* backend recorded in .terraform/terraform.tfstate
    store,      \* backend -> the leaf's state in it
    dump,       \* <backup-dir>/<leaf>.pre-migrate.tfstate
    live,       \* instances that really exist
    mig,        \* terminal -> its migrate-backend command
    warned,     \* the operator was told "Do NOT apply"
    raced,      \* history: tofu ran between a migration's read and its check
    rebuilt     \* history: instances created although they existed

wd == <<config, key, bound>>
vars == <<declared, config, key, bound, store, dump, live, mig, warned, raced, rebuilt>>

-----------------------------------------------------------------------------
(* A state has a lineage: that of the fleet's first state, or the backend that
   minted it.  A backend without a state returns nothing. *)
Lineages == Backends \cup {"first"}
Tfstate == [items : SUBSET Items, lineage : Lineages \cup {None}]
Nothing == [items |-> {}, lineage |-> None]
ASSUME NoStateAssumption == None \notin Tfstate

Pcs == {"idle", "pin", "read", "stage", "repin", "dryDone", "confirm", "dump",
        "init", "verify"}
(* The state was read and is not verified yet. *)
Window == {"stage", "confirm", "dump", "init", "verify"}

(* old and before are locals of the command; alone is history: no other
   command overlapped. *)
Migration == [pc : Pcs, dry : BOOLEAN, old : Backends \cup {None}, before : Tfstate,
              alone : BOOLEAN]
Idle == [pc |-> "idle", dry |-> FALSE, old |-> None, before |-> Nothing, alone |-> TRUE]

TypeOK ==
    /\ declared \in Backends
    /\ config \in Backends \cup {None}
    /\ key \in Backends \cup {None}
    /\ bound \in Backends \cup {None}
    /\ store \in [Backends -> Tfstate]
    /\ dump \in Tfstate \cup {None}
    /\ live \subseteq Items
    /\ mig \in [Terminals -> Migration]
    /\ warned \in BOOLEAN /\ raced \in BOOLEAN
    /\ rebuilt \subseteq Items

(* A new leaf, or one that was applied before. *)
Init ==
    /\ declared \in Backends
    /\ \/ /\ config = None /\ live = {}
          /\ store = [b \in Backends |-> Nothing]
       \/ /\ config = declared /\ live \in SUBSET Items
          /\ store = [b \in Backends |-> IF b = declared
                                         THEN [items |-> live, lineage |-> "first"]
                                         ELSE Nothing]
    /\ key = config /\ bound = config
    /\ dump = None
    /\ mig = [t \in Terminals |-> Idle]
    /\ warned = FALSE /\ raced = FALSE
    /\ rebuilt = {}

-----------------------------------------------------------------------------
(* The operator edits fleet.settings.backend. *)
Declare(b) ==
    /\ b # declared
    /\ declared' = b
    /\ UNCHANGED <<wd, store, dump, live, mig, warned, raced, rebuilt>>

(* The operator moves a dump aside, never the one that is to be restored. *)
MoveAside ==
    /\ dump # None /\ ~warned
    /\ \A t \in Terminals : mig[t].pc = "idle"
    /\ dump' = None
    /\ UNCHANGED <<declared, wd, store, live, mig, warned, raced, rebuilt>>

(* Mutant: the sidecar is written without a fingerprint. *)
StageEmptyKey ==
    /\ config' = IF config # None /\ key = declared THEN config ELSE declared
    /\ key' = ""

(* _stage_json: rendered from the settings unless the sidecar says it is. *)
Stage ==
    /\ config' = IF config # None /\ key = declared THEN config ELSE declared
    /\ key' = declared

(* _ensure_init: only a workdir without .terraform is bound. *)
EnsureInit == bound' = IF bound = None THEN config' ELSE bound

(* Every migration that runs is overlapped by another command. *)
Overlap ==
    mig' = [t \in Terminals |-> IF mig[t].pc = "idle" THEN mig[t]
                                ELSE [mig[t] EXCEPT !.alone = FALSE]]

InWindow == \E t \in Terminals : mig[t].pc \in Window

(* preview, state-pull, ...: verbs that render and bind but write no state. *)
Preview ==
    /\ Stage
    /\ EnsureInit
    /\ Overlap
    /\ UNCHANGED <<declared, store, dump, live, warned, raced, rebuilt>>

(* apply: tofu creates instances the state does not have, as many as succeed.
   An operator who was told not to apply does not. *)
Apply ==
    /\ ~warned
    /\ Stage
    /\ EnsureInit
    /\ config' = bound'
    /\ \E made \in SUBSET (Items \ store[bound'].items) :
          /\ store' = [store EXCEPT ![bound'] =
                          [items |-> @.items \cup made,
                           lineage |-> IF @.lineage = None THEN bound' ELSE @.lineage]]
          /\ live' = live \cup made
          /\ rebuilt' = rebuilt \cup (made \cap live)
    /\ raced' = (raced \/ InWindow)
    /\ Overlap
    /\ UNCHANGED <<declared, dump, warned>>

(* tofu accepts a pushed state only with the lineage of the one it replaces. *)
Accepts(b, state) == store[b].lineage \in {None, state.lineage}

(* state-push of the dump, as the operator was told. *)
StatePush ==
    /\ warned /\ dump # None
    /\ Stage
    /\ EnsureInit
    /\ config' = bound'
    /\ Accepts(bound', dump)
    /\ store' = [store EXCEPT ![bound'] = dump]
    /\ warned' = FALSE
    /\ raced' = (raced \/ InWindow)
    /\ Overlap
    /\ UNCHANGED <<declared, dump, live, rebuilt>>

-----------------------------------------------------------------------------
(* migrate-backend: plan *)

At(t, pc) == mig[t].pc = pc
Goto(t, pc) == mig' = [mig EXCEPT ![t].pc = pc]
Stop(t) == mig' = [mig EXCEPT ![t] = Idle]

(* A leaf that was never initialised is skipped. *)
Migrate(t, dry) ==
    /\ At(t, "idle")
    /\ config # None /\ bound # None
    /\ mig' = [u \in Terminals |->
                  IF u = t THEN [Idle EXCEPT !.pc = "pin", !.dry = dry,
                                    !.alone = \A v \in Terminals : mig[v].pc = "idle"]
                  ELSE IF mig[u].pc = "idle" THEN mig[u]
                  ELSE [mig[u] EXCEPT !.alone = FALSE]]
    /\ UNCHANGED <<declared, wd, store, dump, live, warned, raced, rebuilt>>

(* _pin_config_to_initialised *)
Pin ==
    /\ config' = bound
    /\ key' = IF config = bound THEN key ELSE None
    /\ UNCHANGED bound

PlanPin(t) ==
    /\ At(t, "pin")
    /\ Pin
    /\ mig' = [mig EXCEPT ![t].pc = "read", ![t].old = bound]
    /\ UNCHANGED <<declared, store, dump, live, warned, raced, rebuilt>>

(* _state_identity: what `tofu state pull` may return.  None: the backend is
   unreachable, is not the one of config.tf.json, or has no state. *)
StatePull ==
    IF config = bound /\ store[bound].lineage # None THEN {store[bound], None} ELSE {None}

PlanRead(t) ==
    /\ At(t, "read")
    /\ \E state \in StatePull :
          IF state = None THEN Stop(t)
          ELSE mig' = [mig EXCEPT ![t].pc = "stage", ![t].before = state]
    /\ UNCHANGED <<declared, wd, store, dump, live, warned, raced, rebuilt>>

(* The sidecar is dropped and the configuration rendered; a failed build
   raises and ends the command. *)
PlanStage(t) ==
    /\ At(t, "stage")
    /\ \/ /\ config' = declared /\ key' = declared
          /\ IF mig[t].dry THEN Goto(t, "repin")
             ELSE IF declared = mig[t].old THEN Stop(t)
             ELSE Goto(t, "confirm")
       \/ /\ key' = None
          /\ Stop(t)
          /\ UNCHANGED config
    /\ UNCHANGED <<declared, bound, store, dump, live, warned, raced, rebuilt>>

PlanRepin(t) ==
    /\ At(t, "repin")
    /\ Pin
    /\ Goto(t, "dryDone")
    /\ UNCHANGED <<declared, store, dump, live, warned, raced, rebuilt>>

DryEnd(t) ==
    /\ At(t, "dryDone")
    /\ Stop(t)
    /\ UNCHANGED <<declared, wd, store, dump, live, warned, raced, rebuilt>>

(* The operator confirms or declines, or PG_CONN_STR is unset. *)
Confirm(t) ==
    /\ At(t, "confirm")
    /\ Goto(t, "dump") \/ Stop(t)
    /\ UNCHANGED <<declared, wd, store, dump, live, warned, raced, rebuilt>>

-----------------------------------------------------------------------------
(* migrate-backend: migrate *)

(* Mutant: an existing dump is overwritten. *)
DumpClobber(t) ==
    /\ At(t, "dump")
    /\ dump' = mig[t].before
    /\ Goto(t, "init")
    /\ UNCHANGED <<declared, wd, store, live, warned, raced, rebuilt>>

(* An existing dump is never overwritten: the leaf fails instead. *)
Dump(t) ==
    /\ At(t, "dump")
    /\ IF dump # None THEN Stop(t) /\ UNCHANGED dump
       ELSE Goto(t, "init") /\ dump' = mig[t].before
    /\ UNCHANGED <<declared, wd, store, live, warned, raced, rebuilt>>

(* What a copy of state into backend b may leave there: all of it or less. *)
Copies(b, state) ==
    [items : SUBSET state.items, lineage : {IF b \in Restamps THEN b ELSE state.lineage}]

(* tofu init -migrate-state -force-copy.  It fails and changes nothing, or
   copies the state over and binds the workdir to the backend of config.tf.json. *)
InitMigrate(t) ==
    /\ At(t, "init")
    /\ \/ Stop(t) /\ UNCHANGED <<store, bound>>
       \/ /\ Goto(t, "verify")
          /\ bound' = config
          /\ IF config = bound \/ store[bound].lineage = None THEN UNCHANGED store
             ELSE \E copy \in Copies(config, store[bound]) :
                     store' = [store EXCEPT ![config] = copy]
    /\ UNCHANGED <<declared, config, key, dump, live, warned, raced, rebuilt>>

(* Mutant: only instances that are in excess count. *)
SameInventoryOneWay(before, after) == after.items \subseteq before.items

(* Nothing missing, nothing extra, nothing altered; lineage does not count. *)
SameInventory(before, after) == after.items = before.items

(* OK, or FAIL with "Do NOT apply. Restore with state-push". *)
Verify(t) ==
    /\ At(t, "verify")
    /\ \E after \in StatePull :
          warned' = IF after # None
                    THEN warned \/ ~SameInventory(mig[t].before, after)
                    ELSE TRUE
    /\ Stop(t)
    /\ UNCHANGED <<declared, wd, store, dump, live, raced, rebuilt>>

(* The command is killed; a copy then goes unverified. *)
Kill(t) ==
    /\ ~At(t, "idle")
    /\ Stop(t)
    /\ raced' = (raced \/ At(t, "verify"))
    /\ UNCHANGED <<declared, wd, store, dump, live, warned, rebuilt>>

-----------------------------------------------------------------------------
Step(t) ==
    \/ PlanPin(t) \/ PlanRead(t) \/ PlanStage(t) \/ PlanRepin(t) \/ DryEnd(t) \/ Confirm(t)
    \/ Dump(t) \/ InitMigrate(t) \/ Verify(t)

Next ==
    \/ \E b \in Backends : Declare(b)
    \/ MoveAside \/ Preview \/ Apply \/ StatePush
    \/ \E t \in Terminals : Step(t) \/ Kill(t) \/ \E dry \in BOOLEAN : Migrate(t, dry)

Spec == Init /\ [][Next]_vars

-----------------------------------------------------------------------------
(* Properties.  raced excuses the one thing nothing in the code prevents: a
   tofu run between a migration's read and its verification, or a migration
   killed before it verified. *)

(* "the next apply rebuilds the fleet -- which is why this is a verb with
   verification": whatever is declared, re-rendered, failed, retried or lost in
   a copy, no apply ever creates an instance that exists. *)
NoRebuild == ~raced => rebuilt = {}

(* An operator who is told to restore has a dump of every instance, however
   often migrate-backend is run again meanwhile. *)
RestoreComplete == warned /\ ~raced => dump # None /\ live \subseteq dump.items

(* "Do NOT apply. Restore with: fleet deploy tf state-push": tofu accepts the
   dump the operator is told to restore. *)
RestorePossible == warned /\ dump # None => Accepts(bound, dump)
=============================================================================
