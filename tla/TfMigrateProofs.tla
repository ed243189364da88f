--------------------------- MODULE TfMigrateProofs ---------------------------
(***************************************************************************)
(* migrate-backend loses no instance unnoticed, for any backends, any      *)
(* instances and any number of terminals in the workdir.                   *)
(***************************************************************************)
EXTENDS TfMigrate, TLAPS

(* The state that tofu would use has every instance that exists. *)
Good == live = {} \/ (bound # None /\ live \subseteq store[bound].items)

(* A command that runs has a workdir that is rendered and bound. *)
Bound == \A t \in Terminals : ~At(t, "idle") => config # None /\ bound # None

(* Where instances exist there is a state, and whatever was read or dumped is *)
(* one: it has a lineage.                                                     *)
Minted ==
    /\ bound = None \/ store[bound].lineage = None => live = {}
    /\ dump # None => dump.lineage # None
    /\ \A t \in Terminals : mig[t].pc \in Window => mig[t].before.lineage # None

(* As long as the state is good, what a migration read before is good too. *)
ReadGood ==
    \A t \in Terminals : mig[t].pc \in Window /\ ~raced /\ Good => live \subseteq mig[t].before.items

(* A state that is not good is about to be noticed by a migration that read a *)
(* good one.                                                                  *)
Noticed ==
    ~raced /\ ~warned /\ ~Good =>
        \E t \in Terminals : At(t, "verify") /\ live \subseteq mig[t].before.items

(* The dump is what the migration read, from the copy to the verdict. *)
Dumped == \A t \in Terminals : mig[t].pc \in {"init", "verify"} => dump # None /\ dump = mig[t].before

IInv ==
    TypeOK /\ Bound /\ Minted /\ ReadGood /\ Noticed /\ Dumped /\ NoRebuild /\ RestoreComplete

-----------------------------------------------------------------------------
LEMMA StatesAreTyped == Nothing \in Tfstate /\ Idle \in Migration
  BY DEF Nothing, Tfstate, Idle, Migration, Pcs

LEMMA InitIInv == Init => IInv
<1> SUFFICES ASSUME Init PROVE IInv
  OBVIOUS
<1>1. \A t \in Terminals : mig[t].pc = "idle"
  BY DEF Init, Idle
<1>2. store \in [Backends -> Tfstate]
  <2>1. CASE store = [b \in Backends |-> Nothing]
    BY <2>1, StatesAreTyped
  <2>2. CASE /\ live \in SUBSET Items
             /\ store = [b \in Backends |-> IF b = declared
                                            THEN [items |-> live, lineage |-> "first"]
                                            ELSE Nothing]
    <3>1. [items |-> live, lineage |-> "first"] \in Tfstate
      BY <2>2 DEF Tfstate, Lineages
    <3> QED BY <2>2, <3>1, StatesAreTyped
  <2> QED BY <2>1, <2>2 DEF Init
<1>3. TypeOK
  BY <1>2, StatesAreTyped DEF Init, TypeOK
<1>4. Good /\ Minted
  <2>1. CASE live = {}
    BY <1>1, <2>1 DEF Good, Minted, Init, Window
  <2>2. CASE live # {}
    <3>1. bound = declared /\ bound \in Backends /\ bound # None
      BY <2>2, NoneAssumption DEF Init
    <3>2. store[bound] = [items |-> live, lineage |-> "first"]
      BY <2>2, <3>1 DEF Init
    <3>3. store[bound].items = live /\ store[bound].lineage = "first"
      BY <3>2
    <3>4. "first" # None
      BY NoneAssumption
    <3> QED BY <1>1, <3>1, <3>3, <3>4 DEF Good, Minted, Init, Window
  <2> QED BY <2>1, <2>2
<1> QED BY <1>1, <1>3, <1>4
  DEF Init, IInv, Bound, ReadGood, Noticed, Dumped, NoRebuild, RestoreComplete, At, Window
-----------------------------------------------------------------------------
(* What a step does to the commands. *)
Same(t) == mig'[t].pc = mig[t].pc /\ mig'[t].before = mig[t].before

(* A command is left alone, or moves where nothing is copied or verified: it *)
(* keeps what it read, or is outside of the window.                          *)
Calm(t) ==
    \/ Same(t)
    \/ /\ mig[t].pc # "verify" /\ mig'[t].pc \notin {"init", "verify"}
       /\ mig'[t].pc \in Window => mig[t].pc \in Window /\ mig'[t].before = mig[t].before

LEMMA GotoDoes ==
    ASSUME TypeOK, NEW t \in Terminals, NEW pc \in Pcs, Goto(t, pc)
    PROVE  /\ mig' \in [Terminals -> Migration]
           /\ mig'[t].pc = pc /\ mig'[t].before = mig[t].before
           /\ \A u \in Terminals \ {t} : Same(u)
<1>1. mig[t] \in Migration
  BY DEF TypeOK
<1> DEFINE m == [mig[t] EXCEPT !.pc = pc]
<1>2. m \in Migration /\ m.pc = pc /\ m.before = mig[t].before
  BY <1>1 DEF Migration
<1>3. mig' = [mig EXCEPT ![t] = m]
  BY DEF Goto
<1> HIDE DEF m
<1> QED BY <1>2, <1>3 DEF TypeOK, Same

LEMMA StopDoes ==
    ASSUME TypeOK, NEW t \in Terminals, Stop(t)
    PROVE  /\ mig' \in [Terminals -> Migration]
           /\ mig'[t].pc = "idle"
           /\ \A u \in Terminals \ {t} : Same(u)
<1>1. Idle.pc = "idle"
  BY DEF Idle
<1>2. mig'[t] = Idle /\ \A u \in Terminals \ {t} : mig'[u] = mig[u]
  BY DEF Stop, TypeOK
<1>3. mig' \in [Terminals -> Migration]
  BY StatesAreTyped DEF Stop, TypeOK
<1> QED BY <1>1, <1>2, <1>3 DEF Same

LEMMA OverlapDoes ==
    ASSUME TypeOK, Overlap
    PROVE  mig' \in [Terminals -> Migration] /\ \A t \in Terminals : Same(t)
<1>1. ASSUME NEW t \in Terminals
      PROVE  mig'[t] \in Migration /\ Same(t)
  <2>1. mig[t] \in Migration
    BY DEF TypeOK
  <2> DEFINE m == [mig[t] EXCEPT !.alone = FALSE]
  <2>2. m \in Migration /\ m.pc = mig[t].pc /\ m.before = mig[t].before
    BY <2>1 DEF Migration
  <2>3. mig'[t] = mig[t] \/ mig'[t] = m
    BY DEF Overlap
  <2> HIDE DEF m
  <2> QED BY <2>1, <2>2, <2>3 DEF Same
<1>2. mig' = [t \in Terminals |-> mig'[t]]
  BY DEF Overlap
<1> QED BY <1>1, <1>2

LEMMA StageDoes ==
    ASSUME TypeOK, Stage, EnsureInit
    PROVE  /\ config' \in Backends /\ key' \in Backends /\ bound' \in Backends
           /\ bound # None => bound' = bound
  BY NoneAssumption DEF TypeOK, Stage, EnsureInit

LEMMA PullGives ==
    ASSUME TypeOK, bound # None, NEW state \in StatePull, state # None
    PROVE  state \in Tfstate /\ state = store[bound] /\ state.lineage # None
  BY DEF StatePull, TypeOK

LEMMA CopyIsTyped ==
    ASSUME NEW b \in Backends, NEW state \in Tfstate, NEW copy \in Copies(b, state)
    PROVE  /\ copy \in Tfstate /\ copy.items \subseteq state.items
           /\ state.lineage # None => copy.lineage # None
  BY NoneAssumption DEF Copies, Tfstate, Lineages

(* What an apply leaves. *)
LEMMA ApplyDoes ==
    ASSUME TypeOK, Apply
    PROVE  /\ ~warned /\ UNCHANGED <<declared, dump, warned>> /\ raced' = (raced \/ InWindow)
           /\ config' \in Backends /\ key' \in Backends /\ bound' \in Backends
           /\ bound # None => bound' = bound
           /\ \E made \in SUBSET (Items \ store[bound'].items), s \in Tfstate :
                 /\ s.items = store[bound'].items \cup made /\ s.lineage # None
                 /\ store' = [store EXCEPT ![bound'] = s]
                 /\ live' = live \cup made
                 /\ rebuilt' = rebuilt \cup (made \cap live)
<1>1. /\ config' = bound' /\ key' \in Backends /\ bound' \in Backends
      /\ bound # None => bound' = bound
  <2>1. Stage /\ EnsureInit /\ config' = bound'
    BY DEF Apply
  <2> QED BY <2>1, StageDoes
<1>2. PICK made \in SUBSET (Items \ store[bound'].items) :
         /\ store' = [store EXCEPT ![bound'] =
                         [items |-> @.items \cup made,
                          lineage |-> IF @.lineage = None THEN bound' ELSE @.lineage]]
         /\ live' = live \cup made
         /\ rebuilt' = rebuilt \cup (made \cap live)
  BY DEF Apply
<1> DEFINE s == [items |-> store[bound'].items \cup made,
                 lineage |-> IF store[bound'].lineage = None THEN bound'
                             ELSE store[bound'].lineage]
<1>3. store[bound'] \in Tfstate /\ bound' # None
  BY <1>1, NoneAssumption DEF TypeOK
<1>4. s \in Tfstate /\ s.items = store[bound'].items \cup made /\ s.lineage # None
  BY <1>1, <1>3 DEF Tfstate, Lineages
<1>5. store' = [store EXCEPT ![bound'] = s]
  BY <1>2
<1> HIDE DEF s
<1>6. ~warned /\ UNCHANGED <<declared, dump, warned>> /\ raced' = (raced \/ InWindow)
  BY DEF Apply
<1> QED BY <1>1, <1>2, <1>4, <1>5, <1>6

(* What a copy leaves. *)
LEMMA InitMigrateDoes ==
    ASSUME TypeOK, Bound, Minted, NEW t \in Terminals, InitMigrate(t)
    PROVE  /\ At(t, "init") /\ UNCHANGED <<declared, config, key, dump, live, warned, raced, rebuilt>>
           /\ \/ Stop(t) /\ UNCHANGED <<store, bound>>
              \/ /\ Goto(t, "verify")
                 /\ bound' = config /\ bound # None /\ config # None
                 /\ store' \in [Backends -> Tfstate]
                 /\ store'[bound'].items \subseteq store[bound].items \/ live = {}
                 /\ store'[bound'].lineage = None => live = {}
<1>1. /\ At(t, "init") /\ UNCHANGED <<declared, config, key, dump, live, warned, raced, rebuilt>>
      /\ \/ Stop(t) /\ UNCHANGED <<store, bound>>
         \/ /\ Goto(t, "verify")
            /\ bound' = config
            /\ IF config = bound \/ store[bound].lineage = None THEN UNCHANGED store
               ELSE \E copy \in Copies(config, store[bound]) :
                       store' = [store EXCEPT ![config] = copy]
  BY DEF InitMigrate
<1>2. bound # None /\ config # None
  BY <1>1 DEF Bound, At
<1>3. store[bound] \in Tfstate /\ config \in Backends
  BY <1>2 DEF TypeOK
<1>4. CASE bound' = config /\ UNCHANGED store
           /\ (config = bound \/ store[bound].lineage = None)
  <2>1. store'[bound'].items \subseteq store[bound].items \/ live = {}
    BY <1>2, <1>4 DEF Minted
  <2>2. store'[bound'].lineage = None => live = {}
    BY <1>2, <1>4 DEF Minted
  <2> QED BY <1>1, <1>2, <1>4, <2>1, <2>2 DEF TypeOK
<1>5. ASSUME bound' = config, store[bound].lineage # None,
             NEW copy \in Copies(config, store[bound]), store' = [store EXCEPT ![config] = copy]
      PROVE  /\ store' \in [Backends -> Tfstate]
             /\ store'[bound'].items \subseteq store[bound].items
             /\ store'[bound'].lineage # None
  <2>1. copy \in Tfstate /\ copy.items \subseteq store[bound].items /\ copy.lineage # None
    BY <1>3, <1>5, CopyIsTyped
  <2> QED BY <1>3, <1>5, <2>1 DEF TypeOK
<1> QED BY <1>1, <1>2, <1>4, <1>5

LEMMA NextTypes ==
    ASSUME TypeOK, Bound, Minted, [Next]_vars
    PROVE  TypeOK'
<1>1. ASSUME NEW b \in Backends, Declare(b)
      PROVE  TypeOK'
  BY <1>1 DEF Declare, wd, TypeOK
<1>2. CASE MoveAside
  BY <1>2 DEF MoveAside, wd, TypeOK
<1>3. CASE Preview
  BY <1>3, StageDoes, OverlapDoes DEF Preview, TypeOK
<1>4. CASE Apply
  <2>1. PICK made \in SUBSET (Items \ store[bound'].items), s \in Tfstate :
           /\ store' = [store EXCEPT ![bound'] = s]
           /\ live' = live \cup made
           /\ rebuilt' = rebuilt \cup (made \cap live)
    BY <1>4, ApplyDoes
  <2>2. store' \in [Backends -> Tfstate]
    BY <2>1 DEF TypeOK
  <2>3. live' \subseteq Items /\ rebuilt' \subseteq Items
    BY <2>1 DEF TypeOK
  <2>4. mig' \in [Terminals -> Migration]
    BY <1>4, OverlapDoes DEF Apply
  <2>5. /\ config' \in Backends /\ key' \in Backends /\ bound' \in Backends
        /\ UNCHANGED <<declared, dump, warned>> /\ raced' = (raced \/ InWindow)
    BY <1>4, ApplyDoes
  <2> QED BY <2>2, <2>3, <2>4, <2>5 DEF TypeOK, InWindow
<1>5. CASE StatePush
  <2>1. dump \in Tfstate
    BY <1>5 DEF StatePush, TypeOK
  <2>2. store' \in [Backends -> Tfstate]
    BY <1>5, <2>1 DEF StatePush, TypeOK
  <2>3. Stage /\ EnsureInit /\ Overlap
    BY <1>5 DEF StatePush
  <2>4. /\ config' \in Backends /\ key' \in Backends /\ bound' \in Backends
        /\ mig' \in [Terminals -> Migration]
    BY <2>3, StageDoes, OverlapDoes
  <2> QED BY <1>5, <2>2, <2>4 DEF StatePush, TypeOK, InWindow
<1>6. ASSUME NEW t \in Terminals, NEW dry \in BOOLEAN, Migrate(t, dry)
      PROVE  TypeOK'
  <2>1. \A u \in Terminals : [mig[u] EXCEPT !.alone = FALSE] \in Migration
    BY DEF TypeOK, Migration
  <2>2. [Idle EXCEPT !.pc = "pin", !.dry = dry, !.alone = \A v \in Terminals : mig[v].pc = "idle"]
          \in Migration
    BY StatesAreTyped DEF Migration, Pcs
  <2>3. mig' \in [Terminals -> Migration]
    BY <1>6, <2>1, <2>2 DEF Migrate, TypeOK
  <2> QED BY <1>6, <2>3 DEF Migrate, wd, TypeOK
<1>7. ASSUME NEW t \in Terminals, Step(t)
      PROVE  TypeOK'
  <2>1. CASE PlanPin(t)
    <3>1. [mig[t] EXCEPT !.pc = "read", !.old = bound] \in Migration
      BY DEF TypeOK, Migration, Pcs
    <3>2. mig' \in [Terminals -> Migration]
      BY <2>1, <3>1 DEF PlanPin, TypeOK
    <3> QED BY <2>1, <3>2 DEF PlanPin, Pin, TypeOK
  <2>2. CASE PlanRead(t)
    <3>1. bound # None
      BY <2>2 DEF PlanRead, At, Bound
    <3>2. PICK state \in StatePull :
             IF state = None THEN Stop(t)
             ELSE mig' = [mig EXCEPT ![t].pc = "stage", ![t].before = state]
      BY <2>2 DEF PlanRead
    <3>3. ASSUME state # None
          PROVE  mig' \in [Terminals -> Migration]
      <4>1. [mig[t] EXCEPT !.pc = "stage", !.before = state] \in Migration
        BY <3>1, <3>3, PullGives DEF TypeOK, Migration, Pcs
      <4> QED BY <3>2, <3>3, <4>1 DEF TypeOK
    <3>4. mig' \in [Terminals -> Migration]
      BY <3>2, <3>3, StopDoes
    <3> QED BY <2>2, <3>4 DEF PlanRead, wd, TypeOK
  <2>3. CASE PlanStage(t)
    <3>1. mig' \in [Terminals -> Migration]
      BY <2>3, GotoDoes, StopDoes DEF PlanStage, Pcs
    <3> QED BY <2>3, <3>1 DEF PlanStage, TypeOK
  <2>4. CASE PlanRepin(t)
    BY <2>4, GotoDoes DEF PlanRepin, Pin, Pcs, TypeOK
  <2>5. CASE DryEnd(t)
    BY <2>5, StopDoes DEF DryEnd, wd, TypeOK
  <2>6. CASE Confirm(t)
    BY <2>6, GotoDoes, StopDoes DEF Confirm, Pcs, wd, TypeOK
  <2>7. CASE Dump(t)
    <3>1. mig[t].before \in Tfstate
      BY DEF TypeOK, Migration
    <3>2. mig' \in [Terminals -> Migration]
      BY <2>7, GotoDoes, StopDoes DEF Dump, Pcs
    <3> QED BY <2>7, <3>1, <3>2 DEF Dump, wd, TypeOK
  <2>8. CASE InitMigrate(t)
    <3>1. mig' \in [Terminals -> Migration]
      BY <2>8, GotoDoes, StopDoes DEF InitMigrate, Pcs
    <3> QED BY <2>8, <3>1, InitMigrateDoes DEF TypeOK
  <2>9. CASE Verify(t)
    BY <2>9, StopDoes DEF Verify, wd, TypeOK
  <2> QED BY <1>7, <2>1, <2>2, <2>3, <2>4, <2>5, <2>6, <2>7, <2>8, <2>9 DEF Step
<1>8. ASSUME NEW t \in Terminals, Kill(t)
      PROVE  TypeOK'
  BY <1>8, StopDoes DEF Kill, At, wd, TypeOK
<1>9. CASE UNCHANGED vars
  BY <1>9 DEF vars, wd, TypeOK
<1> QED BY <1>1, <1>2, <1>3, <1>4, <1>5, <1>6, <1>7, <1>8, <1>9 DEF Next

-----------------------------------------------------------------------------
(* A workdir that is rendered and bound stays so. *)
LEMMA NextBound ==
    ASSUME TypeOK, Bound, Minted, [Next]_vars
    PROVE  Bound'
<1>1. CASE Preview
  BY <1>1, StageDoes, OverlapDoes, NoneAssumption DEF Preview, Bound, Same, At
<1>2. CASE Apply
  <2>1. /\ config' \in Backends /\ bound' \in Backends
    BY <1>2, ApplyDoes
  <2> QED BY <2>1, NoneAssumption DEF Bound
<1>3. CASE StatePush
  <2>1. config' \in Backends /\ bound' \in Backends
    BY <1>3, StageDoes DEF StatePush
  <2> QED BY <2>1, NoneAssumption DEF Bound
<1>4. ASSUME NEW t \in Terminals, NEW dry \in BOOLEAN, Migrate(t, dry)
      PROVE  Bound'
  BY <1>4 DEF Migrate, wd, Bound
<1>5. ASSUME NEW t \in Terminals, Step(t)
      PROVE  Bound'
  <2>1. config # None /\ bound # None
    <3>1. ~At(t, "idle")
      BY <1>5 DEF Step, PlanPin, PlanRead, PlanStage, PlanRepin, DryEnd, Confirm, Dump,
                  InitMigrate, Verify, At
    <3> QED BY <3>1 DEF Bound
  <2>2. config' # None /\ bound' # None
    <3>1. CASE InitMigrate(t)
      BY <3>1, <2>1 DEF InitMigrate
    <3>2. CASE PlanStage(t)
      BY <3>2, <2>1, NoneAssumption DEF PlanStage, TypeOK
    <3>3. CASE PlanPin(t) \/ PlanRepin(t)
      BY <3>3, <2>1 DEF PlanPin, PlanRepin, Pin
    <3>4. CASE PlanRead(t) \/ DryEnd(t) \/ Confirm(t) \/ Dump(t) \/ Verify(t)
      BY <3>4, <2>1 DEF PlanRead, DryEnd, Confirm, Dump, Verify, wd
    <3> QED BY <1>5, <3>1, <3>2, <3>3, <3>4 DEF Step
  <2> QED BY <2>2 DEF Bound
<1>6. ASSUME NEW t \in Terminals, Kill(t)
      PROVE  Bound'
  BY <1>6 DEF Kill, wd, Bound
<1>7. ASSUME UNCHANGED <<wd, mig>>
      PROVE  Bound'
  BY <1>7 DEF wd, Bound, At
<1>8. ASSUME NEW b \in Backends, Declare(b)
      PROVE  Bound'
  BY <1>7, <1>8 DEF Declare
<1>9. CASE MoveAside \/ UNCHANGED vars
  BY <1>7, <1>9 DEF MoveAside, vars, wd
<1> QED BY <1>1, <1>2, <1>3, <1>4, <1>5, <1>6, <1>8, <1>9 DEF Next

(* Nothing that a state or an instance depends on changes; a workdir may get *)
(* bound, but not to another backend.                                        *)
Quiet ==
    /\ UNCHANGED <<store, live, rebuilt>>
    /\ bound # None => bound' = bound

(* The steps, by what the safety invariants can tell apart. *)
LEMMA Shapes ==
    ASSUME TypeOK, Bound, [Next]_vars
    PROVE  \/ Apply
           \/ StatePush
           \/ \E t \in Terminals : InitMigrate(t)
           \/ Quiet /\ UNCHANGED <<dump, warned, raced>> /\ \A t \in Terminals : Calm(t)
           \/ Quiet /\ MoveAside
           \/ Quiet /\ \E t \in Terminals : PlanRead(t) \/ Dump(t) \/ Verify(t) \/ Kill(t)
<1>1. ASSUME NEW b \in Backends, Declare(b)
      PROVE  Quiet /\ UNCHANGED <<dump, warned, raced>> /\ \A t \in Terminals : Calm(t)
  BY <1>1 DEF Declare, wd, Quiet, Calm, Same
<1>2. CASE MoveAside
  BY <1>2 DEF MoveAside, wd, Quiet
<1>3. CASE Preview
  BY <1>3, StageDoes, OverlapDoes DEF Preview, Quiet, Calm
<1>4. ASSUME NEW t \in Terminals, NEW dry \in BOOLEAN, Migrate(t, dry)
      PROVE  Quiet /\ UNCHANGED <<dump, warned, raced>> /\ \A u \in Terminals : Calm(u)
  <2>1. ASSUME NEW u \in Terminals
        PROVE  Calm(u)
    <3>1. CASE u = t
      BY <1>4, <3>1 DEF Migrate, At, Idle, Calm, Window
    <3>2. CASE u # t
      <4>1. mig[u] \in Migration
        BY DEF TypeOK
      <4>2. mig'[u] = mig[u] \/ mig'[u] = [mig[u] EXCEPT !.alone = FALSE]
        BY <1>4, <3>2 DEF Migrate
      <4> QED BY <4>1, <4>2 DEF Migration, Calm, Same
    <3> QED BY <3>1, <3>2
  <2> QED BY <1>4, <2>1 DEF Migrate, wd, Quiet
<1>5. ASSUME NEW t \in Terminals,
             PlanPin(t) \/ PlanStage(t) \/ PlanRepin(t) \/ DryEnd(t) \/ Confirm(t)
      PROVE  Quiet /\ UNCHANGED <<dump, warned, raced>> /\ \A u \in Terminals : Calm(u)
  <2>1. CASE PlanPin(t)
    <3>1. mig[t] \in Migration
      BY DEF TypeOK
    <3>2. mig'[t].pc = "read" /\ At(t, "pin")
      BY <2>1, <3>1 DEF PlanPin, TypeOK, Migration
    <3>3. \A u \in Terminals \ {t} : mig'[u] = mig[u]
      BY <2>1 DEF PlanPin, TypeOK
    <3> QED BY <2>1, <3>2, <3>3 DEF PlanPin, Pin, Quiet, Calm, Same, At, Window
  <2>2. CASE PlanStage(t)
    BY <2>2, GotoDoes, StopDoes DEF PlanStage, Pcs, Quiet, Calm, Same, At, Window
  <2>3. CASE PlanRepin(t)
    BY <2>3, GotoDoes DEF PlanRepin, Pin, Pcs, Quiet, Calm, Same, At, Window
  <2>4. CASE DryEnd(t)
    BY <2>4, StopDoes DEF DryEnd, wd, Quiet, Calm, Same, At, Window
  <2>5. CASE Confirm(t)
    BY <2>5, GotoDoes, StopDoes DEF Confirm, wd, Pcs, Quiet, Calm, Same, At, Window
  <2> QED BY <1>5, <2>1, <2>2, <2>3, <2>4, <2>5
<1>6. ASSUME NEW t \in Terminals, PlanRead(t) \/ Dump(t) \/ Verify(t) \/ Kill(t)
      PROVE  Quiet
  BY <1>6 DEF PlanRead, Dump, Verify, Kill, wd, Quiet
<1>7. CASE UNCHANGED vars
  BY <1>7 DEF vars, wd, Quiet, Calm, Same
<1>8. ASSUME NEW t \in Terminals, Step(t)
      PROVE  \/ PlanPin(t) \/ PlanStage(t) \/ PlanRepin(t) \/ DryEnd(t) \/ Confirm(t)
             \/ PlanRead(t) \/ Dump(t) \/ Verify(t) \/ InitMigrate(t)
  BY <1>8 DEF Step
<1> QED BY <1>1, <1>2, <1>3, <1>4, <1>5, <1>6, <1>7, <1>8 DEF Next

(* A quiet step turns no bad state good, nor a good one bad. *)
LEMMA QuietKeeps ==
    ASSUME Minted, Quiet
    PROVE  Good' = Good
  BY DEF Minted, Quiet, Good

(* A push restores what was dumped. *)
LEMMA StatePushDoes ==
    ASSUME TypeOK, StatePush
    PROVE  /\ warned /\ dump # None /\ ~warned' /\ UNCHANGED <<dump, live, rebuilt>>
           /\ raced' = (raced \/ InWindow) /\ \A t \in Terminals : Same(t)
           /\ bound' \in Backends /\ bound' # None /\ store'[bound'] = dump
<1>1. Stage /\ EnsureInit /\ Overlap
  BY DEF StatePush
<1>2. bound' \in Backends
  BY <1>1, StageDoes
<1>3. store'[bound'] = dump
  BY <1>2 DEF StatePush, TypeOK
<1>4. \A t \in Terminals : Same(t)
  BY <1>1, OverlapDoes
<1> QED BY <1>2, <1>3, <1>4, NoneAssumption DEF StatePush

(* A migration whose backend answers has read a state it can be judged by. *)
LEMMA PlanReadDoes ==
    ASSUME TypeOK, Bound, NEW t \in Terminals, PlanRead(t)
    PROVE  /\ UNCHANGED <<dump, warned, raced>> /\ \A u \in Terminals \ {t} : Same(u)
           /\ mig[t].pc = "read" /\ bound # None
           /\ \/ mig'[t].pc = "idle"
              \/ /\ mig'[t].pc = "stage"
                 /\ mig'[t].before = store[bound] /\ store[bound].lineage # None
<1>1. bound # None /\ mig[t] \in Migration /\ mig[t].pc = "read"
  BY DEF PlanRead, At, Bound, TypeOK
<1>2. PICK state \in StatePull :
         IF state = None THEN Stop(t)
         ELSE mig' = [mig EXCEPT ![t].pc = "stage", ![t].before = state]
  BY DEF PlanRead
<1>3. CASE state = None
  BY <1>1, <1>2, <1>3, StopDoes DEF PlanRead
<1>4. CASE state # None
  <2>1. state = store[bound] /\ state.lineage # None
    BY <1>1, <1>4, PullGives
  <2>2. mig' = [mig EXCEPT ![t].pc = "stage", ![t].before = state]
    BY <1>2, <1>4
  <2>3. mig'[t].pc = "stage" /\ mig'[t].before = state
    BY <1>1, <2>2 DEF TypeOK, Migration
  <2>4. \A u \in Terminals \ {t} : Same(u)
    BY <2>2 DEF TypeOK, Same
  <2> QED BY <1>1, <2>1, <2>3, <2>4 DEF PlanRead
<1> QED BY <1>3, <1>4

LEMMA NextMinted ==
    ASSUME TypeOK, Bound, Minted, [Next]_vars
    PROVE  Minted'
<1>1. CASE Apply
  <2>1. PICK made \in SUBSET (Items \ store[bound'].items), s \in Tfstate :
           s.lineage # None /\ store' = [store EXCEPT ![bound'] = s]
    BY <1>1, ApplyDoes
  <2>2. bound' \in Backends /\ UNCHANGED dump
    BY <1>1, ApplyDoes
  <2>3. bound' # None /\ store'[bound'].lineage # None
    BY <2>1, <2>2, NoneAssumption DEF TypeOK
  <2>4. \A t \in Terminals : Same(t)
    BY <1>1, OverlapDoes DEF Apply
  <2> QED BY <2>2, <2>3, <2>4 DEF Minted, Same
<1>2. CASE StatePush
  BY <1>2, StatePushDoes DEF Minted, Same
<1>3. ASSUME NEW t \in Terminals, InitMigrate(t)
      PROVE  Minted'
  <2>1. At(t, "init") /\ UNCHANGED <<dump, live>>
    BY <1>3, InitMigrateDoes
  <2>2. CASE Stop(t) /\ UNCHANGED <<store, bound>>
    BY <2>1, <2>2, StopDoes DEF Minted, Same, Window
  <2>3. CASE /\ Goto(t, "verify") /\ bound' = config /\ config # None
             /\ store'[bound'].lineage = None => live = {}
    BY <2>1, <2>3, GotoDoes DEF Minted, Same, Window, At, Pcs
  <2> QED BY <1>3, <2>2, <2>3, InitMigrateDoes
<1>4. CASE Quiet /\ UNCHANGED <<dump, warned, raced>> /\ \A t \in Terminals : Calm(t)
  BY <1>4 DEF Minted, Quiet, Calm, Same
<1>5. CASE Quiet /\ MoveAside
  BY <1>5 DEF Minted, Quiet, MoveAside
<1>6. ASSUME NEW t \in Terminals, Quiet, PlanRead(t)
      PROVE  Minted'
  BY <1>6, PlanReadDoes DEF Minted, Quiet, Same, Window
<1>7. ASSUME NEW t \in Terminals, Quiet, Dump(t)
      PROVE  Minted'
  BY <1>7, GotoDoes, StopDoes DEF Minted, Quiet, Dump, At, Same, Window, Pcs
<1>8. ASSUME NEW t \in Terminals, Quiet, Verify(t) \/ Kill(t)
      PROVE  Minted'
  BY <1>8, StopDoes DEF Minted, Quiet, Verify, Kill, Same, Window
<1> QED BY <1>1, <1>2, <1>3, <1>4, <1>5, <1>6, <1>7, <1>8, Shapes

(* A copy makes no bad state good. *)
LEMMA CopyLosesOnly ==
    ASSUME TypeOK, Bound, Minted, NEW t \in Terminals, InitMigrate(t), Good'
    PROVE  Good
  BY InitMigrateDoes DEF Good

(* An apply that runs outside of every migration leaves a good state good. *)
LEMMA ApplyKeepsGood ==
    ASSUME TypeOK, Apply, Good
    PROVE  Good' /\ rebuilt' = rebuilt
<1>1. PICK made \in SUBSET (Items \ store[bound'].items), s \in Tfstate :
         /\ s.items = store[bound'].items \cup made
         /\ store' = [store EXCEPT ![bound'] = s]
         /\ live' = live \cup made
         /\ rebuilt' = rebuilt \cup (made \cap live)
  BY ApplyDoes
<1>2. /\ bound' \in Backends /\ bound' # None
      /\ bound # None => bound' = bound
  BY ApplyDoes, NoneAssumption
<1>3. live \subseteq store[bound'].items
  BY <1>2 DEF Good
<1>4. store'[bound'].items = store[bound'].items \cup made
  BY <1>1, <1>2 DEF TypeOK
<1> QED BY <1>1, <1>2, <1>3, <1>4 DEF Good

LEMMA NextReadGood ==
    ASSUME TypeOK, Bound, Minted, ReadGood, [Next]_vars
    PROVE  ReadGood'
<1>1. CASE Apply
  <2>1. raced' = (raced \/ InWindow) /\ \A t \in Terminals : Same(t)
    BY <1>1, OverlapDoes DEF Apply
  <2> QED BY <2>1 DEF ReadGood, InWindow, Same
<1>2. CASE StatePush
  BY <1>2, StatePushDoes DEF ReadGood, InWindow, Same
<1>3. ASSUME NEW t \in Terminals, InitMigrate(t)
      PROVE  ReadGood'
  <2>1. At(t, "init") /\ UNCHANGED <<live, raced>> /\ (Stop(t) \/ Goto(t, "verify"))
    BY <1>3, InitMigrateDoes
  <2>2. Good' => Good
    BY <1>3, CopyLosesOnly
  <2>3. \A u \in Terminals : mig'[u].pc \in Window =>
                mig[u].pc \in Window /\ mig'[u].before = mig[u].before
    BY <2>1, GotoDoes, StopDoes DEF At, Same, Window, Pcs
  <2> QED BY <2>1, <2>2, <2>3 DEF ReadGood
<1>4. CASE Quiet /\ UNCHANGED <<dump, warned, raced>> /\ \A t \in Terminals : Calm(t)
  <2>1. \A u \in Terminals : mig'[u].pc \in Window =>
                mig[u].pc \in Window /\ mig'[u].before = mig[u].before
    BY <1>4 DEF Calm, Same
  <2> QED BY <1>4, <2>1, QuietKeeps DEF ReadGood, Quiet
<1>5. CASE Quiet /\ MoveAside
  BY <1>5, QuietKeeps DEF ReadGood, Quiet, MoveAside
<1>6. ASSUME NEW t \in Terminals, Quiet, PlanRead(t)
      PROVE  ReadGood'
  <2>1. Good' => Good
    BY <1>6, QuietKeeps
  <2>2. UNCHANGED <<live, raced>>
    BY <1>6, PlanReadDoes DEF Quiet
  <2>3. ASSUME NEW u \in Terminals, mig'[u].pc \in Window, ~raced', Good'
        PROVE  live' \subseteq mig'[u].before.items
    <3>1. CASE u = t
      BY <1>6, <2>1, <2>2, <2>3, <3>1, PlanReadDoes DEF Good, Window
    <3>2. CASE u # t
      BY <1>6, <2>1, <2>2, <2>3, <3>2, PlanReadDoes DEF ReadGood, Same
    <3> QED BY <3>1, <3>2
  <2> QED BY <2>3 DEF ReadGood
<1>7. ASSUME NEW t \in Terminals, Quiet, Dump(t) \/ Verify(t) \/ Kill(t)
      PROVE  ReadGood'
  <2>1. \A u \in Terminals : mig'[u].pc \in Window =>
                mig[u].pc \in Window /\ mig'[u].before = mig[u].before
    BY <1>7, GotoDoes, StopDoes DEF Dump, Verify, Kill, At, Same, Window, Pcs
  <2>2. ~raced' => ~raced
    BY <1>7 DEF Dump, Verify, Kill
  <2> QED BY <1>7, <2>1, <2>2, QuietKeeps DEF ReadGood, Quiet
<1> QED BY <1>1, <1>2, <1>3, <1>4, <1>5, <1>6, <1>7, Shapes

(* An apply that no migration overlaps finds a good state. *)
LEMMA ApplyFindsGood ==
    ASSUME TypeOK, Noticed, Apply, ~raced'
    PROVE  Good /\ ~raced
<1>1. ~raced /\ ~InWindow /\ ~warned
  BY ApplyDoes
<1>2. \A t \in Terminals : ~At(t, "verify")
  BY <1>1 DEF InWindow, Window, At
<1> QED BY <1>1, <1>2 DEF Noticed

LEMMA NextNoticed ==
    ASSUME TypeOK, Bound, Minted, ReadGood, Noticed, Dumped, RestoreComplete, [Next]_vars
    PROVE  Noticed'
<1> DEFINE Witness(t) == At(t, "verify") /\ live \subseteq mig[t].before.items
<1>1. CASE Apply
  BY <1>1, ApplyFindsGood, ApplyKeepsGood DEF Noticed
<1>2. CASE StatePush
  <2>1. ~raced' => live' \subseteq store'[bound'].items /\ bound' # None
    BY <1>2, StatePushDoes DEF RestoreComplete
  <2> QED BY <2>1 DEF Noticed, Good
<1>3. ASSUME NEW t \in Terminals, InitMigrate(t)
      PROVE  Noticed'
  <2>1. At(t, "init") /\ UNCHANGED <<live, warned, raced>>
    BY <1>3, InitMigrateDoes
  <2> SUFFICES ASSUME ~raced, ~warned, ~Good'
               PROVE  \E u \in Terminals : Witness(u)'
    BY <2>1 DEF Noticed
  <2>2. ASSUME Good
        PROVE  Witness(t)'
    <3>1. Goto(t, "verify")
      BY <1>3, <2>2, InitMigrateDoes DEF Good
    <3>2. live \subseteq mig[t].before.items
      BY <2>1, <2>2 DEF ReadGood, At, Window
    <3> QED BY <2>1, <3>1, <3>2, GotoDoes DEF At, Pcs
  <2>3. ASSUME ~Good
        PROVE  \E u \in Terminals : Witness(u)'
    <3>1. PICK u \in Terminals : Witness(u)
      BY <2>3 DEF Noticed
    <3>2. u # t
      BY <2>1, <3>1 DEF At
    <3>3. Same(u)
      BY <1>3, <3>2, GotoDoes, StopDoes DEF InitMigrate, Pcs
    <3>4. Witness(u)'
      BY <2>1, <3>1, <3>3 DEF Same, At
    <3> HIDE DEF Witness
    <3> QED BY <3>4
  <2> QED BY <2>2, <2>3
<1>4. ASSUME Quiet, ~raced' => ~raced, ~warned' => ~warned,
             \A t \in Terminals : ~raced' /\ ~warned' /\ ~Good /\ Witness(t) => Same(t)
      PROVE  Noticed'
  <2> SUFFICES ASSUME ~raced', ~warned', ~Good'
               PROVE  \E t \in Terminals : Witness(t)'
    BY DEF Noticed
  <2>1. ~Good
    BY <1>4, QuietKeeps
  <2>2. PICK t \in Terminals : Witness(t)
    BY <1>4, <2>1 DEF Noticed
  <2>3. Witness(t)'
    BY <1>4, <2>1, <2>2 DEF Same, At, Quiet
  <2> HIDE DEF Witness
  <2> QED BY <2>3
<1>5. CASE Quiet /\ UNCHANGED <<dump, warned, raced>> /\ \A t \in Terminals : Calm(t)
  BY <1>4, <1>5 DEF Calm, At
<1>6. CASE Quiet /\ MoveAside
  BY <1>4, <1>6 DEF MoveAside, Same
<1>7. ASSUME NEW t \in Terminals, Quiet, PlanRead(t)
      PROVE  Noticed'
  BY <1>4, <1>7, PlanReadDoes DEF At
<1>8. ASSUME NEW t \in Terminals, Quiet, Dump(t)
      PROVE  Noticed'
  BY <1>4, <1>8, GotoDoes, StopDoes DEF Dump, At, Pcs
<1>9. ASSUME NEW t \in Terminals, Quiet, Kill(t)
      PROVE  Noticed'
  BY <1>4, <1>9, StopDoes DEF Kill
<1>10. ASSUME NEW t \in Terminals, Quiet, Verify(t)
       PROVE  Noticed'
  <2>1. PICK after \in StatePull :
           warned' = IF after # None
                     THEN warned \/ ~SameInventory(mig[t].before, after)
                     ELSE TRUE
    BY <1>10 DEF Verify
  <2>2. Stop(t) /\ UNCHANGED raced /\ bound # None
    BY <1>10 DEF Verify, At, Bound
  <2>3. ~warned' => ~warned /\ store[bound].items = mig[t].before.items
    BY <2>1, <2>2, PullGives DEF SameInventory, TypeOK
  <2>4. ~warned' /\ Witness(t) => Good
    BY <2>2, <2>3 DEF Good
  <2>5. \A u \in Terminals \ {t} : Same(u)
    BY <2>2, StopDoes
  <2> QED BY <1>4, <1>10, <2>2, <2>3, <2>4, <2>5
<1> QED BY <1>1, <1>2, <1>3, <1>5, <1>6, <1>7, <1>8, <1>9, <1>10, Shapes

LEMMA NextDumped ==
    ASSUME TypeOK, Bound, Minted, Dumped, [Next]_vars
    PROVE  Dumped'
<1>1. CASE Apply
  <2>1. UNCHANGED dump /\ \A t \in Terminals : Same(t)
    BY <1>1, OverlapDoes DEF Apply
  <2> QED BY <2>1 DEF Dumped, Same
<1>2. CASE StatePush
  BY <1>2, StatePushDoes DEF Dumped, Same
<1>3. ASSUME NEW t \in Terminals, InitMigrate(t)
      PROVE  Dumped'
  BY <1>3, GotoDoes, StopDoes DEF InitMigrate, Dumped, Same, At, Pcs
<1>4. CASE Quiet /\ UNCHANGED <<dump, warned, raced>> /\ \A t \in Terminals : Calm(t)
  BY <1>4 DEF Dumped, Calm, Same
<1>5. CASE MoveAside
  BY <1>5 DEF MoveAside, Dumped
<1>6. ASSUME NEW t \in Terminals, PlanRead(t)
      PROVE  Dumped'
  BY <1>6, PlanReadDoes DEF Dumped, Same
<1>7. ASSUME NEW t \in Terminals, Dump(t)
      PROVE  Dumped'
  <2>1. mig[t].before \in Tfstate /\ mig[t].pc = "dump"
    BY <1>7 DEF TypeOK, Migration, Dump, At
  <2>2. CASE dump # None
    BY <1>7, <2>2, StopDoes DEF Dump, Dumped, Same
  <2>3. CASE dump = None
    <3>1. Goto(t, "init") /\ dump' = mig[t].before
      BY <1>7, <2>3 DEF Dump
    <3>2. mig'[t].before = mig[t].before /\ \A u \in Terminals \ {t} : Same(u)
      BY <3>1, GotoDoes DEF Pcs
    <3>3. dump' # None
      BY <2>1, <3>1, NoStateAssumption
    <3> QED BY <2>3, <3>1, <3>2, <3>3 DEF Dumped, Same
  <2> QED BY <2>2, <2>3
<1>8. ASSUME NEW t \in Terminals, Verify(t) \/ Kill(t)
      PROVE  Dumped'
  BY <1>8, StopDoes DEF Verify, Kill, Dumped, Same
<1> QED BY <1>1, <1>2, <1>3, <1>4, <1>5, <1>6, <1>7, <1>8, Shapes

(* Only an apply creates, and it creates what its state does not have. *)
LEMMA NextNoRebuild ==
    ASSUME TypeOK, Bound, Minted, Noticed, NoRebuild, [Next]_vars
    PROVE  NoRebuild'
<1>1. CASE Apply
  BY <1>1, ApplyFindsGood, ApplyKeepsGood DEF NoRebuild
<1>2. CASE StatePush
  BY <1>2, StatePushDoes DEF NoRebuild
<1>3. ASSUME NEW t \in Terminals, InitMigrate(t)
      PROVE  NoRebuild'
  BY <1>3 DEF InitMigrate, NoRebuild
<1>4. ASSUME Quiet, ~raced' => ~raced
      PROVE  NoRebuild'
  BY <1>4 DEF Quiet, NoRebuild
<1>5. CASE Quiet /\ MoveAside
  BY <1>4, <1>5 DEF MoveAside
<1>6. ASSUME NEW t \in Terminals, Quiet, PlanRead(t) \/ Dump(t) \/ Verify(t) \/ Kill(t)
      PROVE  NoRebuild'
  <2>1. CASE Kill(t)
    BY <1>4, <1>6, <2>1 DEF Kill
  <2>2. CASE PlanRead(t) \/ Dump(t) \/ Verify(t)
    <3>1. UNCHANGED raced
      BY <2>2 DEF PlanRead, Dump, Verify
    <3> QED BY <1>4, <1>6, <3>1
  <2> QED BY <1>6, <2>1, <2>2
<1> QED BY <1>1, <1>2, <1>3, <1>4, <1>5, <1>6, Shapes

(* A warning is given while the dump is what a migration of a good state read. *)
LEMMA NextRestoreComplete ==
    ASSUME TypeOK, Bound, Minted, ReadGood, Noticed, Dumped, RestoreComplete, [Next]_vars
    PROVE  RestoreComplete'
<1>1. CASE Apply
  BY <1>1, ApplyDoes DEF RestoreComplete
<1>2. CASE StatePush
  BY <1>2, StatePushDoes DEF RestoreComplete
<1>3. ASSUME NEW t \in Terminals, InitMigrate(t)
      PROVE  RestoreComplete'
  BY <1>3 DEF InitMigrate, RestoreComplete
<1>4. CASE Quiet /\ UNCHANGED <<dump, warned, raced>>
  BY <1>4 DEF Quiet, RestoreComplete
<1>5. CASE MoveAside
  BY <1>5 DEF MoveAside, RestoreComplete
<1>6. ASSUME NEW t \in Terminals, PlanRead(t)
      PROVE  RestoreComplete'
  BY <1>6 DEF PlanRead, RestoreComplete
<1>7. ASSUME NEW t \in Terminals, Dump(t)
      PROVE  RestoreComplete'
  BY <1>7 DEF Dump, RestoreComplete
<1>8. ASSUME NEW t \in Terminals, Kill(t)
      PROVE  RestoreComplete'
  BY <1>8 DEF Kill, RestoreComplete
<1>9. ASSUME NEW t \in Terminals, Verify(t)
      PROVE  RestoreComplete'
  <2>1. UNCHANGED <<dump, live, raced>> /\ At(t, "verify")
    BY <1>9 DEF Verify
  <2>2. dump # None /\ dump = mig[t].before
    BY <2>1 DEF Dumped, At
  <2>3. ASSUME ~warned, ~raced
        PROVE  live \subseteq dump.items
    <3>1. CASE Good
      BY <2>1, <2>2, <2>3, <3>1 DEF ReadGood, At, Window
    <3>2. CASE ~Good
      BY <2>3, <3>2 DEF Noticed, Dumped, At
    <3> QED BY <3>1, <3>2
  <2> QED BY <2>1, <2>2, <2>3 DEF RestoreComplete
<1> QED BY <1>1, <1>2, <1>3, <1>4, <1>5, <1>6, <1>7, <1>8, <1>9, Shapes

LEMMA NextIInv == IInv /\ [Next]_vars => IInv'
  BY NextTypes, NextBound, NextMinted, NextReadGood, NextNoticed, NextDumped, NextNoRebuild,
     NextRestoreComplete
  DEF IInv

-----------------------------------------------------------------------------
THEOREM Invariance == Spec => []IInv
  BY InitIInv, NextIInv, PTL DEF Spec

(* The leaf, its backends and the commands on it are well typed throughout. *)
THEOREM TypeCorrect == Spec => []TypeOK
<1>1. IInv => TypeOK
  BY DEF IInv
<1> QED BY <1>1, Invariance, PTL

(* No apply creates an instance that exists, unless tofu ran between a        *)
(* migration's read and its verification, or a copy was never verified.       *)
THEOREM NothingIsRebuilt == Spec => []NoRebuild
<1>1. IInv => NoRebuild
  BY DEF IInv
<1> QED BY <1>1, Invariance, PTL

(* Whoever is told to restore has a dump of every instance, under the same *)
(* proviso.                                                                *)
THEOREM DumpHasEverything == Spec => []RestoreComplete
<1>1. IInv => RestoreComplete
  BY DEF IInv
<1> QED BY <1>1, Invariance, PTL
=============================================================================
