---------------------------- MODULE LauncherProofs ----------------------------
(***************************************************************************)
(* What a command starts from, in two parts that share no state.  Of       *)
(* FleetCaches: configurations, lists of leaves and catalogs are those of  *)
(* a version of the source that was current while the command ran.  Of     *)
(* LauncherEnv: the credentials a command is given, and what backend-check *)
(* says of them, for any stores, settings and exported variables.          *)
(***************************************************************************)
EXTENDS FleetCaches, LauncherEnv, FiniteSetTheorems, TLAPS

-----------------------------------------------------------------------------
(* FleetCaches *)

LEMMA VersionFacts == 1 \in Versions /\ NoFile \in Cached /\ Versions \subseteq Cached
                      /\ Cached \subseteq Int
BY VersionAssumption DEF Versions, NoFile, Cached

LEMMA IdleType == \A l \in Leaves : Idle(l) \in Command
BY VersionFacts DEF Idle, Command, Pcs

LEMMA TypeStep == TypeOK /\ [Next]_vars => TypeOK'
<1> SUFFICES ASSUME TypeOK, [Next]_vars PROVE TypeOK'
  OBVIOUS
<1> USE VersionFacts DEF TypeOK
<1>1. ASSUME NEW v \in Versions, Edit(v) PROVE TypeOK'
  <2>1. \A p \in Clis : [cli[p] EXCEPT !.seen = @ \cup {v}] \in Command
    BY DEF Command
  <2>2. QED
    BY <1>1, <2>1 DEF Edit
<1>2. ASSUME NEW p \in Clis, NEW l \in Leaves, NEW refresh \in BOOLEAN, Start(p, l, refresh)
      PROVE  TypeOK'
  <2>1. \A at \in Pcs, w \in BOOLEAN :
           [Idle(l) EXCEPT !.pc = at, !.warned = w, !.seen = {src}] \in Command
    BY VersionFacts DEF Idle, Command, Pcs
  <2>2. QED
    BY <1>2, <2>1 DEF Start, Pcs
<1>3. ASSUME NEW p \in Clis, Step(p) PROVE TypeOK'
  <2>1. CASE CatalogBuild(p)
    BY <2>1 DEF CatalogBuild, Command, Pcs
  <2>2. CASE CatalogReplace(p)
    BY <2>2 DEF CatalogReplace, Command, Pcs
  <2>3. CASE CatalogRecord(p)
    BY <2>3 DEF CatalogRecord, Fingerprint, Command, Pcs
  <2>4. CASE CatalogLoad(p)
    <3>1. [cli[p] EXCEPT !.pc = "ids", !.catalog = cat] \in Command
      BY DEF Command, Pcs
    <3>2. QED
      BY <2>4, <3>1 DEF CatalogLoad
  <2>5. CASE IdsCheck(p)
    <3>1. \A at \in Pcs, v \in Cached :
             [cli[p] EXCEPT !.key = src, !.pc = at, !.stacks = v] \in Command
      BY DEF Command
    <3>2. QED
      BY <2>5, <3>1 DEF IdsCheck, Fingerprint, Pcs
  <2>6. CASE IdsBuild(p)
    BY <2>6, IdleType DEF IdsBuild, Command, Pcs
  <2>7. CASE IdsWrite(p)
    BY <2>7 DEF IdsWrite, NoIds, Command, Pcs
  <2>8. CASE StageCheck(p)
    <3>1. \A at \in Pcs, v \in Cached :
             [cli[p] EXCEPT !.key = src, !.pc = at, !.config = v] \in Command
      BY DEF Command
    <3>2. cli[p].leaf \in Leaves
      BY DEF Command
    <3>3. QED
      BY <2>8, <3>1, <3>2 DEF StageCheck, Fingerprint, Pcs
  <2>9. CASE StageBuild(p)
    BY <2>9, IdleType DEF StageBuild, Command, Pcs
  <2>10. CASE StageUnlink(p)
    BY <2>10 DEF StageUnlink, Command, Pcs
  <2>11. CASE StageCopy(p)
    BY <2>11 DEF StageCopy, Command, Pcs
  <2>12. CASE StageRecord(p)
    <3>1. cli[p].leaf \in Leaves /\ cli[p].key \in Cached
      BY DEF Command
    <3>2. [cli[p] EXCEPT !.pc = "done", !.config = dest[cli[p].leaf]] \in Command
      BY <3>1 DEF Command, Pcs
    <3>3. side' \in [Leaves -> Cached]
      BY <2>12, <3>1 DEF StageRecord
    <3>4. QED
      BY <2>12, <3>2, <3>3 DEF StageRecord
  <2>13. QED
    BY <1>3, <2>1, <2>2, <2>3, <2>4, <2>5, <2>6, <2>7, <2>8, <2>9, <2>10, <2>11, <2>12
    DEF Step
<1>4. ASSUME NEW p \in Clis, Finish(p) PROVE TypeOK'
  BY <1>4, IdleType DEF Finish, Command
<1>5. CASE UNCHANGED vars
  BY <1>5 DEF vars
<1>6. QED
  BY <1>1, <1>2, <1>3, <1>4, <1>5 DEF Next

(* The caches and the commands keep their types. *)
THEOREM TypeCorrect == Spec => []TypeOK
<1>1. ASSUME Init PROVE TypeOK
  <2>1. cli \in [Clis -> Command]
    BY <1>1, IdleType DEF Init
  <2>2. QED
    BY <1>1, <2>1, VersionFacts DEF Init, NoIds, TypeOK
<1>2. QED
  BY <1>1, TypeStep, PTL DEF Spec

-----------------------------------------------------------------------------
(* No false hit *)

Staging == {"stageBuild", "stageUnlink", "stageCopy", "stageRecord"}
Built == {"stageUnlink", "stageCopy", "stageRecord"}

(* One command runs at a time. *)
Alone == \A p, q \in Clis : cli[p].pc # "idle" /\ cli[q].pc # "idle" => p = q

(* A leaf's configuration is at least as new as the fingerprint recorded for it,
   and neither is from the future: a hit on the current version is exact. *)
Ordered ==
    \A l \in Leaves : /\ side[l] <= src /\ dest[l] <= src
                      /\ dest[l] # NoFile => side[l] <= dest[l]

(* A command that renders took its fingerprint no earlier than the recorded one
   and builds no earlier than its fingerprint, while it was watching. *)
Rendering ==
    \A p \in Clis :
        /\ cli[p].pc # "idle" => src \in cli[p].seen
        /\ cli[p].pc \in Staging => /\ side[cli[p].leaf] <= cli[p].key
                                    /\ cli[p].key <= src
        /\ cli[p].pc \in Built => /\ cli[p].key <= cli[p].built
                                  /\ cli[p].built <= src
                                  /\ cli[p].built \in cli[p].seen
        /\ cli[p].pc = "stageRecord" => dest[cli[p].leaf] = cli[p].built

StageInv == Alone /\ Ordered /\ Rendering /\ ConfigIsCurrent

LEMMA StageInit == Init => StageInv
BY VersionFacts DEF Init, StageInv, Alone, Ordered, Rendering, ConfigIsCurrent,
   Idle, Staging, Built, NoFile, Versions, Cached

LEMMA StageStep ==
    ASSUME Serial, ~Reverts, TypeOK, StageInv, [Next]_vars
    PROVE  StageInv'
<1> USE DEF StageInv
<1>1. ASSUME NEW v \in Versions, Edit(v) PROVE StageInv'
  <2>1. src < v /\ src' = v /\ src \in Int /\ v \in Int
    BY <1>1, VersionFacts DEF Edit, TypeOK
  <2>2. \A p \in Clis : /\ cli'[p].pc = cli[p].pc /\ cli'[p].leaf = cli[p].leaf
                        /\ cli'[p].key = cli[p].key /\ cli'[p].built = cli[p].built
                        /\ cli'[p].config = cli[p].config
                        /\ cli[p].key \in Int /\ cli[p].built \in Int
                        /\ cli[p].seen \subseteq cli'[p].seen
                        /\ cli[p].pc # "idle" => v \in cli'[p].seen
    BY <1>1, VersionFacts DEF Edit, TypeOK, Command
  <2>3. \A l \in Leaves : side[l] \in Int /\ dest[l] \in Int
    BY VersionFacts DEF TypeOK
  <2>4. \A p \in Clis : cli[p].leaf \in Leaves
    BY DEF TypeOK, Command
  <2>5. Alone'
    BY <2>2 DEF Alone
  <2>6. Ordered'
    BY <1>1, <2>1, <2>3 DEF Edit, Ordered
  <2>7. Rendering'
    BY <1>1, <2>1, <2>2, <2>3, <2>4 DEF Edit, Rendering, Staging, Built
  <2>8. ConfigIsCurrent'
    BY <2>2 DEF ConfigIsCurrent
  <2>9. QED
    BY <2>5, <2>6, <2>7, <2>8
<1>2. ASSUME NEW p \in Clis, NEW l \in Leaves, NEW refresh \in BOOLEAN, Start(p, l, refresh)
      PROVE  StageInv'
  <2>1. /\ \A q \in Clis : cli[q].pc = "idle" /\ (q # p => cli'[q] = cli[q])
        /\ cli'[p].pc \in {"catBuild", "catLoad"} /\ cli'[p].seen = {src}
    BY <1>2 DEF Start, Idle, TypeOK
  <2>2. QED
    BY <1>2, <2>1 DEF Start, Alone, Ordered, Rendering, ConfigIsCurrent, Staging, Built
<1>3. ASSUME NEW p \in Clis, Step(p) PROVE StageInv'
  <2> DEFINE l == cli[p].leaf
  <2>1. /\ src \in Int /\ src # NoFile /\ l \in Leaves
        /\ \A k \in Leaves : side[k] \in Int /\ dest[k] \in Int
        /\ cli[p].key \in Int /\ cli[p].built \in Int
    <3>1. src \in Int /\ src # NoFile
      BY VersionAssumption DEF TypeOK, Versions, NoFile
    <3>2. cli[p] \in Command
      BY DEF TypeOK
    <3>3. l \in Leaves /\ cli[p].key \in Int /\ cli[p].built \in Int
      BY <3>2, VersionFacts DEF Command
    <3>4. QED
      BY <3>1, <3>3, VersionFacts DEF TypeOK
  <2>2. cli[p].pc # "idle" /\ \A q \in Clis : q # p => cli[q].pc = "idle"
    BY <1>3 DEF Alone, Step, CatalogBuild, CatalogReplace, CatalogRecord, CatalogLoad,
       IdsCheck, IdsBuild, IdsWrite, StageCheck, StageBuild, StageUnlink, StageCopy, StageRecord
  <2>3. UNCHANGED src /\ \A q \in Clis : q # p => cli'[q] = cli[q]
    BY <1>3 DEF TypeOK, Step, CatalogBuild, CatalogReplace, CatalogRecord, CatalogLoad,
       IdsCheck, IdsBuild, IdsWrite, StageCheck, StageBuild, StageUnlink, StageCopy, StageRecord
  <2>4. Alone'
    BY <2>2, <2>3 DEF Alone
  <2>5. src \in cli[p].seen
    BY <2>2 DEF Rendering
  <2>6. CASE CatalogBuild(p) \/ CatalogReplace(p) \/ CatalogRecord(p) \/ CatalogLoad(p)
             \/ IdsCheck(p) \/ IdsBuild(p) \/ IdsWrite(p)
    <3>1. /\ cli'[p].pc \notin Staging \cup Built \cup {"done"}
          /\ cli'[p].pc # "idle" => cli'[p].seen = cli[p].seen
          /\ UNCHANGED <<dest, side>>
      BY <2>6 DEF TypeOK, Command, Idle, Staging, Built, CatalogBuild, CatalogReplace,
         CatalogRecord, CatalogLoad, IdsCheck, IdsBuild, IdsWrite
    <3>2. QED
      BY <2>2, <2>3, <2>4, <2>5, <3>1
      DEF Ordered, Rendering, ConfigIsCurrent, Staging, Built
  <2>7. CASE StageCheck(p)
    <3>1. /\ UNCHANGED <<dest, side>>
          /\ cli'[p].leaf = l /\ cli'[p].seen = cli[p].seen /\ cli'[p].key = src
          /\ \/ cli'[p].pc = "stageBuild"
             \/ /\ cli'[p].pc = "done" /\ cli'[p].config = dest[l]
                /\ dest[l] # NoFile /\ side[l] = src
      BY <2>7 DEF StageCheck, Fingerprint, TypeOK, Command
    <3>2. dest[l] # NoFile /\ side[l] = src => dest[l] = src
      BY <2>1 DEF Ordered
    <3>3. QED
      BY <2>1, <2>2, <2>3, <2>4, <2>5, <3>1, <3>2
      DEF Ordered, Rendering, ConfigIsCurrent, Staging, Built
  <2>8. CASE StageBuild(p)
    <3>1. /\ UNCHANGED <<dest, side>> /\ cli[p].pc = "stageBuild"
          /\ \/ cli'[p].pc = "idle"
             \/ /\ cli'[p].pc = "stageUnlink" /\ cli'[p].built = src
                /\ cli'[p].leaf = l /\ cli'[p].seen = cli[p].seen
                /\ cli'[p].key = cli[p].key
      BY <2>8 DEF StageBuild, Idle, TypeOK, Command
    <3>2. QED
      BY <2>1, <2>2, <2>3, <2>4, <2>5, <3>1
      DEF Ordered, Rendering, ConfigIsCurrent, Staging, Built
  <2>9. CASE StageUnlink(p)
    <3>1. /\ cli[p].pc = "stageUnlink" /\ UNCHANGED side
          /\ dest' = [dest EXCEPT ![l] = NoFile]
          /\ cli'[p] = [cli[p] EXCEPT !.pc = "stageCopy"]
      BY <2>9 DEF StageUnlink, TypeOK, Command
    <3>2. NoFile \in Int /\ NoFile <= src
      BY DEF TypeOK, Versions, NoFile
    <3>3. Ordered'
      BY <2>1, <2>3, <3>1, <3>2 DEF Ordered, TypeOK
    <3>4. QED
      BY <2>1, <2>2, <2>3, <2>4, <2>5, <3>1, <3>3
      DEF Rendering, ConfigIsCurrent, Staging, Built, TypeOK, Command
  <2>10. CASE StageCopy(p)
    <3>1. /\ cli[p].pc = "stageCopy" /\ UNCHANGED side
          /\ dest' = [dest EXCEPT ![l] = cli[p].built]
          /\ cli'[p] = [cli[p] EXCEPT !.pc = "stageRecord"]
      BY <2>10 DEF StageCopy, TypeOK, Command
    <3>2. side[l] <= cli[p].built /\ cli[p].built <= src
      BY <2>1, <3>1 DEF Rendering, Staging, Built
    <3>3. Ordered'
      BY <2>1, <2>3, <3>1, <3>2 DEF Ordered, TypeOK
    <3>4. dest'[l] = cli[p].built
      BY <2>1, <3>1 DEF TypeOK
    <3>5. QED
      BY <2>1, <2>2, <2>3, <2>4, <2>5, <3>1, <3>3, <3>4
      DEF Rendering, ConfigIsCurrent, Staging, Built, TypeOK, Command
  <2>11. CASE StageRecord(p)
    <3>1. /\ cli[p].pc = "stageRecord" /\ UNCHANGED dest
          /\ side' \in {side, [side EXCEPT ![l] = NoFile], [side EXCEPT ![l] = cli[p].key]}
          /\ cli'[p] = [cli[p] EXCEPT !.pc = "done", !.config = dest[l]]
      BY <2>11 DEF StageRecord, TypeOK, Command
    <3>2. /\ dest[l] = cli[p].built /\ cli[p].built \in cli[p].seen
          /\ cli[p].key <= cli[p].built /\ cli[p].built <= src
      BY <3>1 DEF Rendering, Built
    <3>3. Ordered'
      <4>1. NoFile <= src /\ \A k \in Leaves : NoFile <= dest[k]
        BY VersionAssumption DEF TypeOK, Cached, Versions, NoFile
      <4>2. NoFile \in Int
        BY DEF NoFile
      <4>3. \A k \in Leaves : \/ side'[k] \in {side[k], NoFile}
                              \/ (k = l /\ side'[k] = cli[p].key)
        BY <2>1, <3>1 DEF TypeOK
      <4>4. ASSUME NEW k \in Leaves
            PROVE  /\ side'[k] <= src /\ dest[k] <= src
                   /\ (dest[k] # NoFile => side'[k] <= dest[k])
        <5>1. cli[p].key <= src /\ cli[p].key <= dest[l]
          BY <2>1, <3>2
        <5>2. /\ side[k] <= src /\ dest[k] <= src
              /\ (dest[k] # NoFile => side[k] <= dest[k])
          BY DEF Ordered
        <5>3. QED
          BY <4>1, <4>3, <5>1, <5>2
      <4>5. QED
        BY <2>3, <3>1, <4>4 DEF Ordered
    <3>4. /\ cli'[p].pc = "done" /\ cli'[p].seen = cli[p].seen
          /\ cli'[p].config \in cli[p].seen
      BY <3>1, <3>2 DEF TypeOK, Command
    <3>5. Rendering'
      BY <2>2, <2>3, <2>5, <3>4 DEF Rendering, Staging, Built
    <3>6. ConfigIsCurrent'
      BY <2>2, <2>3, <3>4 DEF ConfigIsCurrent
    <3>7. QED
      BY <2>4, <3>3, <3>5, <3>6
  <2>12. QED
    BY <1>3, <2>6, <2>7, <2>8, <2>9, <2>10, <2>11 DEF Step
<1>4. ASSUME NEW p \in Clis, Finish(p) PROVE StageInv'
  <2>1. /\ \A q \in Clis : q # p => cli'[q] = cli[q]
        /\ cli'[p].pc = "idle"
    BY <1>4 DEF Finish, Idle, TypeOK
  <2>2. QED
    BY <1>4, <2>1 DEF Finish, Alone, Ordered, Rendering, ConfigIsCurrent, Staging, Built
<1>5. CASE UNCHANGED vars
  BY <1>5 DEF vars, Alone, Ordered, Rendering, ConfigIsCurrent, Staging, Built
<1>6. QED
  BY <1>1, <1>2, <1>3, <1>4, <1>5 DEF Next

(* If commands run one at a time and the source never goes back to an earlier
   version, then whatever edits and kills happen at any step, tofu runs on a
   configuration the source had while the command ran. *)
THEOREM ConfigCorrect == Serial /\ ~Reverts /\ Spec => []ConfigIsCurrent
<1>1. CASE Serial /\ ~Reverts
  <2>1. TypeOK /\ StageInv /\ [Next]_vars => StageInv'
    BY <1>1, StageStep
  <2>2. StageInv => ConfigIsCurrent
    BY DEF StageInv
  <2>3. QED
    BY <2>1, <2>2, StageInit, TypeCorrect, PTL DEF Spec
<1>2. QED
  BY <1>1

-----------------------------------------------------------------------------
(* No stale list, and no stale catalog in silence *)

Enumerated == {"idsWrite", "stage", "done"} \cup Staging
Loaded == {"ids", "idsBuild"} \cup Enumerated

(* The list of leaf stacks is at least as new as the fingerprint filed with it. *)
Listed == ids.key <= ids.val /\ ids.val <= src

(* A command enumerates no earlier than its fingerprint, while it was watching. *)
Enumerating ==
    \A p \in Clis :
        /\ cli[p].pc \in {"idsBuild", "idsWrite"} => cli[p].key <= src
        /\ cli[p].pc = "idsWrite" => /\ cli[p].key <= cli[p].built
                                     /\ cli[p].built <= src
        /\ cli[p].pc \in Enumerated => cli[p].stacks \in cli[p].seen

(* The catalog is at least as new as the fingerprint recorded for it, unless an
   edit slipped in between the two. *)
Catalogued ==
    /\ cat <= src /\ catSrc <= src
    /\ ~raced /\ cat # NoFile => catSrc <= cat

(* A command that refreshes the catalog builds it while it is watching, and one
   that says nothing has seen the version it is about to load or has loaded. *)
Refreshing ==
    \A p \in Clis :
        /\ cli[p].pc = "catReplace" => /\ catSrc <= cli[p].built /\ cli[p].built <= src
                                       /\ cli[p].built \in cli[p].seen
        /\ cli[p].pc = "catRecord" => cat \in cli[p].seen
        /\ cli[p].pc = "catLoad" /\ ~cli[p].warned /\ ~raced => cat \in cli[p].seen \cup {NoFile}
        /\ cli[p].pc \in Loaded /\ ~cli[p].warned /\ ~raced =>
               cli[p].catalog \in cli[p].seen \cup {NoFile}

InputsInv == Listed /\ Enumerating /\ Catalogued /\ Refreshing

LEMMA InputsFollow == InputsInv => InputsAreCurrent
BY DEF InputsInv, Enumerating, Refreshing, InputsAreCurrent, Loaded, Enumerated

LEMMA InputsInit == Init => InputsInv
BY VersionFacts DEF Init, InputsInv, Listed, Enumerating, Catalogued, Refreshing, Idle, NoIds,
   Staging, Enumerated, Loaded, NoFile, Versions, Cached

LEMMA InputsStep ==
    ASSUME Serial, ~Reverts, TypeOK, StageInv, InputsInv, [Next]_vars
    PROVE  InputsInv'
<1> USE DEF InputsInv
<1>0. /\ src \in Int /\ cat \in Int /\ catSrc \in Int /\ ids.key \in Int /\ ids.val \in Int
      /\ NoFile \in Int /\ NoFile <= src
      /\ \A p \in Clis : cli[p].key \in Int /\ cli[p].built \in Int
  <2>1. src \in Int /\ NoFile \in Int /\ NoFile <= src
    BY VersionAssumption DEF TypeOK, Versions, NoFile
  <2>2. cat \in Int /\ catSrc \in Int /\ ids.key \in Int /\ ids.val \in Int
    BY VersionFacts DEF TypeOK
  <2>3. \A p \in Clis : cli[p].key \in Int /\ cli[p].built \in Int
    BY VersionFacts DEF TypeOK, Command
  <2> QED BY <2>1, <2>2, <2>3
<1>1. ASSUME NEW v \in Versions, Edit(v) PROVE InputsInv'
  <2>1. /\ src < v /\ src' = v /\ v \in Int /\ UNCHANGED <<cat, catSrc, ids, raced>>
    BY <1>1, VersionFacts DEF Edit, TypeOK
  <2>2. \A p \in Clis : /\ cli'[p].pc = cli[p].pc
                        /\ cli'[p].key = cli[p].key /\ cli'[p].built = cli[p].built
                        /\ cli'[p].stacks = cli[p].stacks /\ cli'[p].catalog = cli[p].catalog
                        /\ cli'[p].warned = cli[p].warned
                        /\ cli[p].seen \subseteq cli'[p].seen
    BY <1>1 DEF Edit, TypeOK, Command
  <2>3. Listed' /\ Catalogued'
    BY <1>0, <2>1 DEF Listed, Catalogued
  <2>4. Enumerating'
    BY <1>0, <2>1, <2>2 DEF Enumerating
  <2>5. Refreshing'
    BY <1>0, <2>1, <2>2 DEF Refreshing
  <2> QED BY <2>3, <2>4, <2>5
<1>2. ASSUME NEW p \in Clis, NEW l \in Leaves, NEW refresh \in BOOLEAN, Start(p, l, refresh)
      PROVE  InputsInv'
  <2>1. /\ \A q \in Clis : cli[q].pc = "idle" /\ (q # p => cli'[q] = cli[q])
        /\ UNCHANGED <<src, cat, catSrc, ids, raced>> /\ cli'[p].seen = {src}
        /\ \/ cli'[p].pc = "catBuild"
           \/ /\ cli'[p].pc = "catLoad"
              /\ ~cli'[p].warned => cat = NoFile \/ catSrc = src
    BY <1>2 DEF Start, Idle, TypeOK, Fingerprint
  <2>2. ~raced /\ cat # NoFile /\ catSrc = src => cat = src
    BY <1>0 DEF Catalogued
  <2>3. Listed' /\ Catalogued' /\ Enumerating'
    BY <2>1 DEF Listed, Catalogued, Enumerating, Enumerated, Staging
  <2>4. Refreshing'
    BY <2>1, <2>2 DEF Refreshing, Loaded, Enumerated, Staging
  <2> QED BY <2>3, <2>4
<1>3. ASSUME NEW p \in Clis, Step(p) PROVE InputsInv'
  <2>1. cli[p].pc # "idle" /\ \A q \in Clis : q # p => cli[q].pc = "idle"
    BY <1>3 DEF StageInv, Alone, Step, CatalogBuild, CatalogReplace, CatalogRecord, CatalogLoad,
       IdsCheck, IdsBuild, IdsWrite, StageCheck, StageBuild, StageUnlink, StageCopy, StageRecord
  <2>2. UNCHANGED src /\ \A q \in Clis : q # p => cli'[q] = cli[q]
    BY <1>3 DEF TypeOK, Step, CatalogBuild, CatalogReplace, CatalogRecord, CatalogLoad,
       IdsCheck, IdsBuild, IdsWrite, StageCheck, StageBuild, StageUnlink, StageCopy, StageRecord
  <2>3. src \in cli[p].seen /\ cli[p] \in Command
    BY <2>1 DEF StageInv, Rendering, TypeOK
  <2> USE DEF Loaded, Enumerated, Staging
  <2>4. CASE CatalogBuild(p)
    <3>1. /\ UNCHANGED <<cat, catSrc, ids, raced>> /\ cli'[p].seen = cli[p].seen
          /\ \/ cli'[p].pc = "catReplace" /\ cli'[p].built = src
             \/ cli'[p].pc = "catLoad" /\ cli'[p].warned
      BY <2>3, <2>4 DEF CatalogBuild, TypeOK, Command
    <3>2. Listed' /\ Catalogued' /\ Enumerating'
      BY <2>1, <2>2, <3>1 DEF Listed, Catalogued, Enumerating
    <3>3. Refreshing'
      BY <1>0, <2>1, <2>2, <2>3, <3>1 DEF Refreshing, Catalogued
    <3> QED BY <3>2, <3>3
  <2>5. CASE CatalogReplace(p)
    <3>1. /\ UNCHANGED <<catSrc, ids, raced>> /\ cat' = cli[p].built /\ cli[p].pc = "catReplace"
          /\ cli'[p].seen = cli[p].seen /\ cli'[p].pc = "catRecord"
      BY <2>3, <2>5 DEF CatalogReplace, TypeOK, Command
    <3>2. Listed' /\ Enumerating'
      BY <2>1, <2>2, <3>1 DEF Listed, Enumerating
    <3>3. Catalogued' /\ Refreshing'
      BY <1>0, <2>1, <2>2, <3>1 DEF Refreshing, Catalogued
    <3> QED BY <3>2, <3>3
  <2>6. CASE CatalogRecord(p)
    <3>1. /\ UNCHANGED <<cat, ids>> /\ catSrc' = src /\ raced' = (cat # src)
          /\ cli[p].pc = "catRecord" /\ cli'[p].seen = cli[p].seen /\ cli'[p].pc = "catLoad"
      BY <2>3, <2>6 DEF CatalogRecord, Fingerprint, TypeOK, Command
    <3>2. Listed' /\ Enumerating'
      BY <2>1, <2>2, <3>1 DEF Listed, Enumerating
    <3>3. ~raced' => cat' = catSrc'
      BY <3>1
    <3>4. Catalogued'
      BY <1>0, <2>2, <3>1, <3>3 DEF Catalogued
    <3>5. cat' \in cli'[p].seen
      BY <3>1 DEF Refreshing
    <3>6. Refreshing'
      BY <2>1, <2>2, <3>1, <3>5 DEF Refreshing
    <3> QED BY <3>2, <3>4, <3>6
  <2>7. CASE CatalogLoad(p)
    <3>1. /\ UNCHANGED <<cat, catSrc, ids, raced>> /\ cli[p].pc = "catLoad"
          /\ cli'[p].seen = cli[p].seen /\ cli'[p].pc = "ids"
          /\ cli'[p].catalog = cat /\ cli'[p].warned = cli[p].warned
      BY <2>3, <2>7 DEF CatalogLoad, TypeOK, Command
    <3>2. Listed' /\ Catalogued' /\ Enumerating'
      BY <2>1, <2>2, <3>1 DEF Listed, Catalogued, Enumerating
    <3>3. Refreshing'
      BY <2>1, <2>2, <3>1 DEF Refreshing
    <3> QED BY <3>2, <3>3
  <2>8. ASSUME UNCHANGED <<cat, catSrc, raced>>,
               cli[p].pc \in Loaded, cli'[p].pc \in Loaded \cup {"idle"},
               cli'[p].pc # "idle" => /\ cli'[p].seen = cli[p].seen
                                     /\ cli'[p].catalog = cli[p].catalog
                                     /\ cli'[p].warned = cli[p].warned
        PROVE  Catalogued' /\ Refreshing'
    BY <2>1, <2>2, <2>8 DEF Refreshing, Catalogued
  <2>9. CASE IdsCheck(p)
    <3>1. /\ UNCHANGED <<cat, catSrc, ids, raced>> /\ cli[p].pc = "ids"
          /\ cli'[p].seen = cli[p].seen /\ cli'[p].key = src
          /\ cli'[p].catalog = cli[p].catalog /\ cli'[p].warned = cli[p].warned
          /\ \/ cli'[p].pc = "idsBuild"
             \/ cli'[p].pc = "stage" /\ ids.key = src /\ cli'[p].stacks = ids.val
      BY <2>3, <2>9 DEF IdsCheck, Fingerprint, TypeOK, Command
    <3>2. ids.key = src => ids.val = src
      BY <1>0 DEF Listed
    <3>3. Listed' /\ Enumerating'
      BY <1>0, <2>1, <2>2, <2>3, <3>1, <3>2 DEF Listed, Enumerating
    <3> QED BY <2>8, <3>1, <3>3
  <2>10. CASE IdsBuild(p)
    <3>1. /\ UNCHANGED <<cat, catSrc, ids, raced>> /\ cli[p].pc = "idsBuild"
          /\ \/ cli'[p].pc = "idle"
             \/ /\ cli'[p].pc = "idsWrite" /\ cli'[p].built = src /\ cli'[p].stacks = src
                /\ cli'[p].seen = cli[p].seen /\ cli'[p].key = cli[p].key
                /\ cli'[p].catalog = cli[p].catalog /\ cli'[p].warned = cli[p].warned
      BY <2>3, <2>10 DEF IdsBuild, Idle, TypeOK, Command
    <3>2. Listed' /\ Enumerating'
      BY <1>0, <2>1, <2>2, <2>3, <3>1 DEF Listed, Enumerating
    <3> QED BY <2>8, <3>1, <3>2
  <2>11. CASE IdsWrite(p)
    <3>1. /\ UNCHANGED <<cat, catSrc, raced>> /\ cli[p].pc = "idsWrite"
          /\ \/ UNCHANGED ids
             \/ ids'.key = NoFile /\ ids'.val = NoFile
             \/ ids'.key = cli[p].key /\ ids'.val = cli[p].built
          /\ cli'[p].pc = "stage" /\ cli'[p].stacks = cli[p].stacks
          /\ cli'[p].seen = cli[p].seen
          /\ cli'[p].catalog = cli[p].catalog /\ cli'[p].warned = cli[p].warned
      BY <2>3, <2>11 DEF IdsWrite, NoIds, TypeOK, Command
    <3>2. Listed'
      BY <1>0, <2>2, <3>1 DEF Listed, Enumerating
    <3>3. Enumerating'
      BY <2>1, <2>2, <3>1 DEF Enumerating
    <3> QED BY <2>8, <3>1, <3>2, <3>3
  <2>12. CASE StageCheck(p) \/ StageBuild(p) \/ StageUnlink(p) \/ StageCopy(p) \/ StageRecord(p)
    <3>1. /\ UNCHANGED <<cat, catSrc, ids, raced>>
          /\ cli[p].pc \in {"stage"} \cup Staging
          /\ \/ cli'[p].pc = "idle"
             \/ /\ cli'[p].pc \in {"done"} \cup Staging
                /\ cli'[p].stacks = cli[p].stacks /\ cli'[p].seen = cli[p].seen
                /\ cli'[p].catalog = cli[p].catalog /\ cli'[p].warned = cli[p].warned
      BY <2>3, <2>12 DEF StageCheck, StageBuild, StageUnlink, StageCopy, StageRecord, Idle,
         TypeOK, Command
    <3>2. Listed' /\ Enumerating'
      BY <2>1, <2>2, <3>1 DEF Listed, Enumerating
    <3> QED BY <2>8, <3>1, <3>2
  <2> QED
    BY <1>3, <2>4, <2>5, <2>6, <2>7, <2>9, <2>10, <2>11, <2>12 DEF Step
<1>4. ASSUME NEW p \in Clis, Finish(p) PROVE InputsInv'
  <2>1. /\ \A q \in Clis : q # p => cli'[q] = cli[q]
        /\ cli'[p].pc = "idle" /\ UNCHANGED <<src, cat, catSrc, ids, raced>>
    BY <1>4 DEF Finish, Idle, TypeOK
  <2> QED BY <2>1 DEF Listed, Enumerating, Catalogued, Refreshing, Loaded, Enumerated, Staging
<1>5. CASE UNCHANGED vars
  BY <1>5 DEF vars, Listed, Enumerating, Catalogued, Refreshing
<1> QED BY <1>1, <1>2, <1>3, <1>4, <1>5 DEF Next

(* Under the same conditions no command acts on a stale list of leaf stacks; and
   it acts on a catalog of a version that the source did not have meanwhile only
   if it said so, or if an edit slipped in between the last build of the catalog
   and its fingerprint. *)
THEOREM InputsCorrect == Serial /\ ~Reverts /\ Spec => []InputsAreCurrent
<1>1. CASE Serial /\ ~Reverts
  <2>1. TypeOK /\ StageInv /\ [Next]_vars => StageInv'
    BY <1>1, StageStep
  <2>2. TypeOK /\ StageInv /\ InputsInv /\ [Next]_vars => InputsInv'
    BY <1>1, InputsStep
  <2> QED
    BY <2>1, <2>2, StageInit, InputsInit, InputsFollow, TypeCorrect, PTL DEF Spec
<1> QED
  BY <1>1

-----------------------------------------------------------------------------
(* LauncherEnv: the inductive invariant *)

(* The steps of the launcher up to the one that reads a credential. *)
Due(v) ==
    CASE v = "AWS_ACCESS_KEY_ID"    -> {"dotenv", "AWS_ACCESS_KEY_ID"}
      [] v = "PG_CONN_STR"          -> {"dotenv", "AWS_ACCESS_KEY_ID", "PG_CONN_STR"}
      [] v = "CLOUDFLARE_API_TOKEN" -> Steps \ {"HEADSCALE_API_KEY", "ready"}
      [] v = "HEADSCALE_API_KEY"    -> Steps \ {"ready"}

(* What the launcher finds where it looks for a credential. *)
Read(v) == IF sc.path[v] = None THEN {} ELSE At(SopsFileFor(v), v)

EnvTypes ==
    /\ sc \in Scenarios /\ env \in [Vars -> Held \union {Unset, Blank}]
    /\ pc \in Steps \union Checks /\ ok \in BOOLEAN /\ creds \in Keys \union {None}

(* A variable that the operator did not set is blank or what was found for it,
   and what was found once its step is over, unless a read failed. *)
Filled ==
    \A w \in SecretVars : ~Operator(w) =>
        /\ env[w] \in {Unset, Blank} \union Read(FiledAs(w))
        /\ ~missed /\ sc.sops # None /\ pc \notin Due(FiledAs(w)) /\ Read(FiledAs(w)) # {}
              => env[w] \in Read(FiledAs(w))

(* The two Proxmox variables, before either is offered, and between the two. *)
Pair == {"endpoint", "api_token"}
Clean ==
    (sc.sops # None /\ \A f \in Pair : ~Operator(PveVar[f])) =>
        /\ pc \in Due("PG_CONN_STR") \union {"manifest"} =>
              \A f \in Pair : env[PveVar[f]] \in {Unset, Blank}
        /\ pc = "proxmox" =>
              /\ env[PveVar["api_token"]] \in {Unset, Blank}
              /\ IF sc.endpoints = {} THEN env[PveVar["endpoint"]] \in {Unset, Blank}
                 ELSE env[PveVar["endpoint"]] = First(sc.endpoints)

(* When every cluster the fleet knows the address of has its token filed, the
   two are of one cluster as soon as both were offered. *)
Single ==
    LET filed  == sc.pve[IntegrationsFile]
        tokens == {c \in Clusters : <<c, "api_token">> \in filed}
        urls   == {c \in Clusters : <<c, "endpoint">> \in filed}
    IN  /\ ~missed /\ sc.sops # None /\ \A f \in Pair : ~Operator(PveVar[f])
        /\ {sc.endpoints, urls} \subseteq {tokens, {}} /\ {sc.endpoints, urls} # {{}}
        /\ ~ \E f \in PveFields : <<Flat, f>> \in filed
Agreed ==
    pc \notin Due("PG_CONN_STR") \union {"manifest", "proxmox"} /\ Single =>
        env[PveVar["endpoint"]] = env[PveVar["api_token"]]

(* Where backend-check is, it has found out what it says so far. *)
Here == At(IntegrationsFile, "AWS_ACCESS_KEY_ID")
Judged ==
    /\ pc \in {"s3", "sts", "bucket"} => EffectiveType = "s3"
    /\ pc = "pg" => EffectiveType = "pg"
    /\ pc \in {"sts", "bucket"} => (ok <=> Here # {}) /\ (Here # {} => creds \in Here)
    /\ pc = "bucket" => creds \in sc.sts
    /\ pc # "done" => verdict = None

EnvInv == EnvTypes /\ Filled /\ Clean /\ Agreed /\ Judged /\ VerdictTrue

-----------------------------------------------------------------------------
LEMMA Assumed ==
    /\ Scenarios \subseteq Scenario
    /\ \A s \in Scenarios :
        /\ s.path["AWS_ACCESS_KEY_ID"] # None
        /\ s.path["CLOUDFLARE_API_TOKEN"] = "integrations"
        /\ \A e, g \in s.keys : e.file = g.file /\ e.var = g.var => e = g
    /\ Clusters \cap (Keys \union {None, Unset, Blank, Flat}) = {}
    /\ Sorted \in Seq(Clusters)
BY EnvAssumption

(* The order of the steps. *)
LEMMA AfterIs ==
    /\ After("dotenv") = "AWS_ACCESS_KEY_ID"
    /\ After("AWS_ACCESS_KEY_ID") = "PG_CONN_STR"
    /\ After("PG_CONN_STR") = "manifest"
    /\ After("manifest") = "proxmox"
    /\ After("proxmox") = "CLOUDFLARE_API_TOKEN"
    /\ After("CLOUDFLARE_API_TOKEN") = "HEADSCALE_API_KEY"
    /\ After("HEADSCALE_API_KEY") = "ready"
<1>1. DOMAIN Order = 1 .. 8
  BY DEF Order
<1> QED
  BY <1>1 DEF After, Order

LEMMA StepsAre ==
    Steps = {"dotenv", "AWS_ACCESS_KEY_ID", "PG_CONN_STR", "manifest", "proxmox",
             "CLOUDFLARE_API_TOKEN", "HEADSCALE_API_KEY", "ready"}
<1>1. DOMAIN Order = 1 .. 8
  BY DEF Order
<1> QED
  BY <1>1 DEF Steps, Order

(* A set of naturals has a least one: of the intervals up to its elements, one
   includes no other. *)
LEMMA Least ==
    ASSUME NEW S, S \subseteq Nat, S # {}
    PROVE  \E x \in S : \A y \in S : x <= y
<1> DEFINE T == {1 .. x : x \in S}
<1>1. T \subseteq FiniteSubsetsOf(Nat) /\ T # {}
  <2>1. \A x \in S : 1 .. x \subseteq Nat /\ IsFiniteSet(1 .. x)
    BY FS_Interval
  <2> QED BY <2>1 DEF FiniteSubsetsOf
<1>2. \E t \in T : \A u \in T : <<u, t>> \notin StrictSubsetOrdering(Nat)
  <2> HIDE DEF T
  <2> QED BY <1>1, WFMin, FS_StrictSubsetOrderingWellFounded
<1>3. PICK x \in S : \A y \in S : <<1 .. y, 1 .. x>> \notin StrictSubsetOrdering(Nat)
  BY <1>2
<1>4. ASSUME NEW y \in S, y < x PROVE FALSE
  <2>1. 1 .. y \subseteq 1 .. x /\ x \in 1 .. x /\ x \notin 1 .. y
    BY <1>4
  <2>2. <<1 .. y, 1 .. x>> \in StrictSubsetOrdering(Nat)
    BY <2>1 DEF StrictSubsetOrdering
  <2> QED BY <1>3, <2>2
<1> QED BY <1>4

(* The first instance of a set, in sorted order, is one of it. *)
LEMMA FirstIs == ASSUME NEW S, S \subseteq Clusters, S # {} PROVE First(S) \in S
<1>1. \A c \in S : Rank(c) \in Nat
  <2> SUFFICES ASSUME NEW c \in S PROVE Rank(c) \in Nat
    OBVIOUS
  <2>1. \E i \in DOMAIN Sorted : Sorted[i] = c
    BY DEF Clusters
  <2>2. Rank(c) \in DOMAIN Sorted
    BY <2>1 DEF Rank
  <2> QED
    BY <2>2, Assumed
<1>2. PICK c \in S : \A d \in S : Rank(c) <= Rank(d)
  <2> DEFINE R == {Rank(d) : d \in S}
  <2>1. R \subseteq Nat /\ R # {}
    BY <1>1
  <2>2. \E x \in R : \A y \in R : x <= y
    <3> HIDE DEF R
    <3> QED BY <2>1, Least
  <2> QED BY <2>2
<1> QED
  BY <1>2 DEF First

-----------------------------------------------------------------------------
LEMMA Marks ==
    /\ Unset \notin Held /\ Blank \notin Held /\ None \notin Held /\ Flat \notin Clusters
    /\ Unset # Blank /\ Keys \subseteq Held /\ Clusters \subseteq Held /\ Flat \in Held
BY Assumed DEF Held, Keys, Unset, Blank, None, Flat

LEMMA VarsAre ==
    /\ PveVar["endpoint"] = "PROXMOX_VE_ENDPOINT" /\ PveVar["api_token"] = "PROXMOX_VE_API_TOKEN"
    /\ PveVar["username"] = "PROXMOX_VE_USERNAME"
    /\ \A f \in PveFields : PveVar[f] \in Vars \ SecretVars
    /\ Credentials \subseteq SecretVars /\ SecretVars \subseteq Vars /\ Pair \subseteq PveFields
    /\ \A w \in SecretVars : FiledAs(w) \in Credentials
BY DEF PveVar, PveFields, Vars, Credentials, SecretVars, FiledAs, Pair

(* What is found in a file is a key, and at most one. *)
LEMMA FoundIsKey ==
    ASSUME EnvTypes, NEW file, NEW v
    PROVE  At(file, v) \subseteq Keys /\ \A j, k \in At(file, v) : j = k
<1>1. sc \in Scenario /\ sc.keys \subseteq [file : Files, var : Credentials, key : Keys]
  BY Assumed DEF EnvTypes, Scenario
<1>2. \A e, g \in sc.keys : e.file = g.file /\ e.var = g.var => e = g
  BY Assumed DEF EnvTypes
<1> QED
  BY <1>1, <1>2 DEF At

LEMMA ReadIsKey == ASSUME EnvTypes, NEW v PROVE Read(v) \subseteq Keys
BY FoundIsKey DEF Read

(* Everything that is looked up in the scenario stays as it is. *)
LEMMA SameScenario ==
    ASSUME sc' = sc
    PROVE  /\ \A v : (Operator(v)' <=> Operator(v)) /\ Read(v)' = Read(v)
           /\ Here' = Here /\ EffectiveType' = EffectiveType
           /\ IntegrationsFile' = IntegrationsFile /\ \A v : SopsFileFor(v)' = SopsFileFor(v)
           /\ (missed => missed') => (Single' => Single)
BY DEF Single, Pair, Operator, Read, Here, At, SopsFileFor, FileFor, IntegrationsFile, EffectiveType

LEMMA EnvBegins == EnvInit => EnvInv
<1> SUFFICES ASSUME EnvInit PROVE EnvInv
  OBVIOUS
<1>1. sc \in Scenario /\ sc \in Scenarios /\ sc.shell \in [Vars -> Held \union {Unset, Blank}]
  BY Assumed DEF EnvInit, Scenario
<1>2. EnvTypes
  BY <1>1, StepsAre DEF EnvInit, EnvTypes
<1>3. \A v \in Vars : ~Operator(v) => env[v] \in {Unset, Blank}
  BY <1>1 DEF EnvInit, Operator
<1>4. Filled
  BY <1>3, VarsAre, StepsAre DEF EnvInit, Filled, Due, Credentials, SecretVars, FiledAs
<1>5. Clean
  BY <1>3, VarsAre DEF EnvInit, Clean
<1>6. Judged /\ VerdictTrue /\ Agreed
  BY DEF EnvInit, Judged, VerdictTrue, None, Agreed, Due
<1> QED
  BY <1>2, <1>4, <1>5, <1>6 DEF EnvInv

-----------------------------------------------------------------------------
(* The launcher: what its steps do to the environment. *)
LEMMA SetIs ==
    ASSUME NEW e \in [Vars -> Held \union {Unset, Blank}], NEW v \in Vars, NEW x \in Held
    PROVE  /\ SetIfBlank(e, v, x) \in [Vars -> Held \union {Unset, Blank}]
           /\ e[v] \in {Unset, Blank} => SetIfBlank(e, v, x)[v] = x
           /\ e[v] \notin {Unset, Blank} => SetIfBlank(e, v, x)[v] = e[v]
           /\ \A w \in Vars : w # v => SetIfBlank(e, v, x)[w] = e[w]
BY DEF SetIfBlank

LEMMA FirstWithIs ==
    ASSUME NEW f \in PveFields
    PROVE  /\ FirstWith(f) \in Clusters \union {Flat, None}
           /\ (~ \E g \in PveFields : <<Flat, g>> \in sc.pve[IntegrationsFile]) =>
                 FirstWith(f) = IF \E c \in Clusters : <<c, f>> \in sc.pve[IntegrationsFile]
                                THEN First({c \in Clusters : <<c, f>> \in sc.pve[IntegrationsFile]})
                                ELSE None
<1> DEFINE having == {c \in Clusters : <<c, f>> \in sc.pve[IntegrationsFile]}
<1>1. having # {} => First(having) \in Clusters
  BY FirstIs
<1>2. FirstWith(f) = IF \E g \in PveFields : <<Flat, g>> \in sc.pve[IntegrationsFile]
                     THEN IF <<Flat, f>> \in sc.pve[IntegrationsFile] THEN Flat ELSE None
                     ELSE IF having = {} THEN None ELSE First(having)
  BY DEF FirstWith
<1> QED
  BY <1>1, <1>2

LEMMA OfferIs ==
    ASSUME NEW e \in [Vars -> Held \union {Unset, Blank}], NEW f \in PveFields
    PROVE  /\ Offer(e, f) \in [Vars -> Held \union {Unset, Blank}]
           /\ \A w \in Vars : w # PveVar[f] => Offer(e, f)[w] = e[w]
           /\ FirstWith(f) = None => Offer(e, f) = e
           /\ FirstWith(f) # None /\ e[PveVar[f]] \in {Unset, Blank}
                 => Offer(e, f)[PveVar[f]] = FirstWith(f)
           /\ e[PveVar[f]] \notin {Unset, Blank} => Offer(e, f)[PveVar[f]] = e[PveVar[f]]
<1>1. PveVar[f] \in Vars /\ (FirstWith(f) # None => FirstWith(f) \in Held)
  BY VarsAre, FirstWithIs, Marks
<1>2. CASE FirstWith(f) = None
  BY <1>2 DEF Offer
<1>3. CASE FirstWith(f) # None
  BY <1>1, <1>3, SetIs DEF Offer
<1> QED
  BY <1>2, <1>3

(* A step that leaves the credentials alone is not the one that reads one. *)
LEMMA Prefix ==
    ASSUME NEW step \in Steps \ {"dotenv", "ready"}, NEW v \in Credentials, step # v,
           After(step) \notin Due(v)
    PROVE  step \notin Due(v)
BY AfterIs, StepsAre DEF Due, Credentials

LEMMA FilledStays ==
    ASSUME EnvInv, NEW step \in Steps \ {"dotenv", "ready"}, Go(step), missed => missed',
           \A w \in SecretVars : env'[w] = env[w], step \in Credentials => missed'
    PROVE  Filled'
<1> SUFFICES ASSUME NEW w \in SecretVars, NEW v \in Credentials, v = FiledAs(w), ~Operator(w)
             PROVE  /\ env'[w] \in {Unset, Blank} \union Read(v)
                    /\ ~missed' /\ sc.sops # None /\ pc' \notin Due(v) /\ Read(v) # {}
                          => env'[w] \in Read(v)
  BY SameScenario, VarsAre DEF Filled, Go, Due
<1>1. step # v /\ pc' \notin Due(v) => pc \notin Due(v)
  BY Prefix DEF Go
<1> QED
  BY <1>1 DEF EnvInv, Filled

(* Before backend-check nothing is judged. *)
LEMMA NothingJudged ==
    ASSUME EnvInv, pc \in Steps, pc' \in Steps, UNCHANGED <<sc, verdict>> PROVE Judged' /\ VerdictTrue'
<1>1. verdict' = None
  BY StepsAre DEF EnvInv, Judged
<1> QED
  BY <1>1, StepsAre DEF Judged, VerdictTrue, None

LEMMA DotenvKeeps == ASSUME EnvInv, Dotenv PROVE EnvInv'
<1>1. sc \in Scenario /\ sc.dotenv \in [Vars -> Held \union {Unset}]
  BY Assumed DEF EnvInv, EnvTypes, Scenario
<1>2. pc = "dotenv" /\ pc' \in {"ready", "AWS_ACCESS_KEY_ID"} /\ sc' = sc
      /\ (sc.sops # None => pc' = "AWS_ACCESS_KEY_ID")
  BY AfterIs DEF Dotenv
<1>3. EnvTypes'
  BY <1>1, <1>2, StepsAre DEF Dotenv, EnvInv, EnvTypes
<1>4. ASSUME NEW v \in Vars, ~Operator(v), env[v] \in {Unset, Blank} PROVE env'[v] \in {Unset, Blank}
  BY <1>1, <1>4 DEF Dotenv, Operator
<1>5. ASSUME NEW v \in Vars, env[v] \in Held PROVE env'[v] = env[v]
  BY <1>5, Marks DEF Dotenv
<1>6. Filled'
  <2> SUFFICES ASSUME NEW w \in SecretVars, NEW v \in Credentials, v = FiledAs(w), ~Operator(w)
               PROVE  /\ env'[w] \in {Unset, Blank} \union Read(v)
                      /\ sc.sops # None => pc' \in Due(v)
    BY <1>2, SameScenario, VarsAre DEF Filled, Due
  <2>1. env[w] \in {Unset, Blank} \union Read(v) /\ Read(v) \subseteq Held /\ w \in Vars
    BY ReadIsKey, Marks, VarsAre DEF EnvInv, Filled
  <2>2. sc.sops # None => pc' \in Due(v)
    BY <1>2, StepsAre DEF Due, Credentials
  <2> QED
    BY <1>4, <1>5, <2>1, <2>2
<1>7. Clean'
  BY <1>2, <1>4, SameScenario, VarsAre DEF EnvInv, Clean, Due, Pair
<1>8. Agreed'
  BY <1>2, SameScenario DEF Agreed, Single, Due
<1>9. Judged' /\ VerdictTrue'
  BY <1>2, StepsAre, NothingJudged DEF Dotenv
<1> QED
  BY <1>3, <1>6, <1>7, <1>8, <1>9 DEF EnvInv

(* A step after .env: it goes on, and judges nothing. *)
LEMMA Goes ==
    ASSUME EnvInv, NEW step \in Steps \ {"dotenv", "ready"}, Go(step)
    PROVE  /\ pc = step /\ pc' = After(step) /\ pc' \in Steps \ {"dotenv"} /\ sc' = sc
           /\ Judged' /\ VerdictTrue'
           /\ env' \in [Vars -> Held \union {Unset, Blank}] => EnvTypes'
<1>1. After(step) \in Steps \ {"dotenv"}
  BY AfterIs, StepsAre
<1> QED
  BY <1>1, NothingJudged DEF Go, EnvInv, EnvTypes

(* A step that leaves the two Proxmox variables alone. *)
LEMMA ProxmoxStays ==
    ASSUME EnvInv, NEW step \in Credentials, Go(step), missed => missed',
           \A f \in Pair : env'[PveVar[f]] = env[PveVar[f]]
    PROVE  Clean' /\ Agreed'
<1>1. pc = step /\ pc' = After(step) /\ sc' = sc
  BY DEF Go
<1>2. pc' \in Due("PG_CONN_STR") \union {"manifest"} => pc \in Due("PG_CONN_STR") \union {"manifest"}
  BY <1>1, AfterIs DEF Due, Credentials
<1>3. pc' # "proxmox"
  BY <1>1, AfterIs DEF Credentials
<1>4. pc' \notin Due("PG_CONN_STR") \union {"manifest", "proxmox"}
         => pc \notin Due("PG_CONN_STR") \union {"manifest", "proxmox"}
  BY <1>1, AfterIs DEF Due, Credentials
<1>5. Clean'
  BY <1>1, <1>2, <1>3, SameScenario DEF EnvInv, Clean, Due, Pair
<1>6. Agreed'
  BY <1>1, <1>4, SameScenario DEF EnvInv, Agreed, Due, Pair
<1> QED
  BY <1>5, <1>6

LEMMA ExtractKeeps == ASSUME EnvInv, NEW v \in Credentials, Extract(v) PROVE EnvInv'
<1>1. v \in Steps \ {"dotenv", "ready"} /\ v \in Vars /\ Go(v) /\ missed' = missed
  BY StepsAre, VarsAre DEF Credentials, Extract
<1>2. \/ Read(v) = {} /\ env' = env
      \/ \E k \in Read(v) :
            env' = [w \in Vars |-> IF w \in SecretVars /\ FiledAs(w) = v /\ IsBlank(w)
                                   THEN k ELSE env[w]]
  BY DEF Extract, Read
<1>3. Read(v) \subseteq Held /\ env \in [Vars -> Held \union {Unset, Blank}]
  BY ReadIsKey, Marks DEF EnvInv, EnvTypes
<1>4. /\ env' \in [Vars -> Held \union {Unset, Blank}]
      /\ \A w \in Vars : ~(w \in SecretVars /\ FiledAs(w) = v) => env'[w] = env[w]
      /\ \A w \in SecretVars : FiledAs(w) = v /\ env[w] \in {Unset, Blank} \union Read(v) /\ Read(v) # {}
            => env'[w] \in Read(v)
      /\ Read(v) = {} => env' = env
  BY <1>1, <1>2, <1>3, VarsAre DEF IsBlank
<1>5. Clean' /\ Agreed'
  <2>1. \A f \in Pair : env'[PveVar[f]] = env[PveVar[f]]
    BY <1>4, VarsAre
  <2> QED
    BY <1>1, <2>1, ProxmoxStays
<1>6. Filled'
  <2> SUFFICES ASSUME NEW w \in SecretVars, NEW u \in Credentials, u = FiledAs(w), ~Operator(w)
               PROVE  /\ env'[w] \in {Unset, Blank} \union Read(u)
                      /\ ~missed' /\ sc.sops # None /\ pc' \notin Due(u) /\ Read(u) # {}
                            => env'[w] \in Read(u)
    BY <1>1, SameScenario, VarsAre DEF Filled, Go, Due
  <2>1. CASE u = v
    BY <1>4, <2>1 DEF EnvInv, Filled
  <2>2. CASE u # v
    <3>1. pc' \notin Due(u) => pc \notin Due(u)
      BY <1>1, <2>2, Prefix DEF Go
    <3> QED
      BY <1>1, <1>4, <2>2, <3>1, VarsAre DEF EnvInv, Filled
  <2> QED
    BY <2>1, <2>2
<1> QED
  BY <1>1, <1>4, <1>5, <1>6, Goes DEF EnvInv

LEMMA LostKeeps == ASSUME EnvInv, NEW step \in Steps \ {"ready"}, Lost(step) PROVE EnvInv'
<1>1. /\ step \in Credentials \union {"proxmox"} /\ Go(step) /\ missed' /\ env' = env
      /\ step \in Steps \ {"dotenv", "ready"}
  BY StepsAre DEF Lost, Go, Credentials
<1>2. Filled'
  BY <1>1, FilledStays
<1>3. Clean' /\ Agreed'
  <2>1. CASE step \in Credentials
    BY <1>1, <2>1, ProxmoxStays
  <2>2. CASE step = "proxmox"
    BY <1>1, <2>2, AfterIs DEF Go, Clean, Agreed, Single, Due
  <2> QED
    BY <1>1, <2>1, <2>2
<1> QED
  BY <1>1, <1>2, <1>3, Goes DEF EnvInv, EnvTypes

LEMMA ManifestKeeps == ASSUME EnvInv, Manifest PROVE EnvInv'
<1>1. Go("manifest") /\ missed' = missed /\ "manifest" \in Steps \ {"dotenv", "ready"}
  BY StepsAre DEF Manifest
<1>2. sc.endpoints \subseteq Clusters /\ env \in [Vars -> Held \union {Unset, Blank}]
  BY Assumed DEF EnvInv, EnvTypes, Scenario
<1>3. \/ sc.endpoints = {} /\ env' = env
      \/ /\ sc.endpoints # {} /\ First(sc.endpoints) \in Held
         /\ env' = SetIfBlank(env, PveVar["endpoint"], First(sc.endpoints))
  BY <1>2, FirstIs, Marks DEF Manifest, ManifestEndpoint
<1>4. /\ env' \in [Vars -> Held \union {Unset, Blank}]
      /\ \A w \in Vars : w # PveVar["endpoint"] => env'[w] = env[w]
      /\ sc.endpoints # {} /\ env[PveVar["endpoint"]] \in {Unset, Blank}
            => env'[PveVar["endpoint"]] = First(sc.endpoints)
      /\ sc.endpoints = {} => env' = env
  BY <1>2, <1>3, SetIs, VarsAre DEF PveFields
<1>5. Filled'
  BY <1>1, <1>4, FilledStays, VarsAre DEF Credentials, PveFields
<1>6. pc = "manifest" /\ pc' = "proxmox" /\ sc' = sc
  BY <1>1, AfterIs DEF Go
<1>7. Clean'
  BY <1>4, <1>6, SameScenario, VarsAre DEF EnvInv, Clean, Due, Pair
<1>8. Agreed'
  BY <1>6 DEF Agreed
<1> QED
  BY <1>1, <1>4, <1>5, <1>7, <1>8, Goes DEF EnvInv

LEMMA ProxmoxKeeps == ASSUME EnvInv, Proxmox PROVE EnvInv'
<1>1. Go("proxmox") /\ missed' = missed /\ "proxmox" \in Steps \ {"dotenv", "ready"}
  BY StepsAre DEF Proxmox
<1>2. env \in [Vars -> Held \union {Unset, Blank}] /\ "endpoint" \in PveFields /\ "api_token" \in PveFields
  BY DEF EnvInv, EnvTypes, PveFields
<1> DEFINE d == Offer(env, "endpoint")
           e == Offer(d, "username")
           ep == PveVar["endpoint"]
           tk == PveVar["api_token"]
           un == PveVar["username"]
<1>3. /\ ep \in Vars \ SecretVars /\ tk \in Vars \ SecretVars /\ ep # tk
      /\ un \in Vars \ SecretVars /\ un # ep /\ un # tk
      /\ SecretVars \subseteq Vars /\ "username" \in PveFields
  BY VarsAre DEF PveFields
<1>11. /\ d \in [Vars -> Held \union {Unset, Blank}]
       /\ \A w \in Vars : w # ep => d[w] = env[w]
       /\ FirstWith("endpoint") = None => d = env
       /\ FirstWith("endpoint") # None /\ env[ep] \in {Unset, Blank} => d[ep] = FirstWith("endpoint")
       /\ env[ep] \notin {Unset, Blank} => d[ep] = env[ep]
  BY <1>2, OfferIs
<1>12. /\ e \in [Vars -> Held \union {Unset, Blank}]
       /\ \A w \in Vars : w # un => e[w] = d[w]
  <2> HIDE DEF d
  <2> QED BY <1>3, <1>11, OfferIs
<1> HIDE DEF d
<1>4. /\ e \in [Vars -> Held \union {Unset, Blank}]
      /\ \A w \in Vars : w # ep /\ w # un => e[w] = env[w]
      /\ FirstWith("endpoint") = None => e[ep] = env[ep]
      /\ FirstWith("endpoint") # None /\ env[ep] \in {Unset, Blank} => e[ep] = FirstWith("endpoint")
      /\ env[ep] \notin {Unset, Blank} => e[ep] = env[ep]
  BY <1>3, <1>11, <1>12
<1>5. env' = Offer(e, "api_token")
  BY DEF Proxmox, d
<1>6. /\ env' \in [Vars -> Held \union {Unset, Blank}]
      /\ \A w \in Vars : w # tk => env'[w] = e[w]
      /\ FirstWith("api_token") # None /\ e[tk] \in {Unset, Blank} => env'[tk] = FirstWith("api_token")
  <2> HIDE DEF e
  <2> QED BY <1>2, <1>4, <1>5, OfferIs
<1> HIDE DEF e, ep, tk, un
<1>7. Filled'
  BY <1>1, <1>3, <1>4, <1>6, FilledStays DEF Credentials
<1>8. pc = "proxmox" /\ pc' = "CLOUDFLARE_API_TOKEN" /\ sc' = sc
  BY <1>1, AfterIs DEF Go
<1>9. Clean'
  BY <1>8 DEF Clean, Due
<1>10. Agreed'
  <2> SUFFICES ASSUME Single PROVE env'[ep] = env'[tk]
    BY <1>1, <1>8, SameScenario DEF Agreed, ep, tk
  <2> DEFINE filed == sc.pve[IntegrationsFile]
             tokens == {c \in Clusters : <<c, "api_token">> \in filed}
             urls == {c \in Clusters : <<c, "endpoint">> \in filed}
  <2>1. /\ sc.endpoints \in {tokens, {}} /\ urls \in {tokens, {}} /\ tokens # {}
        /\ sc.endpoints # {} \/ urls # {}
        /\ ~ \E f \in PveFields : <<Flat, f>> \in filed
        /\ sc.sops # None /\ \A f \in Pair : ~Operator(PveVar[f])
    BY DEF Single
  <2>2. FirstWith("api_token") = First(tokens)
    BY <1>2, <2>1, FirstWithIs
  <2>3. FirstWith("endpoint") = IF urls = {} THEN None ELSE First(urls)
    BY <1>2, <2>1, FirstWithIs
  <2>4. First(tokens) \in Clusters
    BY <2>1, FirstIs
  <2> HIDE DEF tokens, urls, filed
  <2>5. First(tokens) \notin {Unset, Blank, None}
    BY <2>4, Marks
  <2>6. env[tk] \in {Unset, Blank}
        /\ IF sc.endpoints = {} THEN env[ep] \in {Unset, Blank} ELSE env[ep] = First(sc.endpoints)
    BY <1>8, <2>1 DEF EnvInv, Clean, ep, tk
  <2>7. env'[tk] = First(tokens)
    BY <1>3, <1>4, <1>6, <2>2, <2>5, <2>6
  <2>8. env'[ep] = First(tokens)
    BY <1>3, <1>4, <1>6, <2>1, <2>3, <2>5, <2>6
  <2> QED
    BY <2>7, <2>8
<1> QED
  BY <1>1, <1>6, <1>7, <1>9, <1>10, Goes DEF EnvInv

-----------------------------------------------------------------------------
(* backend-check leaves the environment as the launcher filled it. *)
LEMMA EnvIsFilled ==
    ASSUME EnvInv, UNCHANGED <<sc, env, missed>>, pc \in {"ready"} \union Checks, pc' \in Checks
    PROVE  Filled' /\ Clean' /\ Agreed'
<1>1. \A v \in Credentials : pc \notin Due(v) /\ pc' \notin Due(v)
  BY StepsAre DEF Checks, Due, Credentials
<1>2. pc \notin Due("PG_CONN_STR") \union {"manifest", "proxmox"}
      /\ pc' \notin Due("PG_CONN_STR") \union {"manifest", "proxmox"}
  BY DEF Checks, Due
<1>3. Filled'
  BY <1>1, SameScenario, VarsAre DEF EnvInv, Filled, Due
<1>4. Clean'
  BY <1>2 DEF Clean, Due
<1>5. Agreed'
  BY <1>2, SameScenario DEF EnvInv, Agreed, Due
<1> QED
  BY <1>3, <1>4, <1>5

(* Where the key is the same, tofu is given the pair that is filed in the
   integrations file, or none. *)
LEMMA KeyIsHere ==
    ASSUME EnvInv, SameKey, pc \in {"ready"} \union Checks,
           NEW w \in {"AWS_ACCESS_KEY_ID", "AWS_SECRET_ACCESS_KEY"}
    PROVE  /\ Here \subseteq Keys
           /\ Here = {} => env[w] \notin Keys
           /\ \A k \in Here : env[w] = k
<1>1. sc.path["AWS_ACCESS_KEY_ID"] # None
  BY Assumed DEF EnvInv, EnvTypes
<1>2. Read("AWS_ACCESS_KEY_ID") = Here
  BY <1>1 DEF Read, Here, SameKey
<1>3. Here \subseteq Keys /\ \A j, k \in Here : j = k
  BY FoundIsKey DEF EnvInv, Here
<1>4. pc \notin Due("AWS_ACCESS_KEY_ID") /\ sc.sops # None /\ ~missed
  BY DEF Due, Checks, SameKey, None
<1>5. w \in SecretVars /\ FiledAs(w) = "AWS_ACCESS_KEY_ID" /\ ~Operator(w)
  BY DEF SecretVars, Credentials, FiledAs, SameKey
<1>6. env[w] \in {Unset, Blank} \union Here /\ (Here # {} => env[w] \in Here)
  BY <1>2, <1>4, <1>5 DEF EnvInv, Filled
<1> QED
  BY <1>3, <1>6, Marks

(* What tofu init needs does not change while backend-check runs. *)
LEMMA SameWorld ==
    ASSUME UNCHANGED <<sc, env, missed>>
    PROVE  /\ SameKey' <=> SameKey
           /\ AsksForIt' <=> AsksForIt
           /\ CreateMissing' <=> CreateMissing
           /\ InitWorks' <=> InitWorks
BY SameScenario DEF SameKey, AsksForIt, CreateMissing, InitWorks

LEMMA CheckKeeps == ASSUME EnvInv, Check PROVE EnvInv'
<1>1. UNCHANGED <<sc, env, missed>> /\ pc \in {"ready"} \union Checks /\ pc # "done"
  BY DEF Check, Resolve, CheckPg, CheckCreds, CheckLost, CheckSts, CheckBucket, Checks
<1>2. sc \in Scenario /\ sc \in Scenarios /\ EffectiveType \in Backends
  BY Assumed DEF EnvInv, EnvTypes, Scenario, EffectiveType, Backends
<1>3. pc' \in Checks
  BY <1>2 DEF Check, Resolve, CheckPg, CheckCreds, CheckLost, CheckSts, CheckBucket, Checks, Say, Backends
<1>4. EnvTypes'
  <2>1. creds' \in Keys \union {None} /\ ok' \in BOOLEAN
    <3>1. \A f : At(f, "AWS_ACCESS_KEY_ID") \subseteq Keys
      BY FoundIsKey DEF EnvInv
    <3> QED
      BY <3>1 DEF EnvInv, EnvTypes, Check, Resolve, CheckPg, CheckCreds, CheckLost, CheckSts, CheckBucket,
                  SiblingsVerdict
  <2> QED
    BY <1>1, <1>3, <2>1 DEF EnvInv, EnvTypes
<1>5. Filled' /\ Clean' /\ Agreed'
  BY <1>1, <1>3, EnvIsFilled
<1>6. verdict = None /\ None \notin {"healthy", "unhealthy"}
  BY <1>1 DEF EnvInv, Judged, None
<1>7. Judged'
  <2>1. CASE Resolve
    <3>1. pc' = "done" \/ (pc' = EffectiveType /\ pc' \in {"s3", "pg"} /\ verdict' = None)
      BY <1>2, <1>6, <2>1 DEF Resolve, Say, Backends
    <3> QED
      BY <1>1, <3>1, SameScenario DEF Judged
  <2>2. CASE CheckPg \/ CheckLost
    BY <2>2 DEF CheckPg, CheckLost, Say, Judged
  <2>3. CASE CheckCreds
    BY <1>1, <1>6, <2>3, SameScenario DEF CheckCreds, Say, Judged, EnvInv, SiblingsVerdict, Here
  <2>4. CASE CheckSts
    BY <1>1, <1>6, <2>4, SameScenario DEF CheckSts, Say, Judged, EnvInv
  <2>5. CASE CheckBucket
    BY <2>5 DEF CheckBucket, Say, Judged
  <2> QED
    BY <2>1, <2>2, <2>3, <2>4, <2>5 DEF Check
<1>8. VerdictTrue'
  <2> SUFFICES ASSUME EffectiveType = "s3" => SameKey /\ AsksForIt
               PROVE  /\ verdict' = "healthy" => InitWorks
                      /\ verdict' = "unhealthy" => ~InitWorks \/ (EffectiveType = "pg" /\ CreateMissing)
    BY <1>1, SameWorld, SameScenario DEF VerdictTrue
  <2>1. CASE Resolve
    BY <1>6, <2>1 DEF Resolve, Say, InitWorks
  <2>2. CASE CheckPg
    <3>1. /\ EffectiveType = "pg" /\ sc.schema \in BOOLEAN /\ sc.db \in [Keys -> Rights]
          /\ verdict' = IF env["PG_CONN_STR"] \in Keys /\ sc.db[env["PG_CONN_STR"]] = "creates"
                        THEN "healthy" ELSE "unhealthy"
      BY <1>2, <2>2 DEF CheckPg, Say, EnvInv, Judged, Scenario
    <3> QED
      BY <3>1 DEF InitWorks, CreateMissing
  <2>3. CASE CheckCreds
    <3>1. EffectiveType = "s3" /\ SameKey
      BY <2>3 DEF CheckCreds, EnvInv, Judged
    <3>2. verdict' = "healthy" \/ verdict' = "unhealthy" => verdict' = "unhealthy" /\ Here = {}
      <4>1. sc.tfFile \in Files /\ sc.routes["integrations"] \in Files \union {None}
        BY <1>2 DEF Scenario, Trees
      <4>2. IntegrationsFile \in Files
        BY <4>1 DEF IntegrationsFile
      <4>3. Here \subseteq UNION {At(f, "AWS_ACCESS_KEY_ID") : f \in Files}
        BY <4>2 DEF Here
      <4> QED
        BY <1>6, <2>3, <3>1, <4>3 DEF CheckCreds, Say, SameKey
    <3>3. Here = {} => env["AWS_ACCESS_KEY_ID"] \notin Keys
      BY <1>1, <3>1, KeyIsHere
    <3> QED
      BY <3>1, <3>2, <3>3 DEF InitWorks
  <2>4. CASE CheckSts
    <3>1. /\ EffectiveType = "s3" /\ (Here # {} => creds \in Here) /\ SameKey /\ AsksForIt
          /\ verdict' # "healthy" /\ (verdict' = "unhealthy" => creds \notin sc.sts)
      BY <1>6, <2>4 DEF CheckSts, Say, EnvInv, Judged
    <3>2. env["AWS_ACCESS_KEY_ID"] \in Keys => env["AWS_ACCESS_KEY_ID"] = creds
      BY <1>1, <3>1, KeyIsHere
    <3> QED
      BY <3>1, <3>2 DEF InitWorks, AsksForIt, Bucket
  <2>5. CASE CheckBucket
    <3>1. /\ EffectiveType = "s3" /\ creds \in sc.sts /\ (ok <=> Here # {}) /\ (Here # {} => creds \in Here)
          /\ SameKey /\ AsksForIt
          /\ verdict' = IF ok /\ <<creds, "fleet">> \in sc.heads THEN "healthy" ELSE "unhealthy"
      BY <2>5 DEF CheckBucket, Say, EnvInv, Judged, Bucket
    <3>2. /\ ok => /\ creds \in Keys /\ env["AWS_ACCESS_KEY_ID"] = creds
                   /\ env["AWS_SECRET_ACCESS_KEY"] = creds
          /\ ~ok => env["AWS_ACCESS_KEY_ID"] \notin Keys
      BY <1>1, <3>1, KeyIsHere
    <3>3. \A k \in Keys : <<k, "fleet">> \in sc.works <=> k \in sc.sts /\ <<k, "fleet">> \in sc.heads
      BY <3>1 DEF AsksForIt, Bucket
    <3>4. InitWorks <=> /\ env["AWS_ACCESS_KEY_ID"] \in Keys
                        /\ env["AWS_SECRET_ACCESS_KEY"] = env["AWS_ACCESS_KEY_ID"]
                        /\ <<env["AWS_ACCESS_KEY_ID"], "fleet">> \in sc.works
      BY <3>1 DEF InitWorks, AsksForIt
    <3> QED
      BY <3>1, <3>2, <3>3, <3>4
  <2>6. CASE CheckLost
    BY <2>6 DEF CheckLost, Say
  <2> QED
    BY <2>1, <2>2, <2>3, <2>4, <2>5, <2>6 DEF Check
<1> QED
  BY <1>4, <1>5, <1>7, <1>8 DEF EnvInv

-----------------------------------------------------------------------------
LEMMA EnvSteps == ASSUME EnvInv, [EnvNext]_envVars PROVE EnvInv'
<1>1. CASE Setup
  BY <1>1, DotenvKeeps, ExtractKeeps, LostKeeps, ManifestKeeps, ProxmoxKeeps DEF Setup
<1>2. CASE Check
  BY <1>2, CheckKeeps
<1>3. CASE UNCHANGED envVars
  <2>1. UNCHANGED <<sc, env, pc, missed, creds, ok, verdict>>
    BY <1>3 DEF envVars
  <2>2. EnvTypes' /\ Filled' /\ Clean' /\ Agreed'
    BY <2>1, SameScenario DEF EnvInv, EnvTypes, Filled, Clean, Agreed, Due
  <2>3. Judged' /\ VerdictTrue'
    BY <2>1, SameScenario, SameWorld DEF EnvInv, Judged, VerdictTrue
  <2> QED
    BY <2>2, <2>3 DEF EnvInv
<1> QED
  BY <1>1, <1>2, <1>3 DEF EnvNext, Done

(* What the launcher and backend-check keep at every step. *)
THEOREM EnvInvariance == EnvSpec => []EnvInv
<1> QED
  BY EnvBegins, EnvSteps, PTL DEF EnvSpec

(* A healthy verdict means that tofu init works, and an unhealthy one that it  *)
(* does not: of an S3 backend where backend-check tests the key the launcher   *)
(* exported and the store is that of AWS, of a Postgres one always but for the *)
(* right to make a schema that is there already.                               *)
THEOREM VerdictIsTrue == EnvSpec => []VerdictTrue
<1>1. EnvInv => VerdictTrue
  BY DEF EnvInv
<1> QED
  BY <1>1, EnvInvariance, PTL

(* A credential filed where its tree is routed to reaches the command. *)
THEOREM FiledReaches == EnvSpec => []FiledIsFound
<1>1. EnvInv => FiledIsFound
  <2> SUFFICES ASSUME EnvInv, SetUp, ~missed, sc.sops # None,
                      NEW w \in SecretVars, NEW v \in Credentials, v = FiledAs(w),
                      ~Operator(w), sc.path[v] # None,
                      v = "CLOUDFLARE_API_TOKEN" => RoutersAgree,
                      At(FileFor(sc.path[v]), v) # {}
               PROVE  env[w] \in At(FileFor(sc.path[v]), v)
    BY VarsAre DEF FiledIsFound
  <2>1. SopsFileFor(v) = FileFor(sc.path[v])
    BY Assumed DEF SopsFileFor, RoutersAgree, EnvInv, EnvTypes
  <2>2. Read(v) = At(FileFor(sc.path[v]), v)
    BY <2>1 DEF Read
  <2>3. pc \notin Due(v)
    BY StepsAre DEF SetUp, Checks, Due, Credentials
  <2> QED
    BY <2>2, <2>3 DEF EnvInv, Filled
<1> QED
  BY <1>1, EnvInvariance, PTL

(* The endpoint and the token a command is given are of one Proxmox cluster. *)
THEOREM PveIsOne == EnvSpec => []PveAgree
<1>1. EnvInv => PveAgree
  <2> SUFFICES ASSUME EnvInv, SetUp, Single PROVE env[PveVar["endpoint"]] = env[PveVar["api_token"]]
    BY DEF PveAgree, Single, Pair
  <2>1. pc \notin Due("PG_CONN_STR") \union {"manifest", "proxmox"}
    BY DEF SetUp, Checks, Due
  <2> QED
    BY <2>1 DEF EnvInv, Agreed
<1> QED
  BY <1>1, EnvInvariance, PTL
=============================================================================
