----------------------------- MODULE FleetCaches -----------------------------
(***************************************************************************)
(* The on-disk caches of what Nix computes from the fleet's source: the    *)
(* settings catalog (fleet_launcher/config.py), the list of leaf stacks    *)
(* and the rendered configuration of each leaf (fleet_launcher/            *)
(* tf_stacks.py).                                                          *)
(*                                                                         *)
(* A version stands for the content of the tracked sources, for their      *)
(* fingerprint, and for everything Nix builds from them.  Nothing locks a  *)
(* cache, an editor may save at any time, and a command may be killed      *)
(* between any two of its steps.                                           *)
(***************************************************************************)
EXTENDS Integers

CONSTANTS
    Clis,           \* processes that run fleet commands, one after another
    Leaves,         \* leaf stacks
    MaxVersion,     \* bound on the source versions
    Serial,         \* TRUE: one command at a time
    Reverts         \* TRUE: an edit may bring back an earlier version

ASSUME VersionAssumption == MaxVersion \in Nat \ {0}
ASSUME ModeAssumption == Serial \in BOOLEAN /\ Reverts \in BOOLEAN

Versions == 1 .. MaxVersion
NoFile == 0
Cached == Versions \cup {NoFile}

VARIABLES
    src,        \* version of the source tree
    cat,        \* .cache/fleet/catalog.json: the version it was built from
    catSrc,     \* .cache/fleet/catalog.src: the fingerprint recorded for it
    ids,        \* .tf/.cache/stack-ids.json: [key, val]
    dest,       \* .tf/<leaf>/config.tf.json: the version it was rendered from
    side,       \* .tf/<leaf>/.cache.json: the fingerprint recorded for it
    cli,        \* process -> state of its current command
    raced       \* history: an edit slipped into the last catalog refresh

vars == <<src, cat, catSrc, ids, dest, side, cli, raced>>

Pcs == {"idle", "catBuild", "catReplace", "catRecord", "catLoad",
        "ids", "idsBuild", "idsWrite",
        "stage", "stageBuild", "stageUnlink", "stageCopy", "stageRecord", "done"}

(* leaf, key and built are locals of the current step; catalog, stacks and
   config are the views the command acts on; warned tells that it was told the
   catalog is stale; seen is history: the versions the source had meanwhile. *)
Command == [pc : Pcs, leaf : Leaves, key : Cached, built : Cached, catalog : Cached,
            stacks : Cached, config : Cached, warned : BOOLEAN, seen : SUBSET Versions]

TypeOK ==
    /\ src \in Versions
    /\ cat \in Cached /\ catSrc \in Cached
    /\ ids \in [key : Cached, val : Cached]
    /\ dest \in [Leaves -> Cached]
    /\ side \in [Leaves -> Cached]
    /\ cli \in [Clis -> Command]
    /\ raced \in BOOLEAN

Idle(l) == [pc |-> "idle", leaf |-> l, key |-> NoFile, built |-> NoFile,
            catalog |-> NoFile, stacks |-> NoFile, config |-> NoFile,
            warned |-> FALSE, seen |-> {}]

(* No enumeration, or one that cannot be parsed: both are a miss. *)
NoIds == [key |-> NoFile, val |-> NoFile]

Init ==
    /\ src = 1
    /\ cat = NoFile /\ catSrc = NoFile
    /\ ids = NoIds
    /\ dest = [l \in Leaves |-> NoFile]
    /\ side = [l \in Leaves |-> NoFile]
    /\ cli \in [Clis -> {Idle(l) : l \in Leaves}]
    /\ raced = FALSE

-----------------------------------------------------------------------------
(* The editor saves a tracked source. *)
Edit(v) ==
    /\ v # src
    /\ Reverts \/ v > src
    /\ src' = v
    /\ cli' = [p \in Clis |-> IF cli[p].pc = "idle" THEN cli[p]
                              ELSE [cli[p] EXCEPT !.seen = @ \cup {v}]]
    /\ UNCHANGED <<cat, catSrc, ids, dest, side, raced>>

(* Mutant: the hash of a git tree that uncommitted edits do not move. *)
FingerprintOfHead == 1

(* source_fingerprint: content of the tracked sources now. *)
Fingerprint == src

-----------------------------------------------------------------------------
(* catalog_path *)

(* A command starts by looking for a fresh catalog.  refresh is false when
   FLEET_NO_CATALOG_REFRESH is set; without a catalog it then acts on none. *)
Start(p, l, refresh) ==
    /\ cli[p].pc = "idle"
    /\ Serial => \A q \in Clis : cli[q].pc = "idle"
    /\ LET stale == cat = NoFile \/ catSrc # Fingerprint
       IN  cli' = [cli EXCEPT ![p] =
                      [Idle(l) EXCEPT !.pc = IF stale /\ refresh THEN "catBuild" ELSE "catLoad",
                                      !.warned = stale /\ ~refresh /\ cat # NoFile,
                                      !.seen = {src}]]
    /\ UNCHANGED <<src, cat, catSrc, ids, dest, side, raced>>

(* _materialize_catalog: nix build; on failure the stale copy is still used. *)
CatalogBuild(p) ==
    /\ cli[p].pc = "catBuild"
    /\ \/ cli' = [cli EXCEPT ![p].pc = "catReplace", ![p].built = src]
       \/ cli' = [cli EXCEPT ![p].pc = "catLoad", ![p].warned = TRUE]
    /\ UNCHANGED <<src, cat, catSrc, ids, dest, side, raced>>

CatalogReplace(p) ==
    /\ cli[p].pc = "catReplace"
    /\ cat' = cli[p].built
    /\ cli' = [cli EXCEPT ![p].pc = "catRecord"]
    /\ UNCHANGED <<src, catSrc, ids, dest, side, raced>>

(* Mutant: a missing fingerprint is recorded. *)
CatalogRecordNone(p) ==
    /\ cli[p].pc = "catRecord"
    /\ catSrc' = -1
    /\ raced' = (cat # Fingerprint)
    /\ cli' = [cli EXCEPT ![p].pc = "catLoad"]
    /\ UNCHANGED <<src, cat, ids, dest, side>>

(* The fingerprint is taken now, after the build. *)
CatalogRecord(p) ==
    /\ cli[p].pc = "catRecord"
    /\ catSrc' = Fingerprint
    /\ raced' = (cat # Fingerprint)
    /\ cli' = [cli EXCEPT ![p].pc = "catLoad"]
    /\ UNCHANGED <<src, cat, ids, dest, side>>

(* _raw: the catalog is loaded once per command. *)
CatalogLoad(p) ==
    /\ cli[p].pc = "catLoad"
    /\ cli' = [cli EXCEPT ![p].pc = "ids", ![p].catalog = cat]
    /\ UNCHANGED <<src, cat, catSrc, ids, dest, side, raced>>

-----------------------------------------------------------------------------
(* _leaf_stack_ids and _resolve_scope *)

IdsCheck(p) ==
    /\ cli[p].pc = "ids"
    /\ cli' = [cli EXCEPT ![p].key = Fingerprint,
                          ![p].pc = IF ids.key = Fingerprint THEN "stage" ELSE "idsBuild",
                          ![p].stacks = IF ids.key = Fingerprint THEN ids.val ELSE NoFile]
    /\ UNCHANGED <<src, cat, catSrc, ids, dest, side, raced>>

(* A failed build enumerates nothing: no scope matches and the command exits. *)
IdsBuild(p) ==
    /\ cli[p].pc = "idsBuild"
    /\ \/ cli' = [cli EXCEPT ![p].pc = "idsWrite", ![p].built = src, ![p].stacks = src]
       \/ cli' = [cli EXCEPT ![p] = Idle(@.leaf)]
    /\ UNCHANGED <<src, cat, catSrc, ids, dest, side, raced>>

(* The fingerprint is the one taken before the build; a failed write is
   ignored and may leave the file as it was or unreadable. *)
IdsWrite(p) ==
    /\ cli[p].pc = "idsWrite"
    /\ ids' \in {ids, NoIds, [key |-> cli[p].key, val |-> cli[p].built]}
    /\ cli' = [cli EXCEPT ![p].pc = "stage"]
    /\ UNCHANGED <<src, cat, catSrc, dest, side, raced>>

-----------------------------------------------------------------------------
(* _stage_json *)

StageCheck(p) ==
    /\ cli[p].pc = "stage"
    /\ LET l == cli[p].leaf
           hit == dest[l] # NoFile /\ side[l] = Fingerprint
       IN  cli' = [cli EXCEPT ![p].key = Fingerprint,
                              ![p].pc = IF hit THEN "done" ELSE "stageBuild",
                              ![p].config = IF hit THEN dest[l] ELSE NoFile]
    /\ UNCHANGED <<src, cat, catSrc, ids, dest, side, raced>>

(* A failed build raises: the command ends and the workdir is as it was. *)
StageBuild(p) ==
    /\ cli[p].pc = "stageBuild"
    /\ \/ cli' = [cli EXCEPT ![p].pc = "stageUnlink", ![p].built = src]
       \/ cli' = [cli EXCEPT ![p] = Idle(@.leaf)]
    /\ UNCHANGED <<src, cat, catSrc, ids, dest, side, raced>>

StageUnlink(p) ==
    /\ cli[p].pc = "stageUnlink"
    /\ dest' = [dest EXCEPT ![cli[p].leaf] = NoFile]
    /\ cli' = [cli EXCEPT ![p].pc = "stageCopy"]
    /\ UNCHANGED <<src, cat, catSrc, ids, side, raced>>

StageCopy(p) ==
    /\ cli[p].pc = "stageCopy"
    /\ dest' = [dest EXCEPT ![cli[p].leaf] = cli[p].built]
    /\ cli' = [cli EXCEPT ![p].pc = "stageRecord"]
    /\ UNCHANGED <<src, cat, catSrc, ids, side, raced>>

(* Mutant: the fingerprint is taken after the build. *)
StageRecordNow(p) ==
    /\ cli[p].pc = "stageRecord"
    /\ LET l == cli[p].leaf
       IN  /\ side' = [side EXCEPT ![l] = Fingerprint]
           /\ cli' = [cli EXCEPT ![p].pc = "done", ![p].config = dest[l]]
    /\ UNCHANGED <<src, cat, catSrc, ids, dest, raced>>

(* The fingerprint is the one taken before the build; a failed write is
   ignored and may leave the sidecar as it was or unreadable.  The command
   then runs tofu on what the workdir holds. *)
StageRecord(p) ==
    /\ cli[p].pc = "stageRecord"
    /\ LET l == cli[p].leaf
       IN  /\ side' \in {side, [side EXCEPT ![l] = NoFile], [side EXCEPT ![l] = cli[p].key]}
           /\ cli' = [cli EXCEPT ![p].pc = "done", ![p].config = dest[l]]
    /\ UNCHANGED <<src, cat, catSrc, ids, dest, raced>>

(* The command returns, or is killed wherever it is. *)
Finish(p) ==
    /\ cli[p].pc # "idle"
    /\ cli' = [cli EXCEPT ![p] = Idle(@.leaf)]
    /\ UNCHANGED <<src, cat, catSrc, ids, dest, side, raced>>

-----------------------------------------------------------------------------
Step(p) ==
    \/ CatalogBuild(p) \/ CatalogReplace(p) \/ CatalogRecord(p) \/ CatalogLoad(p)
    \/ IdsCheck(p) \/ IdsBuild(p) \/ IdsWrite(p)
    \/ StageCheck(p) \/ StageBuild(p) \/ StageUnlink(p) \/ StageCopy(p) \/ StageRecord(p)

Next ==
    \/ \E v \in Versions : Edit(v)
    \/ \E p \in Clis, l \in Leaves, refresh \in BOOLEAN : Start(p, l, refresh)
    \/ \E p \in Clis : Step(p) \/ Finish(p)

Spec == Init /\ [][Next]_vars

-----------------------------------------------------------------------------
(* Properties, for commands that run one at a time on a source that never goes
   back to an earlier version; edits and kills may happen at any step. *)

(* tofu is never run on a configuration that is not one of the versions the
   source had while the command ran: a kill between rendering and recording, or
   an edit between fingerprint and build, never turns into a false hit. *)
ConfigIsCurrent ==
    \A p \in Clis : cli[p].pc = "done" => cli[p].config \in cli[p].seen

(* Nor is a stale list of leaf stacks used; and a command acts on a catalog of
   another version only if it said so, or if an edit slipped between the build
   and the fingerprint of the last refresh. *)
InputsAreCurrent ==
    \A p \in Clis :
        /\ cli[p].pc \in {"stage", "done"} => cli[p].stacks \in cli[p].seen
        /\ cli[p].pc \in {"ids", "stage", "done"} /\ ~cli[p].warned /\ ~raced =>
               cli[p].catalog \in cli[p].seen \cup {NoFile}

(* "both caches answer 'has the fleet's Nix source moved?', and when only one of
   them noticed a change the CLI acted on two different views of the same
   fleet": a command that is not warned, and during which nobody edits, acts on
   one view. *)
OneView ==
    \A p \in Clis :
        /\ cli[p].pc = "done" /\ ~cli[p].warned /\ cli[p].seen = {src}
        /\ cli[p].catalog # NoFile
        => cli[p].catalog = cli[p].config
=============================================================================
