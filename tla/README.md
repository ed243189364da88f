# fleetkit: specifications, model checks and proofs

fleetkit declares a fleet of machines in Nix and operates it with a Python CLI, `fleet`, that
drives OpenTofu, Colmena, Ansible and the APIs of Proxmox and Xen Orchestra. Most of its risk
is in the files and services that several commands, terminals, timers and crashes share without
locks. This directory specifies those parts in TLA+, checks them with TLC on small instances and
proves the central properties with TLAPS for every instance.

Paths below are relative to `src/`; the launcher is `nix/pkgs/_launcher/fleet_launcher/`.

## 1. The system: components and state

| Component | State it keeps | Operations | What is hard | Correct when |
|---|---|---|---|---|
| Background jobs, `sessions.py` | one status file per job, log files, processes | dispatch, early-death watch, run job, run and wait, kill, list | four kinds of writers, no lock, truncate-then-write, zombies, kills | a status never claims a success that did not happen; waiting returns the truth; no job stays RUN for ever |
| Nix-artifact caches, `config.py`, `tf_stacks.py:50-180` | catalog, stack list, rendered leaf configurations, each with the fingerprint it was built for | look up, build, replace, record | edits between fingerprint and build, kills between copy and record | no command acts on an artifact of a source that was not there while it ran |
| State migration, `tf_stacks.py:430-800` | declared backend, rendered backend, bound backend, states, dumps | `migrate-backend`, preview, apply, state-push | three notions of "the backend", partial copies, retries | no apply rebuilds what exists; a failed migration can be undone |
| State adoption, `tf_stacks.py:1330-1960` | tofu states, live objects | `adopt` per leaf: resolve, verify, gate, apply | verdicts age, a provider does not answer, options combine | importing creates and destroys nothing and binds no foreign object |
| Other state verbs, `tf_stacks.py` | tofu state, target protection | `apply`, `destroy`, `rekey`, `state-mv`, `state-rm`, `import`, `state-pull`, `state-push` | sequences that stop in the middle, edits and other terminals between two moves | a success lost no object; a rename replaces nothing |
| Credentials, `main.py`, `tf_stacks.py:1200-1330` | the environment of a command, SOPS layout | `_setup_env`, `backend-check` | silent failures, two routers, precedence | a filed credential arrives; the verdict is what tofu will find |
| NixOS deploys, `nixos.py`, `inventory.py` | `.cache/fleet/hosts.json`, process table | refresh, conflict check, address override, colmena | file shared by concurrent deploys, check then act | a deploy reaches the address it was given; one deploy per host |
| Connection reset, `reset_connection.py` | process table | scan, SIGKILL, remote restart | stale pids | kills only deploys of the host |
| Secrets, `secrets.py` | SOPS files | set, remove, edit, export | read-modify-write of a whole file | readers see whole commands only; a saved token exists; `check` overlooks no plaintext |
| Proxmox cluster, `pve_cluster.py`, `cluster-join.yml`, `uncluster-pve-node.yml` | membership, corosync configuration, API token | converge, join, leave, issue token | probe then act, silent failures, two saves | a rerun converges; a saved token exists |
| Xen Orchestra tool, `xoa-cli/` | VM power state, disk sizes | `reconcile-disks`, `resize-disk`, template build | halt, grow, boot with errors between; stale sizes | never shrinks; a VM it halted runs again |
| Unattended installs, `pve_install.py`, `answer server` | VM, ISO, answer file | render, boot, poll | timeouts against late installs | each node gets its own answer |
| Container watchdog, `ansible/roles/proxmox/base/templates/ct-watchdog.*` | counters and stamps on disk | sweep: probe, count, restart | killed sweeps, reboots, rate limits, order of the loop | restarts are earned, paced, and everybody gets a turn |
| Tailnet enrolment, attic bootstrap | keys, services | idempotent task sequences | failure half way | a rerun completes |
| `_util.run_shell`, API clients, other groups, image builds, exporter | none of their own | calls of external programs | I/O | (not modelled) |
| Nix fleet evaluation, `nix/` | none: pure | evaluation | size | (not modelled; the versioned source of the caches) |

Interaction: every command reads the catalog and the stack list (caches), stages a leaf
configuration before any tofu verb (caches, then migration, adoption and state verbs on the same
`.tf/<leaf>` workdir), and deploy commands may hand themselves to a background job (sessions).
The watchdog runs on the Proxmox hosts, independent of the CLI.

## 2. Modules

| Module | Component | Run | Proved in |
|---|---|---|---|
| `FleetSessions` (+ `MCFleetSessions`) | background jobs | `sessions`, `waits` | `FleetSessionsProofs` |
| `FleetCaches` | caches | `launcher` | `LauncherProofs` |
| `TfMigrate` (+ `MCTfMigrate`) | migration | `migrate` | `TfMigrateProofs` |
| `TfAdopt` (+ `MCTfAdopt`) | adoption | `pool` | `AdoptDisksProofs` |
| `TfVerbs` (+ `MCTfVerbs`) | other state verbs | `verbs` | `TfVerbsProofs` |
| `LauncherEnv` (+ `MCLauncherEnv`) | credentials and backend check | `launcher` | `LauncherProofs` |
| `SopsStore` (+ `MCSopsStore`), refines `AtomicSecrets` | secrets, `issue-tf-token` | `secrets` | `SopsStoreProofs` |
| `NixosDeploy` (+ `MCNixosDeploy`) | NixOS deploys, reset | `deploy` | `NixosDeployProofs` |
| `PveCluster` (+ `MCPveCluster`) | Proxmox cluster | `cluster` | `ProxmoxProofs` |
| `XoaDisks` (+ `MCXoaDisks`) | Xen Orchestra disks | `pool`, `disks_alias` | `AdoptDisksProofs` |
| `CtWatchdog` | watchdog | `watchdog`, `watchdog_starves` | `ProxmoxProofs` |

`MCLauncher` checks `FleetCaches` and `LauncherEnv` in one run, `MCPool` `TfAdopt` and `XoaDisks`. The
two of a pair share no variable, so an interleaving of their steps shows nothing that each alone does
not. The variable `part` picks at the start which of them runs; the other stays in one of its initial
states. The runs that refute a statement of the documentation (section 3) use the same modules.

In every module an action is one step of one process between two points where another process
can see or disturb it. Definitions whose comment begins "Mutant" are deliberately wrong variants of
the definition that follows; they are used to show that a property notices the error, and no
specification refers to them.

### FleetSessions

`file` holds the status files, `alive`/`zombie` the process table, `cmd` the commands that run,
`call` what each CLI is doing and `run` what each run of a job is doing. A write of a status file
is three steps, as in `_write_record`: read and merge, truncate, write. `DispatchGuard` ...
`DispatchWatch` are `dispatch_session`; `WaitStart`, `WaitReturn` are `run_and_wait`; `RunStart` ...
`RunFinish` are `run_job`, in the detached supervisor or in a thread; `KillRead` ... `KillMark` are
`sessions_kill`. `Crash` kills any process at any step. A dead supervisor stays a zombie while the
CLI that started it runs, because that CLI never waits for it, and `os.kill(pid, 0)` succeeds for a
zombie.

History: `ended` collects the exit codes commands really ended with. Left out: log files, listing
(it only reads), reuse of pids, errors of `Popen` other than a missing executable, and `kill all`,
a loop of the modelled kill.

### FleetCaches

A version stands for the content of the tracked sources, their fingerprint and everything Nix
builds from them, so a cache is right when the recorded fingerprint and the version agree. Each
command goes through `catalog_path`, `_leaf_stack_ids`, `_stage_json`; `Edit` saves a source at any
step and `Finish` also stands for a kill. Builds and writes may fail, as far as the code swallows
the failure. History: `seen` is the set of versions the source had while the command ran; `raced`
says that an edit fell into the last catalog refresh (see the finding on `config.py:147`).
`Serial` and `Reverts` select the assumptions: with two commands at once on one leaf, or a source
that goes back to an earlier version after a kill, a false hit is possible, and TLC shows both when
the constants are changed. `FLEET_CATALOG`, an explicit file, is left out: it has no cache.

### TfMigrate

Three variables hold what everybody calls "the backend": `declared` (settings), `config` (rendered
into `config.tf.json`, with `key` its sidecar) and `bound` (`.terraform`). A state is a set of
instances and a lineage; `Restamps` are the backends that mint their own lineage (the comment at
`tf_stacks.py:767` says pg does). Terminals run `migrate-backend` step by step; preview, apply and
state-push are single steps of other terminals, which is the interleaving that matters to the
migration. A copy may lose instances, a backend may not answer, a command may be killed anywhere.
History: `raced` excuses what nothing in the code prevents, a tofu run inside the window between a
migration's read and its verification, or a kill after the copy; `rebuilt` collects instances
created although they existed. One leaf is enough because a command treats its leaves one after
another and independently. Left out: several checkouts of one leaf, destroy and import.

### TfAdopt

A resource stands for its address, its import id and what that id leads to: nothing, the declared
object, a drifted or renamed one, or another object. A lookup by name may lead to another object
too, since `list_vms_by_name` keeps one of two that share a name; its name is then right, and only
the plan can show the difference. (An object that needs no change at all is `"same"`: no code could
tell it from the declared one.) `Needs` is what a resource refers to, which `-target` takes into the
second plan; `NeedsAssumption` says that no imported resource refers to a runner (`terraform_data`,
`ansible_*`), as the generated configuration has it the other way round
(`nix/lib/tf/xen-orchestra.nix:212`, `proxmox.nix:545`, `nix/tf/compute/ansible.nix:125`). If one did,
the ungated plan would run it. `Verdict` is `_adopt_rows`, `Consider` the part
of `tf_adopt` before the state is touched, `GatePlan` and `TargetedPlan` the gate, `Apply` an apply
that may stop half way. The loop keeps `targets` the way the code does: one variable for the option
and for the second plan. `ActionOn` is tofu's plan for one resource.

### CtWatchdog

One sweep is `StartSweep`, then for each listed container `Answer` or `Miss`, `Defer` or
`StampGlobal`, `StampOwn`, `Stop`, `Start`; `StampOwn` is three actions, as the script's removal of
the fail counter, its own stamp and the restart count are three writes with a kill between any two.
The script reads the clock once per sweep; stamps are kept as ages, `Since` is the script's `now -
stamp`, and ages stop at `Horizon`, beyond which every comparison has the same outcome, so that time
is unbounded in a finite model. `Kill` is the service's `TimeoutStartSec`, `Reboot` the host going
down, and containers hang, recover, and are stopped and started by an operator at any time, in the
middle of a sweep too. State files survive (a stamp that a kill tears is empty and reads as 0 in the
script's arithmetic, "never"; a write of a few bytes is taken as whole, and torn files are not
modelled). The clock is assumed not to be set back. Metrics and journal lines are left out. Names that
`PveCluster` has, too, carry the prefix `Watch` (`WatchSpec`), so that one module can prove about
both.

### NixosDeploy

`src` is what the flake declares, `inv` is `hosts.json` (or `Torn`, between truncation and write),
`procs` the process table. A deploy goes through the refresh (with addresses discovered from Xen
Orchestra), the snapshot and the conflict check, `Override` (`--ip`) or `Probe` (`deploy_ips`), and
colmena, which evaluates the flake and not `hosts.json`, then copies host by host. A reset reads,
takes a snapshot, kills and restarts the remote daemon. `Occurs` is the unanchored match of one
address in another's command line. History: `honest`, the hosts whose address `hosts.json` has
listed all along, and `killed`. A deploy that is killed leaves its copies running.

### XoaDisks

A command reads over REST (at once, or an error) and changes over JSON-RPC with a time limit: `Serve`
carries a call out, `GiveUp` leaves it to be carried out later by `ServeLate`, or never. `Look` is
`find_vm`, `Plan` and `Verify` the two reads of the sizes, `Wait` the poll for the power state.
`ConsolePower` and `ConsoleGrow` are everybody else. `Worlds` fixes how a host's VM can be found: by
its name, the manifest's alias, the name in `$XOA_VM_DOMAIN`, a dotted label or an address, and by
which of these by two VMs at once. Two disks of a VM may have one name; the code then keeps whichever
the API lists last (`reconcile.py:79`), so `Plan` and `Verify` each pick one of `Listings`. History:
`stopped`, `asked` and `lost` record the VMs a command shut down, asked to boot, and met a failing
call for. Names that `TfAdopt` has, too, carry the prefix `Xoa` (`XoaSpec`).

### SopsStore and AtomicSecrets

`store` holds what each file decrypts to; `plain` is the one plaintext file that every
`edit --plaintext` shares; `tmp` and the litter are temporary files between writing and encrypting,
which a kill leaves behind. Each command is the sequence of reads, sops runs and renames of the
code; sops may refuse and a copy of a key may sit in a file that does not own it. There are three
opinions on which file is whose, and they are three constants: the launcher's router
(`Routes` over `Default`, `config.py:255`), the fixed `nix/secrets/secrets.yaml` of `init` and `edit`
(`Main`, `secrets.py:31`), and `tfSopsFile`, which terranix reads (`TfFile`,
`nix/tf/providers/sops.nix:20`). `Checked` are the files in `nix/secrets`, the only directory `check`
looks at; a temporary file lies beside the file it is to replace, so it may be elsewhere. `check`
compares the names of trees, not their content. `AtomicSecrets` is
what the commands promise: a map of secrets that changes only by a whole change somebody asked for.
`Promise` instantiates it with the value each key has for a reader and with the change each command
is about to make, and `AllOrNothing` says that `SopsStore` implements it.

### LauncherEnv

A scenario is a layout of the store, the settings, the shell's exports and what the backends answer;
the actions are the steps of `_setup_env` in their order (`Dotenv`, `Manifest`, `Extract`,
`Proxmox`), each of which may fail in silence (`missed`), then those of `tf backend-check`.
`InitWorks` is what `tofu init` does with the same environment: of a Postgres backend it needs the
right to make schemas only when the stack has none (`tf_stacks.py:1102`), of S3 both variables of one
key and a bucket that takes that key. What AWS STS says of a key (`sts`), what `head-bucket` says
(`heads`) and what the states need (`works`) are separate. The AWS pair is filed as one secret and is
two variables, each with its own export. A flat Proxmox credential of any field suppresses the
instances. Variables that are read alike are represented by one of them; `PG_CONN_STR` may be
exported blank. Names that `FleetCaches` has, too, carry the prefix `Env` (`EnvSpec`).

### TfVerbs

`decl` is the manifest, `staged` the configuration in the shared workdir, `state` maps addresses to
objects, `real` are the objects that exist. A verb stages (`BeginVerb`), then runs tofu once, which is
atomic because tofu locks the state; `rekey` lists, asks, and then moves address by address, one run
each, so everything else can fall between two moves. An apply or destroy acts on any subset of what
its plan has: `--target` and a run that stops both come to that. It may taint what it created, and
tofu refuses a plan that destroys a protected object. `Exact` types carry their entry's name as
segment, `Derived` ones a name of their own (`dns-<entry>`), which is what `_rekey_address` and its
substring rule tell apart.

### PveCluster

pvecm and corosync are external: a node has its own `corosync.conf` (cluster and version), runs
corosync while it is a member and that copy is current, and a cluster works with a majority. `Pvecm`
may fail silently. `converge` asks each host twice, over two connections (`pve_cluster.py:196,203`); a
host that answers the first only reads as in no cluster. `BeginConverge` ... `Apply` are `converge`,
`BeginPlay` ... `Verify` the role on one host (`cluster-join.yml`), `BeginRemove` ... `Clean` the
removal playbook; `Event` switches hosts off and on or reinstalls them. `Within` says whose name
occurs in whose, because the playbook looks for the name in the text of `pvecm nodes`. History: `calm`
says that when the command began no host was in a second cluster of the wanted name and that nothing
else changed the hosts since.

## 3. What the runs check

`PROJECT.json` lists every run with its properties; each passing property has a mutant of the code
that breaks it.

| Run | Instance | Shows |
|---|---|---|
| `sessions` | 2 CLIs, 1 job, all commands, exit codes 0 and 1 | `NoFabricatedSuccess`, `SoleRecordTrue`, `DispatchErrorReal`, and the liveness `RunSettles` |
| `waits` | 2 CLIs that wait and kill, 2 jobs, exit codes 0, 1 and -9 | `WaitHonest`: an aggregate loses no positive exit code, and nothing of the caller still runs |
| `launcher` | caches: 2 processes, 2 leaves, 3 versions; credentials: four families of scenarios, S3 and Postgres over 2 files and 3 backends, two others, 2 Proxmox instances | `ConfigIsCurrent`, `InputsAreCurrent`; `VerdictTrue`, `FiledIsFound`, `PveAgree` |
| `migrate` | 2 terminals, 2 backends, 2 instances | `NoRebuild`, `RestoreComplete` |
| `pool` | adoption: 1 leaf with one resource of each interesting kind, every combination of options; disks: 1 terminal, 2 hosts, 2 VMs, 5 disks, 3 worlds | `PureImport`, `RightObject`; `HealthyMeansGrown`, `BootsOnlyWhatItStopped`, and the liveness `ComesBack` |
| `verbs` | 2 terminals, 2 commands, 1 edit, an entry with two resources named after it | `InPlace`: after a rename and a rekey the next apply destroys nothing of the renamed entry; `KeptObjects`: a rekey that succeeds lost no object |
| `secrets` | 1 writer, 1 reader, 2 commands in a row from any store, 3 keys in 2 trees and 2 files | `TokenWorks`, `CheckSeesPlaintext`, and the refinement `AllOrNothing` |
| `deploy` | 2 terminals, 2 hosts, one address inside the other, 2 manifests | `OverlapIsARace`, `CopiesWhereDeclared`, `AddressesOwned` |
| `cluster` | 3 hosts, 2 commands, 3 events, 2 cluster ids | `ConvergeTrue`, `PlayTrue` |
| `watchdog` | 2 containers, 2 misses, cooldowns 4 and 2 ticks, sweeps of up to 2 ticks | `RestartsPaced`, `RestartEarned`, and the liveness `FirstTended` |

Every one of them but `waits` also checks the module's type invariant; that of `LauncherEnv`
(`EnvTypeOK`) is not listed, for it says nothing that could go wrong.

`PlayTrue` says what a role that ends well leaves behind: its host is in the creator's cluster, or it
is in a cluster of another name, as it was before, which `cluster-join.yml:3,23` skips with success.

`VerdictTrue` compares `backend-check` with tofu where the two look at the same thing: the key that the
launcher exported, a store that is AWS's, the fleet's own bucket. For Postgres it holds always but for
one known disagreement, named in the formula (`CreateMissing`): a role that may not make schemas is
"NOT healthy" although init works, when the stack has its schema.

`TokenWorks` speaks of the file terranix reads, under the settings that make it the one
`keys add` writes (`RoutersAgree`); without them it does not hold (`TokenReachesTofu`, below).

### What is refuted

Each of these is a statement of the documentation, a comment or a test, and TLC finds it violated by
what the code does; `findings` in `PROJECT.json` has the quotations. Two are runs of their own:
`disks_alias` and `watchdog_starves`. For the others put the name under INVARIANT in the cfg of the
module's run (`Spec` and the module's own constants suffice in the runs of two), or under PROPERTY
where the table says so, in place of what stands there, with the constants the last column names.

| Property | Statement | What happens | Constants |
|---|---|---|---|
| `CleanRunBoots` (run `disks_alias`) | `reconcile.py:17` | a VM found by alias or address is never booted | those of the run |
| `Tended` (run `watchdog_starves`) | `ct-watchdog.sh.j2:99` | the first two take every slot | those of the run |
| `RecordIsTruth` | `tests/test_sessions.py:5` | the dispatcher's RUN record lands on the final one | `OneCaller`, `Dispatch` |
| `NoDoubleRun` | `sessions.py:197` | two dispatches both pass the guard | `Dispatch` |
| `AggregateHonest` | `tests/test_sessions.py:53` | a job killed by a signal disappears in `max` | `OneCaller`, `TwoJobs`, `Wait`, `OkOrSignal` |
| `EarlyDeathSurfaced` (PROPERTY) | `sessions.py:243` | a dead supervisor is a zombie, which looks alive | `OneCaller`, `Dispatch` |
| `OneView` | `tf_stacks.py:52` | an edit between catalog build and fingerprint | one process, one leaf, `MaxVersion = 2` |
| `RestorePossible` | `tf_stacks.py:762` | the dump has another lineage than the new backend | those of `migrate` |
| `EveryLeafConsidered` | `tf_stacks.py:1775` | `targets` is overwritten, the next leaf has no rows | `TwoLeaves`, `Pair`, `PairLeaf`, `PairKind`, `PairNeeds`, `All` |
| `TrailingPlanFlags` | `tf_stacks.py:913` | a sibling that was not moved is in no target | one terminal (no SYMMETRY), `Exact = {container}`, `Derived = {dns}`, `MaxJobs = 1` |
| `RekeyRetries` (PROPERTY) | `tf_stacks.py:989` | the new name exists after a rekey that stopped | those of `verbs` |
| `ProtectedSurvives` (PROPERTY) | `tf_stacks.py:353` | the block with `prevent_destroy` went with the rename | those of `verbs` |
| `VerdictMirrors` | `tf_stacks.py:1224` | the key tested is not the key exported | `Scenarios <- S3` |
| `EndpointTokenAgree` | `main.py:363` | one instance's address, another's token | `Scenarios <- Pve` |
| `TokenReachesTofu` | `secrets.py:61` | `tfSopsFile` set, nothing routed | `Routes <- NoRoutes` |
| `InitObeysSetting` | `secrets.py:308` | `sopsSecretsFile` names another file | `Routes <- NoRoutes`, `Default = integrationsYaml` |
| `InitMakesStore` | `secrets.py:299` | sops failed and left an empty file | those of `secrets` |
| `TrimmingSuffices` | `secrets.py:854` | an emptied tree stays a stale duplicate | those of `secrets` |
| `ListShowsAll` | `secrets.py:6` | only the default file is listed | those of `secrets` |
| `JsonSeesPlaintext` | `secrets.py:778` | `--json` says nothing of a decrypted file | those of `secrets` |
| `OverrideHonoured` | `nixos.py:198` | colmena does not read `hosts.json` | those of `deploy` |
| `BlocksSameHostOnly`, `ResetScoped` | `nixos.py:61`, `reset_connection.py:17` | one address inside another | those of `deploy` |
| `OneDeployPerHost` | `nixos.py:56` | both are past the check before either copies | those of `deploy` |
| `RemovalIdempotent` | `uncluster-pve-node.yml:18` | pve1 is found in pve10 | those of `cluster` |
| `ConvergeReports` (PROPERTY) | `cluster-join.yml:105` | an exit code 0 is taken for a join | those of `cluster` |
| `RefreshVerified` (PROPERTY) | `cluster-join.yml:178` | the word Quorate is printed with No, too | those of `cluster` |
| `NoTakeover` (PROPERTY) | `cluster-join.yml:115` | versions of two clusters are compared | those of `cluster` |
| `OnePerGlobalCooldown` | `ct-watchdog.sh.j2:17` | stamps hold the start of the sweep | those of `watchdog` |
| `MissedSinceBoot` | `ct-watchdog.sh.j2:14` | the count outlives a boot | those of `watchdog` |
| `NeverCutInHalf` (PROPERTY) | `ct-watchdog.sh.j2:16` | the time limit falls between stop and start | those of `watchdog` |

`AllOrNothing` fails with two writers: `keys rm` and `edit --plaintext` read, edit and replace a
whole file without a lock. So does `TokenWorks`: a second `issue-tf-token` voids the token that the
first has just filed.

### What the properties excuse

Several properties have an antecedent that takes out a case in which the code gives no protection. It
is part of what they say, and the notes of `hazards` name the case and the refuted statement about it:

* `raced`, in `FleetCaches` the edit between a catalog's build and its fingerprint, in `TfMigrate` a
  tofu run inside a migration or a kill before the verification, in `TfAdopt` an object changed after
  the gate.
* `calm`, in `PveCluster` a silent failure (of `converge` only), an event or another command during the
  one the property speaks of, and a second cluster of the same name.
* `quiet`, in `TfVerbs` another verb or an edit while a rekey runs.
* `lost`, in `XoaDisks` a call that failed or ran out of time, and `missed`, in `LauncherEnv` a read
  of a SOPS file that timed out.

### Bounds, and why they are enough

* Sessions: one status file is independent of every other, so `sessions` has one job; two callers
  give every pair of concurrent commands, and with their supervisors and commands up to four writers.
  What relates jobs is the aggregate of `run_and_wait`, so `waits` has two jobs, and the exit codes
  0, 1 and -9; the two callers may wait for overlapping sets and kill each other's. Callers and jobs
  are symmetric there: the run checks an invariant only.
* Caches: the properties relate one command to one leaf and to edits during it. A second leaf shows
  that leaves do not disturb each other, a second process what one leaves behind for the next. Three
  versions allow an edit in two different gaps of one command. The version bound is the only bound
  on edits.
* Migration: a migration involves two backends; a second terminal gives the overlap, and two
  instances a partial copy. `MCTfMigrate` declares terminals and instances symmetric: no action and
  no property distinguishes them, and the run has no liveness property.
* Adoption: a resource is judged by its kind and options only; the instance has a verified one, one
  looked up by name, a secret that the first needs, a runner and an undeclared address. `MaxDrifts =
  1` bounds changes of live objects: one change in the gap between gate and apply is what `raced`
  excuses, and one before it is what the gate must catch.
* Watchdog: two containers compete for the host-wide limit, which is what the pacing properties and
  `FirstTended` are about. At the default 2:1 ratio of the cooldowns two containers cannot starve each
  other, so the run says nothing of the last one in the list: three can, and `watchdog_starves` has
  three. The constants keep the ratio of the defaults (cooldown 1800 s, global 900 s, time limit
  900 s, interval 300 s), except that `watchdog_starves` halves the cooldowns and needs one miss.
* State verbs: an interleaving that hurts has a verb of several runs and one other, so two terminals
  (symmetric) and two commands; one edit is the rename. Two resources named after the entry give a
  rekey a gap between two moves. `verbs` has no derived type: those a rekey never moves, and with one
  more type the state space passes the time there is; `TrailingPlanFlags` is about exactly them.
* Credentials: each family varies everything its properties read and fixes the rest; all layouts of
  at most one key per file and variable, all routes, both values of `tfSopsFile`, exports that are
  blank, half of the pair or the whole, five worlds of keys and buckets, every right of a database
  role with and without the schema.
* Secrets: a run begins in any store, so two commands in a row reach what a longer history leaves.
  Only the token takes two values, as it is the one that is rotated. `sopsFiles` routes the token's
  tree to `tfSopsFile`; the two refuted statements about a layout need other settings. `MaxLitter = 1`
  bounds the temporary files killed commands leave.
* Deploys: two terminals for the race, two hosts for one address inside another; each terminal runs
  one command, so that a process that ended never comes back.
* Cluster: three hosts are the fewest where a majority can be lost and kept; two commands give every
  pair of them, interleaved or in sequence; three events let one host miss a change, come back, and
  another go down. Two cluster ids allow a second cluster after a reinstall.
* Disks: one terminal, because the console's actions cover whatever a second one does to a VM. Two
  hosts show what one command carries from one host to the next. The three worlds have each way to
  find a VM, a name that two VMs carry, two disks of one name and a disk that no VM has.

### Fairness

* `FleetSessions!FairSpec`: weak fairness of each process's steps and of the end of each command.
  The operating system schedules every process; nobody is obliged to begin a command or to crash.
  A command that never ends is truthfully RUN for ever and is outside `RunSettles`.
* `CtWatchdog!FairWatch`: weak fairness of the timer and the script, and of time. Nothing obliges a
  container to hang or recover, or an operator to act. `FirstTended` also assumes that from some point
  on sweeps run to their end and the host stays up (`Uninterrupted`); without that nothing can be
  promised to any container.
* `XoaDisks!XoaSpec`: weak fairness of each terminal's own steps (`Step`): every read and every call of
  a command returns, fails or runs into its time limit (`api.py:292`, `reconcile.py`'s poll). Nothing
  obliges the pool to carry a call out, a command to begin, or the console to act.
* The other modules check safety only. Their specifications have no fairness.

## 4. What is proved

TLAPS checks these for every value of the constants that satisfies the modules' named assumptions,
which TLC evaluates in every run. Each inductive invariant is a conjunction of named parts, each with
a comment that says what it is about; TLC checked it on the instance of the run before it was proved.
Bounds on commands, edits and events (`MaxJobs`, `MaxEdits`, `MaxDrifts`, `MaxLitter`, ...) are
constants too, so the theorems hold for histories of any length.

* `FleetSessionsProofs`: `TypeCorrect`; `SuccessIsEarned` (`Spec => []NoFabricatedSuccess`) and
  `WaitIsHonest` (`Spec => []WaitHonest`). A success in a file was first in the buffer of some
  writer: the invariant says of every place a DONE-OK record can sit (files, call buffers, run
  buffers, exit codes) that some command of that job ended with 0. For waiting it follows the exit
  codes from the runs to the aggregate.
  `SoleRecordIsTrue` (`Spec => []SoleRecordTrue`) and `DispatchErrorIsReal`
  (`Spec => []DispatchErrorReal`) rest on `SoleInv`. A job with one run and no killer has two writers
  left, the dispatching CLI and its supervisor, and they race: the CLI records RUN after it has
  spawned a supervisor that may be done already. `Written` says what each may be about to put, with
  whose pid; `Living` that the supervisor of a CLI that lives is alive or a zombie, so that the CLI's
  watch cannot take it for dead; `SoleRecords` that a finished record is that of the run that ended.
  Contention is a fact of the present state (`Sole`), so `SoleBefore` shows first that a job once
  contended stays so.
* `LauncherProofs`, of what a command starts from. Of `FleetCaches`: `TypeCorrect`; `ConfigCorrect`
  (`Serial /\ ~Reverts /\ Spec => []ConfigIsCurrent`). The invariant `StageInv` has three parts:
  `Alone` (one command at a time); `Ordered` (a leaf's configuration is at least as new as the
  fingerprint recorded for it, and neither is from the future, so a hit on the current version is
  exact); and `Rendering` (a command inside `_stage_json` took its fingerprint no earlier than the
  recorded one and builds no earlier than its fingerprint).
  `ConfigIsCurrent` alone is not inductive: it says nothing of the files a killed
  command leaves behind. `InputsCorrect` (`Serial /\ ~Reverts /\ Spec => []InputsAreCurrent`) makes
  the same argument for the list of leaves (`Listed`, `Enumerating`) and for the catalog
  (`Catalogued`, `Refreshing`), whose fingerprint is taken after the build and is therefore excused
  by `raced`.
  Of `LauncherEnv`: `FiledReaches` (`EnvSpec => []FiledIsFound`), `PveIsOne` (`EnvSpec => []PveAgree`)
  and `VerdictIsTrue` (`EnvSpec => []VerdictTrue`), for any files, instances and scenarios. `Filled`
  says of each credential that it is blank or what was found, and found once its step is over (`Due`);
  `Clean` and `Agreed` follow the two Proxmox variables from blank over the manifest's endpoint to the
  pair; `Judged` keeps what `backend-check` has learnt of the key before it speaks. `EnvAssumption` has
  what these need of the settings: the path of the AWS key is never empty (it has a default), that of
  the Cloudflare token is fixed under `integrations`, and a file has one value of a key. That the
  first instance in sorted order is one of the set (`FirstIs`) rests on the least element of a set of
  naturals, which `Least` derives from the well-founded order of finite sets.
* `ProxmoxProofs`, of the two programs of a Proxmox host, which share no state. Of `PveCluster`:
  `TypeCorrect`; `ConvergeIsTrue` (`Spec => []ConvergeTrue`) and `PlayIsTrue` (`Spec => []PlayTrue`),
  for any number of hosts, clusters, commands and events. Both speak of the end of a command, so the
  invariant says what holds on the way as long as it is `calm`: `Converges`, that a host seen in the
  wanted cluster is in the founder's, and that every other host that answered is still in the plan;
  `Plays`, that no host strayed before the role joins, and that the copy it installs is the
  founder's. A host that creates is the founder, which then has no configuration, so nobody was in its
  cluster (`StepDone`); a join keeps everybody who is there (`Added`). Hosts that go away, the other
  command and the removal either leave configurations and members alone (`Alike`) or end the calm.
  `Ordered` (the founder is first in a plan, and only it creates) needs `Planned`, which says of
  `Plan` that it has every host seen in no cluster. `ClusterAssumption` and `NoneAssumption` say that
  the hosts are finitely many, that no cluster has the name of a mark, and that the mark for "none"
  is neither a cluster nor a configuration. Of `CtWatchdog`: `WatchTypeCorrect`; `PacedCorrect`
  (`WatchSpec => []RestartsPaced`); `EarnedCorrect` (`WatchSpec => []RestartEarned`). `Stamped` says
  that the host-wide stamp is never older than the sweep of the last restart, and, once the stamp of
  the restart under way is written, that the previous restart's sweep lies a whole cooldown back; it
  survives a kill between any two writes because the stamp is written before `pct stop`. `Counted`
  bounds the count on file by the misses that happened. `InTime` bounds a sweep by the service's time
  limit and keeps ages exact.
* `NixosDeployProofs`: `TypeCorrect`; `CopiesGoWhereDeclared`, `AddressesStayOwned` and
  `OverlapsAreRaces` for the three invariants of the run. `Inventories` carries the ownership of an
  address through every buffer between two writes of `hosts.json`; `Honest` aligns what is planned,
  what runs and what a snapshot saw for a host whose declaration never changed; `Unseen` says that a
  deploy past its check saw no copy to such a host. An overlap then has two deploys neither of which
  saw the other. `HostsAssumption` (the hosts are finitely many) makes "`--ip` takes a single host"
  mean that there is exactly one.
* `AdoptDisksProofs`, of two commands that share no state. Of `TfAdopt`: `TypeCorrect`;
  `AdoptionIsPure` (`Spec => []PureImport`) and `AdoptionBindsRight` (`Spec => []RightObject`). The
  second plan of an adoption is not gated. `GateHolds` says that for the imports and what they need it
  finds no more than the first did, as long as no object changed in between (`TargetsStay`: no runner
  is among them); `RightIds` that an import whose id leads
  elsewhere would have shown in the gated plan.
  Of `XoaDisks`: `DisksTypeCorrect`; `HealthyIsGrown` (`XoaSpec => []HealthyMeansGrown`) and
  `BootsItsOwn` (`XoaSpec => []BootsOnlyWhatItStopped`), for any number of terminals. Exit code 0
  speaks of sizes that were read long ago. `Progress` says, of a reconciler that has met no failure,
  that every host behind it is grown, and of the host it is about every disk that is no longer in its
  plan; it lasts because no step of anybody, a late call included, makes a disk smaller (`Larger`,
  `StaysSound`). `Planned` ties the goal and the VM of a command to its host, `About` the disks of a
  plan to the VM, and `Waits` a reply to the call it answers. `Remembers` follows the VM a command
  shut down from the call to the flag that lets it boot: the flag is lowered between two hosts.
* `TfMigrateProofs`: `TypeCorrect`; `NothingIsRebuilt` (`Spec => []NoRebuild`) and `DumpHasEverything`
  (`Spec => []RestoreComplete`). A state is `Good` when the bound backend has every instance there
  is. It need not stay good: a copy may lose items. `Noticed` says that then, unless the operator was
  warned, a migration is about to verify that read a good state before; `Dumped` that the dump is
  what it read; `Minted` that a state with instances has a lineage, so that the verification compares
  something. `NoStateAssumption` and `NoneAssumption` say that the mark for "none" is no state, no
  backend and no lineage.
* `SopsStoreProofs`: `TypeCorrect` and `CleanCheckIsTrue` (`Spec => []CheckSeesPlaintext`) for any
  number of writers. `TokenIsGood` (`OneWriter /\ Spec => []TokenWorks`) and `WholeCommands`
  (`OneWriter /\ Spec => AllOrNothing`) assume one terminal that writes and any number that read: with
  two, TLC refutes both (section 3). `Alone` says that what a command read is still so
  (`Creating`, `Removing`, `Based`) and that `issue-tf-token` files the address before the token
  (`Minting`). For the refinement each action of `SopsStore` is shown to be, under the mapping of
  `Promise`, a stutter, the request of a change, or the whole of one; a killed command is a stutter.
  `StoreAssumption` says that the token and its address have different keys.
* `TfVerbsProofs`: `TypeCorrect`, which includes that no object ever has two addresses, nor one of
  another type; `RekeyIsInPlace` (`Spec => []InPlace`); and the action property `RekeyKeepsObjects`
  (`Spec => KeptObjects`). `Owned` (every object has one address) needs `Pushable`: tofu takes a pushed
  state only if its serial is newer, and such a file is the present state less one address.
  `Accounted` follows every object a rekey listed, from the confirmation on, to where the rekey left
  it or to the verb that took it (`Onlooker` does this for all other terminals at once);
  `Undisturbed` says that nothing of the old name appears behind a rekey's back. That one rekey's
  moves are not in each other's way rests on `SegmentsDiffer`: a type has one address of a segment.
  `VerbsAssumption` bounds the entries by the objects of a type (`MaxId`), which the first apply needs.

Only model-checked:

* The liveness properties `RunSettles`, `FirstTended` and `ComesBack`: liveness under fairness is
  beyond the prover.
* `TokenWorks` and `AllOrNothing` are proved for one writer, as the run checks them, and fail for two.
  `ConfigIsCurrent` and `InputsAreCurrent` are proved under `Serial` and `~Reverts`, the assumptions
  of the run, without which they do not hold.

No module declares a RECURSIVE operator.

## 5. Plan

Next, a proof: the step simulation of `SopsStore` with several writers that touch different files.

Models that could follow: the template build of the Xen Orchestra tool, the unattended installs
(`pve_install.py` and its answer server), the return-code protocol of `_util.run_shell`, and the
composition of `FleetCaches` with `TfMigrate`, which both write the rendered configuration and its
sidecar.

## 6. Not modelled

* `secrets updatekeys`, recipients and `host-recipient`: they change who can decrypt, and nothing
  else in the models reads that.
* `vm-snapshot`, `vm-set-memory`, `sr-scan` and `build-template` of the Xen Orchestra tool.
* `migrate-backend` over several checkouts of one leaf: a second checkout whose `.terraform` still
  binds the old backend migrates again, `-force-copy` overwrites the newer state, and the
  verification passes.
* What `main.py` sets up for Ansible and for plugins, and its re-exec into the devshell.
* The API clients, the thin command groups, image builds and the exporter: single calls of external
  services, no state of their own.
* Tailnet enrolment and the attic bootstrap: sequences of idempotent tasks on one host, in which
  each task checks its own effect.
* The Nix evaluation: pure and large. Its result is the versioned source of `FleetCaches`, the
  declaration of `NixosDeploy` and `TfVerbs`.
