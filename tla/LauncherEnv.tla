---------------------------- MODULE LauncherEnv ----------------------------
(***************************************************************************)
(* The credentials of a command: the launcher fills environment variables  *)
(* before any command runs (main.py), in a fixed order, from .env, the     *)
(* manifest and the SOPS files, and every failure on the way is silent.    *)
(* `fleet tf backend-check` then says whether the state backend works;     *)
(* tofu, started with the same environment, is what it speaks for.         *)
(* The names every module has carry the prefix Env: LauncherProofs extends *)
(* this module beside FleetCaches.                                         *)
(***************************************************************************)
EXTENDS Naturals, Sequences

CONSTANTS Files,       \* SOPS files
          Default,     \* fleet.settings.sopsSecretsFile
          Sorted,      \* the names of Proxmox provider instances, sorted
          Scenarios    \* settings, stores, shells and worlds to start from

Clusters == {Sorted[i] : i \in DOMAIN Sorted}
Trees  == {"integrations", "dbs"}
None   == "none"
Unset  == "unset"
Blank  == "blank"        \* exported, to nothing
Flat   == "flat"         \* a Proxmox credential filed under no instance
Keys   == {"present", "former"}
(* Each is filed as one secret; XOA_*, the Cloudflare and the Grafana tokens
   are read alike. *)
Credentials == {"AWS_ACCESS_KEY_ID", "PG_CONN_STR", "CLOUDFLARE_API_TOKEN", "HEADSCALE_API_KEY"}
(* The AWS pair is filed as one, and is two variables. *)
SecretVars == Credentials \union {"AWS_SECRET_ACCESS_KEY"}
FiledAs(w) == IF w = "AWS_SECRET_ACCESS_KEY" THEN "AWS_ACCESS_KEY_ID" ELSE w
(* The password is read as the user name is. *)
PveFields == {"endpoint", "username", "api_token"}
PveVar == [f \in PveFields |-> CASE f = "endpoint" -> "PROXMOX_VE_ENDPOINT"
                                 [] f = "username" -> "PROXMOX_VE_USERNAME"
                                 [] f = "api_token" -> "PROXMOX_VE_API_TOKEN"]
Vars   == SecretVars \union {PveVar[f] : f \in PveFields}
Held   == Keys \union Clusters \union {Flat}
Backends == {"s3", "pg", "local"}
Buckets == {"fleet", "own"}
Rights == {"refused", "connects", "creates"}   \* of a role in the state database

(* What the operator declared, filed and exported, and what is out there. *)
Scenario ==
    [type : Backends,                        \* fleet.settings.backend.type
     override : {None, "local", "own bucket"},  \* backend.perStack of the stack
     routes : [Trees -> Files \union {None}],   \* fleet.settings.sopsFiles
     tfFile : Files,                         \* fleet.settings.tfSopsFile
     path : [Credentials -> Trees \union {None}], \* the tree each credential is in
     keys : SUBSET [file : Files, var : Credentials, key : Keys],
     pve : [Files -> SUBSET ((Clusters \union {Flat}) \X PveFields)],
     endpoints : SUBSET Clusters,            \* manifest instances with one
     shell : [Vars -> Held \union {Unset, Blank}],
     dotenv : [Vars -> Held \union {Unset}],
     sops : {"path", "profile", None},       \* where the binary is
     sts : SUBSET Keys,                      \* the keys that AWS STS knows
     heads : SUBSET (Keys \X Buckets),       \* who may ask for a bucket's head
     works : SUBSET (Keys \X Buckets),       \* who may use the states in it
     db : [Keys -> Rights],
     schema : BOOLEAN]                       \* the stack's schema exists

(* Two paths are not the operator's: that of AWS has a default, that of
   Cloudflare is written in the code.  A file has one value of a key. *)
ASSUME EnvAssumption ==
    /\ Default \in Files /\ None \notin Files
    /\ Sorted \in Seq(Clusters)
    /\ \A i, j \in DOMAIN Sorted : Sorted[i] = Sorted[j] => i = j
    /\ Clusters \cap (Keys \union {None, Unset, Blank, Flat}) = {}
    /\ Scenarios \subseteq Scenario
    /\ \A s \in Scenarios :
        /\ s.path["AWS_ACCESS_KEY_ID"] # None
        /\ s.path["CLOUDFLARE_API_TOKEN"] = "integrations"
        /\ \A e, g \in s.keys : e.file = g.file /\ e.var = g.var => e = g

VARIABLES sc,        \* the scenario: no command here changes it
          env,       \* the environment of the process
          pc,        \* the next thing it does
          missed,    \* a read of a SOPS file timed out
          creds,     \* the key backend-check tests
          ok,        \* backend-check's running verdict
          verdict    \* what it ended with

envVars == <<sc, env, pc, missed, creds, ok, verdict>>

Order == <<"dotenv", "AWS_ACCESS_KEY_ID", "PG_CONN_STR", "manifest", "proxmox",
           "CLOUDFLARE_API_TOKEN", "HEADSCALE_API_KEY", "ready">>
Steps == {Order[i] : i \in DOMAIN Order}
Checks == {"s3", "pg", "sts", "bucket", "done"}
Verdicts == {None, "healthy", "unhealthy", "crash"}

EnvTypeOK ==
    /\ env \in [Vars -> Held \union {Unset, Blank}]
    /\ \A v \in SecretVars : env[v] \in Keys \union {Unset, Blank}
    /\ \A v \in Vars \ SecretVars : env[v] \notin Keys
    /\ pc \in Steps \union Checks /\ missed \in BOOLEAN /\ ok \in BOOLEAN
    /\ creds \in Keys \union {None} /\ verdict \in Verdicts

-----------------------------------------------------------------------------
(* Which file holds what. *)

FileFor(tree) == IF sc.routes[tree] # None THEN sc.routes[tree] ELSE Default
IntegrationsFile == IF sc.routes["integrations"] # None THEN sc.routes["integrations"] ELSE sc.tfFile
(* AWS, Postgres and Headscale go by the tree their path names. *)
SopsFileForIntegrations(v) == IntegrationsFile                                 \* mutant
SopsFileFor(v) == IF v = "CLOUDFLARE_API_TOKEN" THEN IntegrationsFile ELSE FileFor(sc.path[v])
At(file, v) == {e.key : e \in {d \in sc.keys : d.file = file /\ d.var = v}}

IsBlank(v) == env[v] \in {Unset, Blank}
SetIfBlank(e, v, value) == IF e[v] \in {Unset, Blank} THEN [e EXCEPT ![v] = value] ELSE e
Rank(c) == CHOOSE i \in DOMAIN Sorted : Sorted[i] = c
First(S) == CHOOSE c \in S : \A d \in S : Rank(c) <= Rank(d)

-----------------------------------------------------------------------------
(* _setup_env, block by block. *)

After(step) == Order[1 + CHOOSE i \in DOMAIN Order : Order[i] = step]
Go(step) == pc = step /\ pc' = After(step) /\ UNCHANGED <<sc, creds, ok, verdict>>

(* .env never replaces an exported variable, be it blank.  Without sops the
   rest is skipped, the manifest's endpoint included. *)
Dotenv ==
    /\ pc = "dotenv" /\ pc' = IF sc.sops = None THEN "ready" ELSE After("dotenv")
    /\ env' = [v \in Vars |-> IF env[v] = Unset THEN sc.dotenv[v] ELSE env[v]]
    /\ UNCHANGED <<sc, missed, creds, ok, verdict>>

Lost(step) == /\ pc \in Credentials \union {"proxmox"} /\ Go(step)
              /\ missed' = TRUE /\ UNCHANGED env

Extract(v) ==
    /\ Go(v) /\ UNCHANGED missed
    /\ LET found == IF sc.path[v] = None THEN {} ELSE At(SopsFileFor(v), v)
       IN  IF found = {} THEN UNCHANGED env
           ELSE \E k \in found :
                  env' = [w \in Vars |-> IF w \in SecretVars /\ FiledAs(w) = v /\ IsBlank(w)
                                         THEN k ELSE env[w]]

ManifestEndpointLast(E) == CHOOSE c \in E : \A d \in E : Rank(d) <= Rank(c)  \* mutant
ManifestEndpoint(E) == First(E)
Manifest ==
    /\ Go("manifest") /\ UNCHANGED missed
    /\ env' = IF sc.endpoints = {} THEN env
              ELSE SetIfBlank(env, PveVar["endpoint"], ManifestEndpoint(sc.endpoints))

(* Flat wins, be it a user name only; else every instance in sorted order offers what is still unset:
   each field comes from the first instance that has it. *)
FirstWith(f) ==
    LET filed == sc.pve[IntegrationsFile]
        having == {c \in Clusters : <<c, f>> \in filed}
    IN  IF \E g \in PveFields : <<Flat, g>> \in filed
        THEN IF <<Flat, f>> \in filed THEN Flat ELSE None
        ELSE IF having = {} THEN None ELSE First(having)
Offer(e, f) == IF FirstWith(f) = None THEN e ELSE SetIfBlank(e, PveVar[f], FirstWith(f))
Proxmox == /\ Go("proxmox") /\ UNCHANGED missed
           /\ env' = Offer(Offer(Offer(env, "endpoint"), "username"), "api_token")

Setup == \/ Dotenv \/ Manifest \/ Proxmox
         \/ \E v \in Credentials : Extract(v)
         \/ \E step \in Steps \ {"ready"} : Lost(step)

-----------------------------------------------------------------------------
(* backend-check, for one stack. *)

EffectiveType == IF sc.override = None THEN sc.type
                 ELSE IF sc.override = "local" THEN "local" ELSE sc.type
Bucket == "fleet"        \* of the fleet's backend, whatever the override says
Say(v) == verdict' = v /\ pc' = "done"

Resolve ==
    /\ pc = "ready" /\ UNCHANGED <<sc, env, missed, creds, ok>>
    /\ IF EffectiveType = "local" THEN Say("healthy")
       ELSE pc' = EffectiveType /\ UNCHANGED verdict

CheckPg ==
    /\ pc = "pg" /\ UNCHANGED <<sc, env, missed, creds, ok>>
    /\ LET conn == env["PG_CONN_STR"] IN
        Say(IF conn \in Keys /\ sc.db[conn] = "creates" THEN "healthy" ELSE "unhealthy")

(* The key is read again, from the integrations file; a sibling's does for
   the rest of the check, but not for the verdict. *)
SiblingsVerdictGood(found) == TRUE                                     \* mutant
SiblingsVerdict(found) == found
CheckCreds ==
    /\ pc = "s3" /\ UNCHANGED <<sc, env, missed>>
    /\ LET here == At(IntegrationsFile, "AWS_ACCESS_KEY_ID")
           siblings == UNION {At(f, "AWS_ACCESS_KEY_ID") : f \in Files}
       IN  /\ ok' = SiblingsVerdict(here # {})
           /\ IF sc.sops # "path" \/ siblings = {}
              THEN Say("unhealthy") /\ UNCHANGED creds
              ELSE /\ \E k \in (IF here # {} THEN here ELSE siblings) : creds' = k
                   /\ pc' = "sts" /\ UNCHANGED verdict
CheckLost == /\ pc \in {"s3", "pg", "sts", "bucket"} /\ Say("crash")   \* a time limit
             /\ UNCHANGED <<sc, env, missed, creds, ok>>

CheckSts == /\ pc = "sts" /\ UNCHANGED <<sc, env, missed, creds, ok>>
            /\ IF creds \notin sc.sts THEN Say("unhealthy")
               ELSE pc' = "bucket" /\ UNCHANGED verdict

CheckBucket == /\ pc = "bucket" /\ UNCHANGED <<sc, env, missed, creds, ok>>
               /\ Say(IF ok /\ <<creds, Bucket>> \in sc.heads THEN "healthy" ELSE "unhealthy")

Check == Resolve \/ CheckPg \/ CheckCreds \/ CheckSts \/ CheckBucket \/ CheckLost

EnvInit == /\ sc \in Scenarios /\ env = sc.shell /\ pc = "dotenv"
        /\ missed = FALSE /\ creds = None /\ ok = TRUE /\ verdict = None
Done == pc = "done" /\ UNCHANGED envVars
EnvNext == Setup \/ Check \/ Done
EnvSpec == EnvInit /\ [][EnvNext]_envVars

-----------------------------------------------------------------------------
(* What a command can rely on. *)

SetUp == pc \in {"ready"} \union Checks
Operator(v) == sc.shell[v] \in Held \/ sc.dotenv[v] \in Held
RoutersAgree == FileFor("integrations") = IntegrationsFile

(* What `tofu init` of the stack finds, with the launcher's environment and the
   backend block of the stack (nix/tf/default.nix).  It makes the stack's schema
   where there is none, and asks for no right to where there is one. *)
InitWorks ==
    CASE EffectiveType = "local" -> TRUE
      [] EffectiveType = "pg"    ->
            LET conn == env["PG_CONN_STR"] IN
            conn \in Keys /\ sc.db[conn] \in (IF sc.schema THEN {"connects", "creates"} ELSE {"creates"})
      [] EffectiveType = "s3"    ->
            LET key == env["AWS_ACCESS_KEY_ID"] IN
            /\ key \in Keys /\ env["AWS_SECRET_ACCESS_KEY"] = key
            /\ <<key, IF sc.override = "own bucket" THEN "own" ELSE "fleet">> \in sc.works

(* backend-check reads the state key anew: from where the launcher read it, if
   no read failed, both routers name one file and nothing was exported. *)
SameKey ==
    /\ ~missed /\ sc.sops = "path"
    /\ SopsFileFor("AWS_ACCESS_KEY_ID") = IntegrationsFile
    /\ \A w \in SecretVars : FiledAs(w) = "AWS_ACCESS_KEY_ID" => ~Operator(w)
(* It asks for what tells whether tofu can use the states only if the store is
   that of AWS, and the stack's states are in the fleet's bucket. *)
AsksForIt ==
    /\ sc.override # "own bucket"
    /\ \A k \in Keys : <<k, Bucket>> \in sc.works <=> k \in sc.sts /\ <<k, Bucket>> \in sc.heads
CreateMissing == sc.schema /\ env["PG_CONN_STR"] \in Keys /\ sc.db[env["PG_CONN_STR"]] = "connects"

(* Where backend-check tests the key that the launcher exported, and the store
   is that of AWS, healthy means that tofu init works, and unhealthy that it does
   not: of a Postgres backend always, except that backend-check demands the
   right to make schemas of a stack that has its schema. *)
VerdictTrue ==
    (EffectiveType = "s3" => SameKey /\ AsksForIt) =>
        /\ verdict = "healthy" => InitWorks
        /\ verdict = "unhealthy" => ~InitWorks \/ (EffectiveType = "pg" /\ CreateMissing)

(* A credential that `secrets keys add` files (in the file its tree is routed
   to) reaches the command, in each of its variables that the operator did not
   set, whatever the layout of the store: the credentials that go by their tree
   always, the others when tfSopsFile and the route name one file. *)
FiledIsFound ==
    SetUp /\ ~missed /\ sc.sops # None =>
        \A w \in SecretVars : LET v == FiledAs(w) IN
            ~Operator(w) /\ sc.path[v] # None
            /\ (v = "CLOUDFLARE_API_TOKEN" => RoutersAgree)
            /\ At(FileFor(sc.path[v]), v) # {}
            => env[w] \in At(FileFor(sc.path[v]), v)

(* The endpoint and the token are of one Proxmox cluster, when no credential is
   filed flat, the operator set neither, and every instance whose address the
   fleet knows (from one place) has its token filed, and no other has. *)
PveAgree ==
    LET filed == sc.pve[IntegrationsFile]
        tokens == {c \in Clusters : <<c, "api_token">> \in filed}
        urls == {c \in Clusters : <<c, "endpoint">> \in filed}
    IN  (/\ SetUp /\ ~missed /\ sc.sops # None
         /\ \A f \in {"endpoint", "api_token"} : ~Operator(PveVar[f])
         /\ {sc.endpoints, urls} \subseteq {tokens, {}} /\ {sc.endpoints, urls} # {{}}
         /\ ~ \E f \in PveFields : <<Flat, f>> \in filed)
        => env[PveVar["endpoint"]] = env[PveVar["api_token"]]

(* main.py's comment on the endpoint (lines 362-363): it and the token cannot
   come from different clusters.  They can: an instance may have one of the
   two, and a flat credential is of no instance. *)
EndpointTokenAgree ==
    (SetUp /\ ~missed /\ \A f \in {"endpoint", "api_token"} : ~Operator(PveVar[f])
     /\ env[PveVar["endpoint"]] \in Clusters /\ env[PveVar["api_token"]] \in Clusters)
    => env[PveVar["endpoint"]] = env[PveVar["api_token"]]

(* tf_stacks.py's comment on backend-check (lines 1224-1225): it mirrors the
   launcher's resolution exactly, including its precedence, so the key it found
   and tests is the one that the launcher exported. *)
VerdictMirrors == pc \in {"sts", "bucket"} /\ ok /\ ~missed => env["AWS_ACCESS_KEY_ID"] = creds
============================================================================
