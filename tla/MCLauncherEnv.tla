--------------------------- MODULE MCLauncherEnv ---------------------------
(* Families of scenarios: layouts of the S3 credentials, of the Postgres ones, of
   two others, and of two Proxmox instances; in each, all else is fixed. *)
EXTENDS LauncherEnv

CONSTANTS secretsYaml, tfYaml

MCSorted == <<"lab", "main">>
NoVars == [v \in Vars |-> Unset]
Paths == [v \in Credentials |-> IF v = "PG_CONN_STR" THEN "dbs" ELSE "integrations"]
Base == [type |-> "s3", override |-> None, routes |-> [t \in Trees |-> None],
         tfFile |-> secretsYaml, path |-> Paths, keys |-> {},
         pve |-> [f \in Files |-> {}], endpoints |-> {}, shell |-> NoVars,
         dotenv |-> NoVars, sops |-> "path", sts |-> Keys, heads |-> Keys \X {"fleet"},
         works |-> Keys \X {"fleet"}, db |-> [k \in Keys |-> "creates"], schema |-> FALSE]

(* At most one key per file. *)
KeysOf(v) == {S \in SUBSET {[file |-> f, var |-> v, key |-> k] : f \in Files, k \in Keys} :
                \A e, g \in S : e.file = g.file => e = g}
Routings == {[t \in Trees |-> IF t \in T THEN tfYaml ELSE None] : T \in SUBSET Trees}

(* AWS with a bucket that the present key may use, and with one it may not; a
   store of another make; a bucket that may be asked for and no more; and a
   former key of a live account. *)
Reads == {<<"present", "fleet">>}
Worlds == {<<{"present"}, Reads, Reads>>, <<{"present"}, {}, {}>>, <<{}, {}, Reads>>,
           <<{"present"}, Reads, {}>>, <<Keys, Reads, Reads>>}

(* The shell and .env: nothing, half of the pair, the whole of it. *)
Exported == {<<NoVars, NoVars>>,
             <<[NoVars EXCEPT !["AWS_ACCESS_KEY_ID"] = Blank], [NoVars EXCEPT !["AWS_ACCESS_KEY_ID"] = "present"]>>,
             <<[NoVars EXCEPT !["AWS_ACCESS_KEY_ID"] = "present"], NoVars>>,
             <<[NoVars EXCEPT !["AWS_ACCESS_KEY_ID"] = "present", !["AWS_SECRET_ACCESS_KEY"] = "present"], NoVars>>}
S3 == {[Base EXCEPT !.override = o, !.routes = r, !.tfFile = f, !.keys = s,
                    !.path["AWS_ACCESS_KEY_ID"] = t, !.sops = b, !.sts = w[1], !.heads = w[2],
                    !.works = w[3], !.shell = x[1], !.dotenv = x[2]] :
         o \in {None, "local", "own bucket"}, r \in Routings, f \in Files,
         s \in KeysOf("AWS_ACCESS_KEY_ID"), t \in Trees, b \in {"path", "profile", None},
         w \in Worlds, x \in Exported}
Pg == {[Base EXCEPT !.type = "pg", !.routes = r, !.tfFile = f, !.keys = s,
                    !.path["PG_CONN_STR"] = p, !.db["present"] = d, !.db["former"] = "refused",
                    !.schema = b, !.shell["PG_CONN_STR"] = x] :
         r \in Routings, f \in Files, s \in KeysOf("PG_CONN_STR"), p \in {"dbs", None},
         d \in Rights, b \in BOOLEAN, x \in {Unset, Blank, "former"}}
Others == {[Base EXCEPT !.type = "local", !.routes = r, !.tfFile = f, !.keys = c, !.shell[v] = x] :
             r \in Routings, f \in Files, v \in {"CLOUDFLARE_API_TOKEN", "HEADSCALE_API_KEY"},
             c \in UNION {KeysOf(u) : u \in {"CLOUDFLARE_API_TOKEN", "HEADSCALE_API_KEY"}},
             x \in {Unset, Blank, "former"}}
Pve == {[Base EXCEPT !.endpoints = e, !.pve[tfYaml] = s, !.tfFile = tfYaml,
                     !.shell[PveVar["endpoint"]] = x] :
          e \in SUBSET Clusters, s \in SUBSET ((Clusters \union {Flat}) \X PveFields),
          x \in {Unset, Blank, "main"}}
MCScenarios == S3 \union Pg \union Others \union Pve
============================================================================
