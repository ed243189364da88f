---------------------------- MODULE NixosDeploy ----------------------------
(***************************************************************************)
(* `fleet deploy nixos apply ...` and `fleet devtools reset-connection`:   *)
(* several terminals that share hosts.json and the process table.          *)
(*                                                                         *)
(* A deploy refreshes hosts.json, looks in a process snapshot for copies   *)
(* that are already under way, may write another address into hosts.json,  *)
(* and starts colmena.  Colmena takes the addresses from the flake         *)
(* (flake.nix:148-163, fleetEval.hostsJson), not from hosts.json.  Reset   *)
(* kills the processes that a snapshot shows for the addresses hosts.json  *)
(* lists.  A terminal runs one command, so a process never comes back.     *)
(***************************************************************************)
EXTENDS Naturals, Sequences, FiniteSets

CONSTANTS Clis, Hosts, Addrs,
          NoAddr,        \* an empty address
          Absent,        \* no entry for a host
          Torn,          \* hosts.json between truncation and write
          Manifests,     \* declarations the flake may hold
          DeployIps,     \* per host: its declared fallback addresses, in order
          Live,          \* per host: the address Xen Orchestra reports
          Overrides,     \* addresses given with --ip
          Occurs         \* <<a, b>>: the pattern of a matches a command for b

Address == Addrs \union {NoAddr}
Entry   == [ip : Address, internal : Address] \union {Absent}
Table   == [Hosts -> Entry]

ASSUME ManifestAssumption ==
    /\ Manifests \subseteq Table
    /\ DeployIps \in [Hosts -> Seq(Addrs)]
    /\ Live \in [Hosts -> Address]
    /\ Overrides \subseteq Addrs
    /\ Occurs \subseteq Addrs \X Addrs
    /\ \A a \in Addrs : <<a, a>> \in Occurs
    /\ NoAddr \notin Addrs
ASSUME HostsAssumption == IsFiniteSet(Hosts)

VARIABLES src,      \* the declarations in the flake
          inv,      \* .cache/fleet/hosts.json
          procs,    \* colmena and nix-copy processes on the workstation
          cli,      \* per terminal: the command and where it is
          honest,   \* history: hosts whose declared address hosts.json always listed
          killed    \* history: <<targets of a reset, host whose copy it killed>>

vars == <<src, inv, procs, cli, honest, killed>>

Colmena(c)    == [kind |-> "colmena", owner |-> c, host |-> Absent, addr |-> NoAddr]
Copy(c, h, a) == [kind |-> "copy", owner |-> c, host |-> h, addr |-> a]
Procs == {Colmena(c) : c \in Clis}
             \union {Copy(c, h, a) : c \in Clis, h \in Hosts, a \in Addrs}

Pcs == {"idle", "refresh", "truncate", "put", "snap", "check", "read", "patchTruncate",
        "patchPut", "launch", "eval", "copy", "resetRead", "resetSnap", "resetKill",
        "resetRemote", "conflict", "crash", "done"}
Cli == [pc : Pcs, op : {"none", "host", "remote", "tag", "reset"}, names : SUBSET Hosts,
        ip : Address, flag : BOOLEAN, view : Table \union {Torn}, snap : SUBSET Procs,
        goal : SUBSET (Hosts \X Addrs)]

(* Every field has its type; in particular no command writes a torn or
   half-read inventory back. *)
TypeOK ==
    /\ src \in Manifests
    /\ inv \in Table \union {Torn}
    /\ procs \subseteq Procs
    /\ cli \in [Clis -> Cli]
    /\ honest \subseteq Hosts
    /\ killed \subseteq (SUBSET Hosts) \X Hosts
-----------------------------------------------------------------------------
(* colmena's target: the primary address, or the internal one (mkHosts). *)
Target(e) == IF e = Absent THEN NoAddr ELSE IF e.ip # NoAddr THEN e.ip ELSE e.internal

(* discover_xo_ips fills an empty primary address from the live VM and never
   overwrites a declared one. *)
Discovered(t) ==
    [h \in Hosts |-> IF t[h] # Absent /\ t[h].ip = NoAddr
                     THEN [t[h] EXCEPT !.ip = Live[h]] ELSE t[h]]

IpsFor(e) == IF e = Absent THEN {} ELSE {e.ip, e.internal} \ {NoAddr}

(* _find_processes_for_ip: unanchored patterns, so 192.0.2.10 also matches a
   copy to 192.0.2.104. *)
ProcessesFor(as, snap) ==
    {p \in snap : p.kind = "copy" /\ \E a \in as : <<a, p.addr>> \in Occurs}

FirstReachable(seq, reach) ==
    LET hits == {i \in DOMAIN seq : seq[i] \in reach}
    IN  IF hits = {} THEN NoAddr ELSE seq[CHOOSE i \in hits : \A j \in hits : i <= j]

Candidates(h, e) == <<e.ip>> \o DeployIps[h] \o <<e.internal>>

(* A view is forgotten once it is written or given up. *)
Goto(c, pc) ==
    cli' = [cli EXCEPT ![c].pc = pc,
                       ![c].view = IF pc \in {"put", "patchPut"} THEN @ ELSE Torn,
                       ![c].goal = IF pc = "copy" THEN @ ELSE {}]

(* hosts.json still lists the address colmena uses for h. *)
Listed(h) == inv = Torn \/ Target(src[h]) \in IpsFor(inv[h])
-----------------------------------------------------------------------------
(* `apply host`, `apply remote`, `apply tag|stack|all`.  The flag says that
   --no-refresh was given, which `apply host` and `apply all` know. *)
Start(c, op, names, ip, flag) ==
    /\ cli[c].pc = "idle"
    /\ op # "host" => ip = NoAddr
    /\ flag => op = "host" \/ (op = "tag" /\ names = Hosts)
    /\ cli' = [cli EXCEPT ![c].pc = IF flag THEN "snap" ELSE "refresh", ![c].op = op,
                          ![c].names = names, ![c].ip = ip, ![c].flag = flag]
    /\ UNCHANGED <<src, inv, procs, killed>>

(* generate_hosts_json: build and patch live addresses in; a failure leaves
   the existing file and the deploy goes on. *)
Refresh(c) ==
    /\ cli[c].pc = "refresh"
    /\ \/ cli' = [cli EXCEPT ![c].view = Discovered(src), ![c].pc = "truncate"]
       \/ cli' = [cli EXCEPT ![c].view = src, ![c].pc = "truncate"]
       \/ Goto(c, "snap")
    /\ UNCHANGED <<src, inv, procs, killed>>

(* write_text and open(..., "w") empty the file before they fill it. *)
Truncate(c) ==
    /\ \/ cli[c].pc = "truncate" /\ Goto(c, "put")
       \/ cli[c].pc = "patchTruncate" /\ Goto(c, "patchPut")
    /\ inv' = Torn
    /\ UNCHANGED <<src, procs, killed>>

Put(c) ==
    /\ \/ cli[c].pc = "put" /\ Goto(c, "snap")
       \/ cli[c].pc = "patchPut" /\ Goto(c, "launch")
    /\ inv' = cli[c].view
    /\ UNCHANGED <<src, procs, killed>>

(* _check_no_concurrent_deploy takes the snapshot, then reads hosts.json. *)
CheckSnap(c) ==
    /\ cli[c].pc = "snap"
    /\ cli' = [cli EXCEPT ![c].snap = procs, ![c].pc = "check"]
    /\ UNCHANGED <<src, inv, procs, killed>>

(* Mutant: only the primary address is looked for. *)
ConflictPrimary(c) ==
    IF cli[c].op = "tag" THEN cli[c].snap # {}
    ELSE \E h \in cli[c].names : /\ inv[h] # Absent /\ inv[h].ip # NoAddr
                                 /\ ProcessesFor({inv[h].ip}, cli[c].snap) # {}

Conflict(c) ==
    IF cli[c].op = "tag" THEN cli[c].snap # {}
    ELSE \E h \in cli[c].names : ProcessesFor(IpsFor(inv[h]), cli[c].snap) # {}

Check(c) ==
    /\ cli[c].pc = "check"
    /\ Goto(c, IF cli[c].op # "tag" /\ inv = Torn THEN "crash"
               ELSE IF Conflict(c) THEN "conflict"
               ELSE IF cli[c].op = "host" THEN "read" ELSE "launch")
    /\ UNCHANGED <<src, inv, procs, killed>>

(* Mutant: an unreadable hosts.json is taken for an empty one and patched. *)
OverrideFromEmpty(c) ==
    /\ cli[c].pc = "read" /\ cli[c].ip # NoAddr
    /\ IF Cardinality(cli[c].names) > 1 THEN Goto(c, "launch")
       ELSE LET h == CHOOSE n \in cli[c].names : TRUE
                t == IF inv = Torn
                     THEN [n \in {h} |-> [ip |-> cli[c].ip, internal |-> NoAddr]]
                     ELSE [inv EXCEPT ![h] = [ip |-> cli[c].ip, internal |-> NoAddr]]
            IN  cli' = [cli EXCEPT ![c].view = t, ![c].pc = "patchTruncate"]
    /\ UNCHANGED <<src, inv, procs, killed>>

(* The --ip override, for one name; an unreadable file is not caught. *)
Override(c) ==
    /\ cli[c].pc = "read" /\ cli[c].ip # NoAddr
    /\ IF Cardinality(cli[c].names) > 1 THEN Goto(c, "launch")
       ELSE IF inv = Torn THEN Goto(c, "crash")
       ELSE LET h == CHOOSE n \in cli[c].names : TRUE
            IN  IF inv[h] = Absent THEN Goto(c, "launch")
                ELSE cli' = [cli EXCEPT ![c].view = [inv EXCEPT ![h].ip = cli[c].ip],
                                        ![c].pc = "patchTruncate"]
    /\ UNCHANGED <<src, inv, procs, killed>>

(* Mutant: one probe serves all the names of the command. *)
ProbeShared(c) ==
    /\ cli[c].pc = "read" /\ cli[c].ip = NoAddr
    /\ IF inv = Torn THEN Goto(c, "launch")
       ELSE \E h \in cli[c].names, a \in Addrs :
              /\ \E i \in DOMAIN DeployIps[h] : DeployIps[h][i] = a
              /\ cli' = [cli EXCEPT ![c].pc = "patchTruncate",
                   ![c].view = [n \in Hosts |-> IF n \in cli[c].names /\ inv[n] # Absent
                                                THEN [inv[n] EXCEPT !.ip = a] ELSE inv[n]]]
    /\ UNCHANGED <<src, inv, procs, killed>>

(* deploy_ips: every candidate is probed and the first one that answers is
   written in its place. *)
Probe(c) ==
    /\ cli[c].pc = "read" /\ cli[c].ip = NoAddr
    /\ \E reach \in SUBSET Addrs :
          LET pick(h) == FirstReachable(Candidates(h, inv[h]), reach)
              moved == IF inv = Torn THEN {}
                       ELSE {h \in cli[c].names : /\ inv[h] # Absent /\ DeployIps[h] # <<>>
                                                  /\ pick(h) \notin {NoAddr, inv[h].ip}}
          IN  IF moved = {} THEN Goto(c, "launch")
              ELSE cli' = [cli EXCEPT
                     ![c].view = [h \in Hosts |-> IF h \in moved
                                                  THEN [inv[h] EXCEPT !.ip = pick(h)]
                                                  ELSE inv[h]],
                     ![c].pc = "patchTruncate"]
    /\ UNCHANGED <<src, inv, procs, killed>>

(* --dry-activate with --reboot is refused here, after hosts.json was written. *)
Launch(c) ==
    /\ cli[c].pc = "launch"
    /\ \/ Goto(c, "eval") /\ procs' = procs \union {Colmena(c)}
       \/ cli[c].op = "host" /\ Goto(c, "done") /\ UNCHANGED procs
    /\ UNCHANGED <<src, inv, killed>>

(* Mutant: colmena takes its targets from hosts.json. *)
EvaluateFromCache(c) ==
    /\ cli[c].pc = "eval" /\ Colmena(c) \in procs /\ inv # Torn
    /\ cli' = [cli EXCEPT ![c].pc = "copy",
                 ![c].goal = {<<h, Target(inv[h])>> : h \in {n \in cli[c].names :
                                                            Target(inv[n]) # NoAddr}}]
    /\ UNCHANGED <<src, inv, procs, killed>>

(* Colmena evaluates the hive; hosts without an address are not in it. *)
Evaluate(c) ==
    /\ cli[c].pc = "eval" /\ Colmena(c) \in procs
    /\ cli' = [cli EXCEPT ![c].pc = "copy",
                 ![c].goal = {<<h, Target(src[h])>> : h \in {n \in cli[c].names :
                                                            Target(src[n]) # NoAddr}}]
    /\ UNCHANGED <<src, inv, procs, killed>>

CopyStart(c) ==
    /\ cli[c].pc = "copy" /\ Colmena(c) \in procs
    /\ \E g \in cli[c].goal :
          /\ procs' = procs \union {Copy(c, g[1], g[2])}
          /\ cli' = [cli EXCEPT ![c].goal = @ \ {g}]
    /\ UNCHANGED <<src, inv, killed>>

(* A copy ends, also one whose deploy was killed. *)
CopyEnd ==
    /\ \E p \in procs : p.kind = "copy" /\ procs' = procs \ {p}
    /\ UNCHANGED <<src, inv, cli, killed>>

(* colmena is through, or was killed: run_shell returns. *)
Finish(c) ==
    /\ cli[c].pc \in {"eval", "copy"}
    /\ \/ Colmena(c) \notin procs
       \/ /\ cli[c].pc = "copy" /\ cli[c].goal = {}
          /\ ~\E p \in procs : p.kind = "copy" /\ p.owner = c
    /\ procs' = procs \ {Colmena(c)}
    /\ Goto(c, "done")
    /\ UNCHANGED <<src, inv, killed>>

(* A lost terminal or SIGKILL: the copies survive. *)
Kill(c) ==
    /\ cli[c].pc \notin {"idle", "conflict", "crash", "done"}
    /\ Goto(c, "done")
    /\ procs' = procs \ {Colmena(c)}
    /\ UNCHANGED <<src, inv, killed>>

Redeclare ==
    /\ src' \in Manifests \ {src}
    /\ UNCHANGED <<inv, procs, cli, killed>>
-----------------------------------------------------------------------------
(* reset-connection: of one host, or of all; the flag stands for --broad and
   --restart-daemon together. *)
ResetStart(c, names, flag) ==
    /\ cli[c].pc = "idle"
    /\ cli' = [cli EXCEPT ![c].pc = "resetRead", ![c].op = "reset",
                          ![c].names = names, ![c].flag = flag]
    /\ UNCHANGED <<src, inv, procs, killed>>

ResetRead(c) ==
    /\ cli[c].pc = "resetRead"
    /\ IF inv = Torn THEN Goto(c, "crash")
       ELSE cli' = [cli EXCEPT ![c].view = inv, ![c].pc = "resetSnap"]
    /\ UNCHANGED <<src, inv, procs, killed>>

ResetSnap(c) ==
    /\ cli[c].pc = "resetSnap"
    /\ cli' = [cli EXCEPT ![c].snap = procs, ![c].pc = "resetKill"]
    /\ UNCHANGED <<src, inv, procs, killed>>

ResetKill(c) ==
    /\ cli[c].pc = "resetKill"
    /\ LET named == ProcessesFor(UNION {IpsFor(cli[c].view[h]) : h \in cli[c].names},
                                 cli[c].snap) \intersect procs
       IN  /\ procs' = procs \ (named \union IF cli[c].flag THEN cli[c].snap ELSE {})
           /\ killed' = killed \union {<<cli[c].names, p.host>> : p \in named}
    /\ Goto(c, IF cli[c].flag THEN "resetRemote" ELSE "done")
    /\ UNCHANGED <<src, inv>>

(* Over ssh, at the internal address if there is one: every copy that ends on
   that machine loses its nix-daemon.  Or the machine does not answer. *)
ResetRemote(c) ==
    /\ cli[c].pc = "resetRemote"
    /\ \/ UNCHANGED procs
       \/ procs' = {p \in procs : p.kind = "copy" => p.host \notin cli[c].names}
    /\ Goto(c, "done")
    /\ UNCHANGED <<src, inv, killed>>
-----------------------------------------------------------------------------
Init ==
    /\ src \in Manifests
    /\ inv \in Manifests
    /\ procs = {} /\ killed = {}
    /\ cli = [c \in Clis |-> [pc |-> "idle", op |-> "none", names |-> {}, ip |-> NoAddr,
                              flag |-> FALSE, view |-> Torn, snap |-> {}, goal |-> {}]]
    /\ honest = {h \in Hosts : Listed(h)}

Names == (SUBSET Hosts) \ {{}}

Deploy(c) ==
    \/ \E op \in {"host", "remote", "tag"}, n \in Names, ip \in Overrides \union {NoAddr},
          f \in BOOLEAN : Start(c, op, n, ip, f)
    \/ Refresh(c) \/ Truncate(c) \/ Put(c) \/ CheckSnap(c) \/ Check(c)
    \/ Override(c) \/ Probe(c) \/ Launch(c) \/ Evaluate(c) \/ CopyStart(c) \/ Finish(c)

Reset(c) ==
    \/ \E n \in Names, f \in BOOLEAN : ResetStart(c, n, f)
    \/ ResetRead(c) \/ ResetSnap(c) \/ ResetKill(c) \/ ResetRemote(c)

Next ==
    /\ \/ \E c \in Clis : Deploy(c) \/ Reset(c) \/ Kill(c)
       \/ CopyEnd
       \/ Redeclare
    /\ honest' = {h \in honest : src'[h] = src[h] /\ Listed(h)'}

Spec == Init /\ [][Next]_vars
-----------------------------------------------------------------------------
(* Where hosts.json has listed a host's address all along, two deploys copy to
   the host at once only if neither could have seen the other: each took its
   snapshot before the other's copy began.  This is what the check gives; a
   mistake in reading the inventory, or a copy that outlives its deploy, would
   show here. *)
OverlapIsARace ==
    \A p, q \in procs :
       (/\ p.kind = "copy" /\ q.kind = "copy" /\ p.owner # q.owner
        /\ p.host = q.host /\ p.host \in honest)
       => q \notin cli[p.owner].snap

(* A copy, also an orphaned one, goes to an address the flake declared for the
   host it is meant for: no patch of the shared inventory by any command, for
   any host, reaches colmena. *)
Declared(h) == {Target(m[h]) : m \in Manifests}
CopiesWhereDeclared == \A p \in procs : p.kind = "copy" => p.addr \in Declared(p.host)

(* Whoever wrote hosts.json last, a host's address in it is one that was
   declared, discovered or given for that host. *)
Known(h) ==
    {m[h].ip : m \in {n \in Manifests : n[h] # Absent}} \union {Live[h], NoAddr}
      \union {DeployIps[h][i] : i \in DOMAIN DeployIps[h]}
      \union {m[h].internal : m \in {n \in Manifests : n[h] # Absent}}
      \union {cli[c].ip : c \in {d \in Clis : cli[d].names = {h}}}
AddressesOwned == inv # Torn => \A h \in Hosts : inv[h] # Absent => inv[h].ip \in Known(h)

(* nixos.py:58-59: "Different hosts running simultaneously is fine - this only
   blocks when the same IP is already being copied to."  A deploy that gave up
   saw a copy to one of its own hosts. *)
BlocksSameHostOnly ==
    \A c \in Clis : cli[c].pc = "conflict" /\ cli[c].op # "tag" =>
       \E p \in cli[c].snap : p.kind = "copy" /\ p.host \in cli[c].names

(* reset-connection's "Reset one host by name": it kills no copy to another. *)
ResetScoped == \A k \in killed : k[2] \in k[1]

(* nixos.py:226: "Override target IP for deployment": what a deploy was given
   with --ip is where it copies to. *)
OverrideHonoured ==
    \A p \in procs : p.kind = "copy" /\ cli[p.owner].ip # NoAddr => p.addr = cli[p.owner].ip

(* nixos.py:49: "Abort if a deploy is already in flight targeting any of the
   given hosts." *)
OneDeployPerHost ==
    \A p, q \in procs : p.kind = "copy" /\ q.kind = "copy" /\ p.host = q.host => p = q
=============================================================================
