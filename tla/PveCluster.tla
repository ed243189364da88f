----------------------------- MODULE PveCluster -----------------------------
(***************************************************************************)
(* The formation of a Proxmox cluster: `fleet pve cluster converge`, the   *)
(* Ansible role that creates, joins and refreshes (cluster-join.yml) and   *)
(* the playbook that removes a node (uncluster-pve-node.yml), while nodes  *)
(* are switched off and on or reinstalled.                                 *)
(*                                                                         *)
(* pvecm and corosync are external.  A node has its own copy of the        *)
(* cluster's configuration; it runs corosync only while it is a member and *)
(* the copy is current.  `pvecm add` may fail silently, and `pvecm status` *)
(* of a node whose corosync does not run says nobody quite knows what.     *)
(***************************************************************************)
EXTENDS Naturals, Sequences, FiniteSets, SequencesExt

CONSTANTS Nodes, Founder,     \* hosts tagged pve-host, the one tagged founder
          Within,             \* pairs: the first's name occurs in the second's
          ClusterNames, Fleet,   \* names of clusters, the one converge wants
          MaxClusters, MaxEvents, MaxJobs,   \* bounds
          None

Joiners == Nodes \ {Founder}
Ids == 1 .. MaxClusters

ASSUME ClusterAssumption ==
    /\ Founder \in Nodes /\ Fleet \in ClusterNames
    /\ Within \subseteq Nodes \X Nodes /\ \A n \in Nodes : <<n, n>> \in Within
    /\ None \notin Nodes /\ IsFiniteSet(Nodes)
    /\ ClusterNames \intersect {"unprobed", "answers", "unreachable", "none"} = {}
    /\ MaxClusters \in Nat \ {0} /\ {MaxEvents, MaxJobs} \subseteq Nat

VARIABLES up,        \* hosts that answer ssh
          conf,      \* per host: /etc/corosync/corosync.conf, of a cluster and
                     \* a config_version
          cluster,   \* per cluster: its name, members, config_version and the
                     \* hosts with a directory in /etc/pve/nodes
          conv,      \* the converge command
          play,      \* the role, on one host; history: `was`, its copy before
          rem,       \* the removal playbook
          events, jobs

vars == <<up, conf, cluster, conv, play, rem, events, jobs>>
World == <<up, conf, cluster>>

Cluster == [name : ClusterNames, members : SUBSET Nodes, ver : Nat, dirs : SUBSET Nodes]
Conf == [id : Ids, ver : Nat]
ASSUME NoneAssumption == None \notin Cluster \union Conf
Seen == {"unprobed", "answers", "unreachable", "none"} \union ClusterNames

NoConv == [pc |-> "idle", seen |-> [n \in Nodes |-> "unprobed"], plan |-> <<>>, calm |-> FALSE]
NoPlay == [pc |-> "idle", node |-> None, clustered |-> FALSE, was |-> None, calm |-> FALSE]
NoRem  == [pc |-> "idle", node |-> None, host |-> None, listed |-> FALSE]

(* A plan creates first, and only on the founder. *)
TypeOK ==
    /\ up \subseteq Nodes /\ events \in Nat /\ jobs \in Nat
    /\ \A i \in Ids : cluster[i] = None \/ cluster[i] \in Cluster
    /\ \A n \in Nodes : conf[n] = None \/ /\ cluster[conf[n].id] # None
                                          /\ conf[n].ver \in 1 .. cluster[conf[n].id].ver
    /\ conv.pc \in {"idle", "probe", "confirm", "apply", "complete", "refused", "failed"}
    /\ conv.seen \in [Nodes -> Seen] /\ conv.plan \in Seq(Nodes \X {"create", "add"})
    /\ conv.pc \in {"confirm", "apply"} => conv.plan # <<>>
    /\ \A i \in DOMAIN conv.plan : conv.plan[i][2] = "create" <=> conv.plan[i][1] = Founder
    /\ \A i \in DOMAIN conv.plan : conv.plan[i][1] = Founder => i = 1
    /\ play.pc \in {"idle", "probe", "form", "version", "refresh", "verify", "ok", "failed"}
    /\ play.node \in Nodes \union {None}
    /\ rem.pc \in {"idle", "probe", "delnode", "clean", "removed", "failed"}
    /\ rem.node \in Joiners \union {None} /\ rem.node = rem.host => rem.node = None

-----------------------------------------------------------------------------
(* pvecm and corosync: external. *)

Id(n) == conf[n].id
Member(n, i) == conf[n] # None /\ Id(n) = i /\ n \in cluster[i].members
Alive(n) == /\ n \in up /\ conf[n] # None /\ n \in cluster[Id(n)].members
            /\ conf[n].ver = cluster[Id(n)].ver
AliveIn(i) == {n \in Nodes : Alive(n) /\ Id(n) = i}
Quorate(i) == 2 * Cardinality(AliveIn(i)) > Cardinality(cluster[i].members)
Works(n) == Alive(n) /\ Quorate(Id(n))

(* What pvecm status may answer: whether it succeeds, whether it describes a
   cluster. *)
Status(n) == IF conf[n] = None THEN {[rc0 |-> FALSE, info |-> FALSE]}
             ELSE IF Works(n) THEN {[rc0 |-> TRUE, info |-> TRUE]}
             ELSE [rc0 : BOOLEAN, info : BOOLEAN] \ {[rc0 |-> TRUE, info |-> FALSE]}

(* Membership changes; the members that run corosync take the new version. *)
Change(i, members, n) ==
    /\ cluster' = [cluster EXCEPT ![i].members = members, ![i].ver = @ + 1,
                                  ![i].dirs = @ \union members]
    /\ conf' = [m \in Nodes |-> IF m \in (AliveIn(i) \union {n}) \intersect members
                                THEN [id |-> i, ver |-> cluster[i].ver + 1] ELSE conf[m]]

Free == {i \in Ids : cluster[i] = None}
CanCreate(n) == n \in up /\ conf[n] = None /\ Free # {}
DoCreate(n) ==
    LET i == CHOOSE j \in Free : TRUE IN
    /\ cluster' = [cluster EXCEPT ![i] = [name |-> Fleet, members |-> {n}, ver |-> 1, dirs |-> {n}]]
    /\ conf' = [conf EXCEPT ![n] = [id |-> i, ver |-> 1]]

CanAdd(n) == /\ n \in up /\ conf[n] = None /\ Works(Founder)
             /\ n \notin cluster[Id(Founder)].members
DoAdd(n) == LET i == Id(Founder) IN Change(i, cluster[i].members \union {n}, n)

Nothing == UNCHANGED <<conf, cluster>>
(* How a pvecm command ends; "silent" is a failed add with exit code 0; an ssh
   that drops reports failure of what may have been done. *)
Pvecm(n, what, end) ==
    /\ UNCHANGED up
    /\ \/ end \in {"done", "error"}
          /\ IF what = "create" THEN CanCreate(n) /\ DoCreate(n) ELSE CanAdd(n) /\ DoAdd(n)
       \/ end = "error" /\ Nothing
       \/ end = "silent" /\ what = "add" /\ n \in up /\ Nothing

-----------------------------------------------------------------------------
(* What happens to the hosts. *)

OneFleet == \A n \in Nodes : conf[n] # None /\ cluster[Id(n)].name = Fleet =>
                conf[Founder] # None /\ Member(n, Id(Founder))
Excite == /\ conv' = [conv EXCEPT !.calm = FALSE]
          /\ play' = [play EXCEPT !.calm = FALSE]

Event ==
    /\ events < MaxEvents /\ events' = events + 1 /\ Excite
    /\ \E n \in Nodes :
        \/ up' = (IF n \in up THEN up \ {n} ELSE up \union {n}) /\ UNCHANGED conf
        \/ up' = up \union {n} /\ conf' = [conf EXCEPT ![n] = None]     \* reinstalled
    /\ UNCHANGED <<cluster, rem, jobs>>

-----------------------------------------------------------------------------
(* converge. *)

Started == jobs < MaxJobs /\ jobs' = jobs + 1
Ended(pc) == pc \in {"idle", "complete", "refused", "failed", "ok", "removed"}

BeginConverge == /\ Ended(conv.pc) /\ Started
                 /\ conv' = [NoConv EXCEPT !.pc = "probe", !.calm = OneFleet]
                 /\ UNCHANGED <<World, play, rem, events>>

Seeing(answer) == {n \in Nodes : conv.seen[n] = answer}
See(n, answer) == /\ conv' = [conv EXCEPT !.seen[n] = answer]
                  /\ UNCHANGED <<World, play, rem, events, jobs>>

(* One host after the other, with two connections each: does it answer? *)
Ping == /\ conv.pc = "probe" /\ Seeing("answers") = {}
        /\ \E n \in Seeing("unprobed") : See(n, IF n \in up THEN "answers" ELSE "unreachable")

(* What does pvecm status say?  In a cluster is what the text says, whatever
   the exit code, and no text at all is no cluster. *)
ClusterState(n) == IF n \notin up THEN {"none"}
                   ELSE {IF s.info THEN cluster[Id(n)].name ELSE "none" : s \in Status(n)}
Probe == /\ conv.pc = "probe"
         /\ \E n \in Seeing("answers") : \E s \in ClusterState(n) : See(n, s)

PlanAddsFirst(seen) ==                                                \* mutant
    LET adds == SetToSeq({n \in Joiners : seen[n] = "none"})
    IN  [i \in DOMAIN adds |-> <<adds[i], "add">>] \o
        (IF seen[Founder] = "none" THEN <<<<Founder, "create">>>> ELSE <<>>)
Plan(seen) ==
    LET adds == SetToSeq({n \in Joiners : seen[n] = "none"})
    IN  (IF seen[Founder] = "none" THEN <<<<Founder, "create">>>> ELSE <<>>) \o
        [i \in DOMAIN adds |-> <<adds[i], "add">>]

(* An unreachable joiner is skipped; a cluster of another name stops it. *)
ConvergeRefuses(seen) == \/ seen[Founder] = "unreachable"
                         \/ \E n \in Nodes : seen[n] \in ClusterNames \ {Fleet}
MakePlan == /\ conv.pc = "probe" /\ Seeing("unprobed") \union Seeing("answers") = {}
            /\ conv' = IF ConvergeRefuses(conv.seen) THEN [conv EXCEPT !.pc = "refused"]
                       ELSE IF Plan(conv.seen) = <<>> THEN [conv EXCEPT !.pc = "complete"]
                       ELSE [conv EXCEPT !.pc = "confirm", !.plan = Plan(conv.seen)]
            /\ UNCHANGED <<World, play, rem, events, jobs>>

Confirm == /\ conv.pc = "confirm"
           /\ \E pc \in {"apply", "refused"} : conv' = [conv EXCEPT !.pc = pc]
           /\ UNCHANGED <<World, play, rem, events, jobs>>

StepEndsGoesOn(rest, end) == IF rest = <<>> THEN "complete" ELSE "apply"  \* mutant
StepEnds(rest, end) ==
    IF end = "error" THEN "failed" ELSE IF rest = <<>> THEN "complete" ELSE "apply"
Apply == /\ conv.pc = "apply"
         /\ \E end \in {"done", "silent", "error"} :
              LET step == Head(conv.plan)
                  rest == Tail(conv.plan)
              IN  /\ Pvecm(step[1], step[2], end)
                  /\ conv' = [conv EXCEPT !.plan = rest, !.pc = StepEnds(rest, end),
                                          !.calm = @ /\ end # "silent"]
         /\ play' = [play EXCEPT !.calm = FALSE]
         /\ UNCHANGED <<rem, events, jobs>>

-----------------------------------------------------------------------------
(* The role, on one host. *)

BeginPlay == /\ Ended(play.pc) /\ Started
             /\ \E n \in up : play' = [NoPlay EXCEPT !.pc = "probe", !.node = n, !.was = conf[n],
                                              !.calm = OneFleet]
             /\ UNCHANGED <<World, conv, rem, events>>

Own == play.node
PlayOnly == UNCHANGED <<World, conv, rem, events, jobs>>
Unreachable == Own \notin up
PlayFails == play' = [play EXCEPT !.pc = "failed"]
PlayStep(pc) == play' = [play EXCEPT !.pc = IF Unreachable THEN "failed" ELSE pc]

PlayProbe == /\ play.pc = "probe" /\ PlayOnly
             /\ \E s \in Status(Own) :
                  play' = [play EXCEPT !.pc = IF Unreachable THEN "failed" ELSE "form",
                                       !.clustered = s.rc0 /\ s.info]

JoinFailedByCode(end) == end = "error"                                \* mutant
JoinFailed(end) == end # "done"
Form == /\ play.pc = "form" /\ UNCHANGED <<rem, events, jobs>>
        /\ IF play.clustered \/ Unreachable
           THEN PlayStep(IF Own = Founder THEN "ok" ELSE "version") /\ UNCHANGED <<World, conv>>
           ELSE \E end \in {"done", "silent", "error"} :
                /\ Pvecm(Own, IF Own = Founder THEN "create" ELSE "add", end)
                /\ play' = [play EXCEPT !.pc = IF JoinFailed(end) THEN "failed" ELSE "ok"]
                /\ conv' = [conv EXCEPT !.calm = FALSE]

(* The creator's version, read on the creator, which has to answer; versions of
   any two clusters compare. *)
Version == /\ play.pc = "version" /\ PlayOnly
           /\ LET stale == /\ conf[Founder] # None /\ conf[Own] # None
                           /\ conf[Founder].ver > conf[Own].ver
              IN  IF Founder \notin up THEN PlayFails
                  ELSE PlayStep(IF stale THEN "refresh" ELSE "ok")

(* The file is installed and corosync restarted. *)
Refresh == /\ play.pc = "refresh" /\ UNCHANGED <<up, cluster, rem, events, jobs>>
           /\ IF Unreachable \/ Founder \notin up \/ conf[Founder] = None
              THEN PlayFails /\ UNCHANGED <<conf, conv>>
              ELSE /\ conf' = [conf EXCEPT ![Own] = conf[Founder]]
                   /\ PlayStep("verify") /\ conv' = [conv EXCEPT !.calm = FALSE]
(* The text has the word "Quorate" whenever corosync runs: yes or no. *)
Verify == /\ play.pc = "verify" /\ PlayOnly
          /\ PlayStep(IF Alive(Own) THEN "ok" ELSE "failed")

-----------------------------------------------------------------------------
(* The removal playbook; it runs pvecm on one of the other hosts. *)

BeginRemove ==
    /\ Ended(rem.pc) /\ Started
    /\ \E n \in Joiners, h \in up :
         n # h /\ rem' = [NoRem EXCEPT !.pc = "probe", !.node = n, !.host = h]
    /\ UNCHANGED <<World, conv, play, events>>

RemStep(pc, listed) == rem' = [rem EXCEPT !.pc = pc, !.listed = listed]
Listed(n, i) == \E m \in cluster[i].members : <<n, m>> \in Within
RemProbe == /\ rem.pc = "probe" /\ UNCHANGED <<World, conv, play, events, jobs>>
            /\ IF Alive(rem.host) THEN RemStep("delnode", Listed(rem.node, Id(rem.host)))
               ELSE RemStep("failed", FALSE)

Delnode ==
    /\ rem.pc = "delnode" /\ UNCHANGED <<up, events, jobs>>
    /\ IF ~rem.listed THEN RemStep("clean", FALSE) /\ UNCHANGED <<conf, cluster, conv, play>>
       ELSE IF Works(rem.host) /\ rem.node \in cluster[Id(rem.host)].members
       THEN /\ Change(Id(rem.host), cluster[Id(rem.host)].members \ {rem.node}, rem.host)
            /\ RemStep("clean", FALSE) /\ Excite
       ELSE RemStep("failed", FALSE) /\ UNCHANGED <<conf, cluster, conv, play>>

Clean == /\ rem.pc = "clean" /\ UNCHANGED <<up, conf, conv, play, events, jobs>>
         /\ LET dirs == cluster[Id(rem.host)].dirs
                gone == Alive(rem.host) /\ (rem.node \in dirs => Works(rem.host))
            IN  IF gone
                THEN /\ cluster' = [cluster EXCEPT ![Id(rem.host)].dirs = @ \ {rem.node}]
                     /\ RemStep("removed", FALSE)
                ELSE RemStep("failed", FALSE) /\ UNCHANGED cluster

-----------------------------------------------------------------------------
(* No cluster, or one, of some of the hosts. *)
Init ==
    /\ up = Nodes /\ conv = NoConv /\ play = NoPlay /\ rem = NoRem /\ events = 0 /\ jobs = 0
    /\ \E M \in SUBSET Nodes, name \in ClusterNames :
        /\ cluster = [i \in Ids |-> IF i = 1 /\ M # {}
                                    THEN [name |-> name, members |-> M, ver |-> 1, dirs |-> M] ELSE None]
        /\ conf = [n \in Nodes |-> IF n \in M THEN [id |-> 1, ver |-> 1] ELSE None]

Converge == BeginConverge \/ Ping \/ Probe \/ MakePlan \/ Confirm \/ Apply
Role == BeginPlay \/ PlayProbe \/ Form \/ Version \/ Refresh \/ Verify
Removal == BeginRemove \/ RemProbe \/ Delnode \/ Clean
Next == Event \/ Converge \/ Role \/ Removal
Spec == Init /\ [][Next]_vars

-----------------------------------------------------------------------------
(* A converge that completes has every host it reached in the founder's
   cluster, when at its start no host was in another cluster of that name,
   nothing else changed the hosts meanwhile and no add failed silently. *)
ConvergeTrue ==
    conv.pc = "complete" /\ conv.calm =>
        \A n \in Nodes : conv.seen[n] # "unreachable" => conf[Founder] # None /\ Member(n, Id(Founder))

(* The role that ends well has the host in the creator's cluster, silent
   failures included, or leaves it as it was in a cluster of another name: "already in any
   cluster -> skip" (cluster-join.yml:3), under the same conditions. *)
PlayTrue ==
    play.pc = "ok" /\ play.calm =>
        /\ conf[Own] # None
        /\ \/ conf[Founder] # None /\ Member(Own, Id(Founder))
           \/ conf[Own] = play.was /\ cluster[Id(Own)].name # Fleet

(* converge reports a join only if there was one (it cannot tell: it goes by
   the exit code, which cluster-join.yml:105 says is 0 in silent failures). *)
ConvergeReports == [][\A n \in Joiners : /\ conv.pc = "apply" /\ Head(conv.plan) = <<n, "add">>
                                         /\ conv'.plan # conv.plan /\ conv'.pc # "failed"
                                         => conf'[n] # None]_vars

(* The removal of a node that is gone succeeds (it does not when its name
   occurs in a member's name). *)
RemovalIdempotent == rem.pc = "delnode" /\ rem.listed => rem.node \in UNION {cluster[i].members : i \in Ids \ Free}

(* A refresh never moves a host to another cluster (it does after the creator
   was reinstalled: versions of two clusters are compared). *)
NoTakeover == [][\A n \in Nodes : conf[n] # None /\ conf'[n] # None => conf'[n].id = conf[n].id]_vars

(* A host whose refresh was verified is in a quorate cluster (it need not be:
   the check looks for a word that "Quorate: No" has, too). *)
RefreshVerified == [][play.pc = "verify" /\ play'.pc = "ok" => Works(Own)]_vars
============================================================================
