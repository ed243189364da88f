---------------------------- MODULE ProxmoxProofs ----------------------------
(***************************************************************************)
(* The two programs of a Proxmox host, which share no state.  Of           *)
(* PveCluster: what a converge and a role that end well promise of the     *)
(* hosts, for any number of hosts, clusters, commands and events.  Of      *)
(* CtWatchdog: the rate limit and the FAILS_REQUIRED rule, for any set of  *)
(* containers and any tunables.                                            *)
(***************************************************************************)
EXTENDS PveCluster, CtWatchdog, FiniteSetTheorems, TLAPS

-----------------------------------------------------------------------------
(* PveCluster: the inductive invariant *)

Steps == Nodes \X {"create", "add"}
Converging == [pc : {"idle", "probe", "confirm", "apply", "complete", "refused", "failed"},
               seen : [Nodes -> Seen], plan : Seq(Steps), calm : BOOLEAN]
Playing == [pc : {"idle", "probe", "form", "version", "refresh", "verify", "ok", "failed"},
            node : Nodes \union {None}, clustered : BOOLEAN, was : Conf \union {None}, calm : BOOLEAN]
Removing == [pc : {"idle", "probe", "delnode", "clean", "removed", "failed"},
             node : Joiners \union {None}, host : Nodes \union {None}, listed : BOOLEAN]

Types ==
    /\ up \subseteq Nodes /\ events \in Nat /\ jobs \in Nat
    /\ cluster \in [Ids -> Cluster \union {None}] /\ conf \in [Nodes -> Conf \union {None}]
    /\ conv \in Converging /\ play \in Playing /\ rem \in Removing

(* A host's copy of the configuration is of a cluster there is, and no newer. *)
Configured ==
    \A n \in Nodes : conf[n] # None =>
        cluster[Id(n)] # None /\ conf[n].ver \in 1 .. cluster[Id(n)].ver

(* What is left of a plan: the founder is first, and is the one to create. *)
Ordered ==
    /\ conv.pc \in {"confirm", "apply"} => conv.plan # <<>>
    /\ \A i \in DOMAIN conv.plan : /\ conv.plan[i][2] = "create" <=> conv.plan[i][1] = Founder
                                   /\ conv.plan[i][1] = Founder => i = 1

(* A command that works on a host has it. *)
Named ==
    /\ play.pc # "idle" => play.node \in Nodes
    /\ rem.node = rem.host => rem.node = None

InFleet(n) == conf[Founder] # None /\ Member(n, Id(Founder))

(* What a converge nobody disturbs has seen is so, and what it has not reached
   is in its plan. *)
Converges ==
    conv.calm =>
        /\ conv.pc = "probe" => OneFleet
        /\ conv.pc \in {"probe", "confirm", "apply"} =>
              \A n \in Nodes : conv.seen[n] = Fleet => InFleet(n)
        /\ conv.pc \in {"confirm", "apply"} =>
              \A n \in Nodes : conv.seen[n] # "unreachable" =>
                  InFleet(n) \/ \E i \in DOMAIN conv.plan : conv.plan[i][1] = n

(* The world of a role that nobody disturbs is the one it began in, until it
   forms or joins, or copies the founder's configuration. *)
Plays ==
    play.calm =>
        /\ play.pc \in {"probe", "form", "version", "refresh"} => OneFleet /\ conf[Own] = play.was
        /\ play.pc = "form" /\ play.clustered => conf[Own] # None
        /\ play.pc \in {"version", "refresh"} => conf[Own] # None
        /\ play.pc = "verify" => conf[Founder] # None /\ conf[Own] = conf[Founder]

IInv == /\ Types /\ Configured /\ Ordered /\ Named
        /\ Converges /\ ConvergeTrue /\ Plays /\ PlayTrue

-----------------------------------------------------------------------------
(* The world *)

WorldOK == /\ up \subseteq Nodes
           /\ cluster \in [Ids -> Cluster \union {None}] /\ conf \in [Nodes -> Conf \union {None}]
           /\ Configured

LEMMA Marks == /\ None \notin Cluster /\ None \notin Conf /\ None \notin Nodes
               /\ Founder \in Nodes /\ IsFiniteSet(Nodes) /\ 1 \in Ids
BY ClusterAssumption, NoneAssumption DEF Ids

(* A host with a configuration has one of a cluster there is. *)
LEMMA Configuration ==
    ASSUME WorldOK, NEW n \in Nodes, conf[n] # None
    PROVE  /\ conf[n] \in Conf /\ Id(n) \in Ids /\ cluster[Id(n)] \in Cluster
           /\ cluster[Id(n)].members \subseteq Nodes /\ cluster[Id(n)].ver \in Nat
           /\ conf[n].ver \in 1 .. cluster[Id(n)].ver
<1>1. conf[n] \in Conf
  BY DEF WorldOK
<1>2. Id(n) \in Ids
  BY <1>1 DEF Conf, Id
<1>3. cluster[Id(n)] \in Cluster /\ conf[n].ver \in 1 .. cluster[Id(n)].ver
  BY <1>2 DEF WorldOK, Configured
<1>4. QED
  BY <1>1, <1>2, <1>3 DEF Cluster

(* A change of membership: what it makes of one cluster and of the hosts. *)
LEMMA Changed ==
    ASSUME WorldOK, up' = up, NEW i \in Ids, cluster[i] # None,
           NEW members \in SUBSET Nodes, NEW n \in Nodes, Change(i, members, n)
    PROVE  /\ WorldOK'
           /\ cluster'[i].name = cluster[i].name /\ cluster'[i].members = members
           /\ \A j \in Ids \ {i} : cluster'[j] = cluster[j]
           /\ \A m \in Nodes : conf'[m] = conf[m] \/ (conf'[m] # None /\ Id(m)' = i)
           /\ n \in members => conf'[n] # None /\ Id(n)' = i
<1> DEFINE c == cluster[i]
           v == c.ver + 1
           dirs == c.dirs \union members
           d == [c EXCEPT !.members = members, !.ver = v, !.dirs = dirs]
           new == [id |-> i, ver |-> c.ver + 1]
<1>1. c \in Cluster
  BY DEF WorldOK
<1>2. c.ver \in Nat /\ c.dirs \subseteq Nodes
  BY <1>1 DEF Cluster
<1>3. d \in Cluster /\ d.name = c.name /\ d.members = members /\ d.ver = c.ver + 1
  <2>1. v \in Nat /\ dirs \in SUBSET Nodes
    BY <1>2
  <2> HIDE DEF c, v, dirs
  <2>2. d \in Cluster /\ d.name = c.name /\ d.members = members /\ d.ver = v
    BY <1>1, <2>1 DEF Cluster
  <2>3. QED
    BY <2>2 DEF v
<1>4. cluster' = [cluster EXCEPT ![i] = d]
  BY DEF Change
<1>5. cluster'[i] = d /\ \A j \in Ids \ {i} : cluster'[j] = cluster[j]
  BY <1>4 DEF WorldOK
<1>6. new \in Conf /\ new.id = i /\ new.ver = c.ver + 1 /\ new # None
  BY <1>2, Marks DEF Conf
<1>7. conf' = [m \in Nodes |-> IF m \in (AliveIn(i) \union {n}) \intersect members
                               THEN new ELSE conf[m]]
  BY DEF Change
<1> HIDE DEF c, d, new
<1>8. \A m \in Nodes : conf'[m] = conf[m] \/ conf'[m] = new
  BY <1>7
<1>9. n \in members => conf'[n] = new
  BY <1>7
<1>10. cluster' \in [Ids -> Cluster \union {None}]
  BY <1>3, <1>4 DEF WorldOK
<1>11. conf' \in [Nodes -> Conf \union {None}]
  BY <1>6, <1>7 DEF WorldOK
<1>12. ASSUME NEW m \in Nodes, conf'[m] # None
       PROVE  cluster'[Id(m)'] # None /\ conf'[m].ver \in 1 .. cluster'[Id(m)'].ver
  <2>1. CASE conf'[m] = new
    <3>1. Id(m)' = i /\ conf'[m].ver = c.ver + 1
      BY <1>6, <2>1 DEF Id
    <3>2. cluster'[i] # None /\ cluster'[i].ver = c.ver + 1
      BY <1>3, <1>5, Marks
    <3>3. QED
      BY <1>2, <3>1, <3>2
  <2>2. CASE conf'[m] = conf[m]
    <3>1. Id(m)' = Id(m) /\ conf[m] # None
      BY <1>12, <2>2 DEF Id
    <3>2. Id(m) \in Ids /\ conf[m].ver \in 1 .. cluster[Id(m)].ver /\ cluster[Id(m)] # None
      BY <3>1, Configuration, Marks
    <3>3. CASE Id(m) = i
      <4>1. conf[m].ver \in 1 .. c.ver
        BY <3>2, <3>3 DEF c
      <4>2. cluster'[i] # None /\ cluster'[i].ver = c.ver + 1
        BY <1>3, <1>5, Marks
      <4>3. QED
        BY <1>2, <2>2, <3>1, <3>3, <4>1, <4>2
    <3>4. CASE Id(m) # i
      BY <1>5, <2>2, <3>1, <3>2, <3>4
    <3>5. QED
      BY <3>3, <3>4
  <2>3. QED
    BY <1>8, <2>1, <2>2
<1>13. WorldOK'
  BY <1>10, <1>11, <1>12 DEF WorldOK, Configured
<1>14. \A m \in Nodes : conf'[m] = conf[m] \/ (conf'[m] # None /\ Id(m)' = i)
  BY <1>6, <1>8 DEF Id
<1>15. n \in members => conf'[n] # None /\ Id(n)' = i
  BY <1>6, <1>9 DEF Id
<1>16. QED
  BY <1>3, <1>5, <1>13, <1>14, <1>15 DEF c

(* A new cluster, of one host. *)
LEMMA Created ==
    ASSUME WorldOK, up' = up, NEW n \in Nodes, CanCreate(n), DoCreate(n)
    PROVE  /\ WorldOK'
           /\ conf'[n] # None /\ n \in cluster'[Id(n)'].members
<1> DEFINE i == CHOOSE j \in Free : TRUE
           new == [id |-> i, ver |-> 1]
           c == [name |-> Fleet, members |-> {n}, ver |-> 1, dirs |-> {n}]
<1>1. i \in Ids /\ cluster[i] = None
  BY DEF CanCreate, Free
<1>2. cluster' = [cluster EXCEPT ![i] = c] /\ conf' = [conf EXCEPT ![n] = new]
  BY DEF DoCreate
<1> HIDE DEF i
<1>3. c \in Cluster /\ c.members = {n} /\ c.ver = 1 /\ c # None
  BY ClusterAssumption, Marks DEF Cluster
<1>4. new \in Conf /\ new.id = i /\ new.ver = 1 /\ new # None
  BY <1>1, Marks DEF Conf
<1> HIDE DEF c, new
<1>5. /\ cluster' \in [Ids -> Cluster \union {None}] /\ conf' \in [Nodes -> Conf \union {None}]
      /\ cluster'[i] = c /\ conf'[n] = new
      /\ \A j \in Ids \ {i} : cluster'[j] = cluster[j]
      /\ \A m \in Nodes \ {n} : conf'[m] = conf[m]
  BY <1>1, <1>2, <1>3, <1>4 DEF WorldOK
<1>6. Id(n)' = i
  BY <1>4, <1>5 DEF Id
<1>7. ASSUME NEW m \in Nodes, conf'[m] # None
      PROVE  cluster'[Id(m)'] # None /\ conf'[m].ver \in 1 .. cluster'[Id(m)'].ver
  <2>1. CASE m = n
    BY <1>3, <1>4, <1>5, <1>6, <2>1
  <2>2. CASE m # n
    <3>1. conf'[m] = conf[m] /\ Id(m)' = Id(m) /\ conf[m] # None
      BY <1>5, <1>7, <2>2 DEF Id
    <3>2. Id(m) \in Ids /\ cluster[Id(m)] # None /\ conf[m].ver \in 1 .. cluster[Id(m)].ver
      BY <3>1, Configuration, Marks
    <3>3. Id(m) # i
      BY <1>1, <3>2
    <3>4. QED
      BY <1>5, <3>1, <3>2, <3>3
  <2>3. QED
    BY <2>1, <2>2
<1>8. WorldOK'
  BY <1>5, <1>7 DEF WorldOK, Configured
<1>9. QED
  BY <1>3, <1>4, <1>5, <1>6, <1>8

(* A host that joins is in the founder's cluster, with those that were. *)
LEMMA Added ==
    ASSUME WorldOK, up' = up, NEW n \in Nodes, CanAdd(n), DoAdd(n)
    PROVE  /\ WorldOK' /\ InFleet(n)'
           /\ \A m \in Nodes : InFleet(m) => InFleet(m)'
<1> DEFINE i == Id(Founder)
           members == cluster[i].members \union {n}
<1>1. Founder \in Nodes /\ conf[Founder] # None
  BY Marks DEF CanAdd, Works, Alive
<1>2. i \in Ids /\ cluster[i] \in Cluster /\ cluster[i].members \subseteq Nodes
  BY <1>1, Configuration
<1>3. cluster[i] # None /\ members \in SUBSET Nodes
  BY <1>2, Marks
<1>4. Change(i, members, n)
  BY DEF DoAdd
<1> HIDE DEF i, members
<1>5. /\ WorldOK'
      /\ cluster'[i].members = members
      /\ \A m \in Nodes : conf'[m] = conf[m] \/ (conf'[m] # None /\ Id(m)' = i)
      /\ n \in members => conf'[n] # None /\ Id(n)' = i
  BY <1>2, <1>3, <1>4, Changed
<1>6. n \in members
  BY DEF members
<1>7. conf'[Founder] # None /\ Id(Founder)' = i
  <2>1. CASE conf'[Founder] = conf[Founder]
    BY <1>1, <2>1 DEF Id, i
  <2>2. QED
    BY <1>1, <1>5, <2>1
<1>8. InFleet(n)'
  BY <1>5, <1>6, <1>7 DEF InFleet, Member
<1>9. ASSUME NEW m \in Nodes, InFleet(m) PROVE InFleet(m)'
  <2>1. conf[m] # None /\ Id(m) = i /\ m \in members
    BY <1>9 DEF InFleet, Member, i, members
  <2>2. conf'[m] # None /\ Id(m)' = i
    <3>1. CASE conf'[m] = conf[m]
      BY <2>1, <3>1 DEF Id
    <3>2. QED
      BY <1>5, <3>1
  <2>3. QED
    BY <1>5, <1>7, <2>1, <2>2 DEF InFleet, Member
<1>10. QED
  BY <1>5, <1>8, <1>9

LEMMA PvecmKeeps ==
    ASSUME WorldOK, NEW n \in Nodes, NEW what, NEW end, Pvecm(n, what, end)
    PROVE  WorldOK'
<1>1. up' = up
  BY DEF Pvecm
<1>2. CASE Nothing
  BY <1>1, <1>2 DEF Nothing, WorldOK, Configured, Id
<1>3. CASE CanCreate(n) /\ DoCreate(n)
  BY <1>1, <1>3, Created
<1>4. CASE CanAdd(n) /\ DoAdd(n)
  BY <1>1, <1>4, Added
<1>5. QED
  BY <1>2, <1>3, <1>4 DEF Pvecm

-----------------------------------------------------------------------------
(* The plan *)

(* A finite set in some order: everything in it, and nothing else. *)
LEMMA Sequenced ==
    ASSUME NEW S, IsFiniteSet(S)
    PROVE  /\ SetToSeq(S) \in Seq(S)
           /\ \A x \in S : \E i \in DOMAIN SetToSeq(S) : SetToSeq(S)[i] = x
<1> DEFINE N == Cardinality(S)
           f == SetToSeq(S)
<1>1. N \in Nat /\ ExistsBijection(1 .. N, S)
  BY FS_CardinalityType
<1>2. \E g \in [1 .. N -> S] : IsInjective(g)
  BY <1>1 DEF ExistsBijection, Bijection, Injection
<1>3. f \in [1 .. N -> S] /\ IsInjective(f)
  BY <1>2 DEF SetToSeq
<1>4. IsFiniteSet(1 .. N) /\ Cardinality(1 .. N) = N
  BY <1>1, FS_Interval
<1>5. f \in Injection(1 .. N, S)
  BY <1>3 DEF Injection
<1>6. f \in Surjection(1 .. N, S)
  BY <1>4, <1>5, FS_Injection
<1>7. \A x \in S : \E i \in 1 .. N : f[i] = x
  BY <1>6 DEF Surjection
<1> HIDE DEF f, N
<1>8. f \in Seq(S) /\ DOMAIN f = 1 .. N
  BY <1>1, <1>3
<1>9. QED
  BY <1>7, <1>8 DEF f

(* A plan creates on the founder, first, and adds the others: every host that
   was seen in no cluster. *)
LEMMA Planned ==
    ASSUME NEW seen \in [Nodes -> Seen]
    PROVE  LET P == Plan(seen)
           IN  /\ P \in Seq(Steps)
               /\ \A i \in DOMAIN P : /\ P[i][2] = "create" <=> P[i][1] = Founder
                                      /\ P[i][1] = Founder => i = 1
               /\ \A n \in Nodes : seen[n] = "none" => \E i \in DOMAIN P : P[i][1] = n
<1> DEFINE S == {n \in Joiners : seen[n] = "none"}
           adds == SetToSeq(S)
           A == [i \in DOMAIN adds |-> <<adds[i], "add">>]
           B == IF seen[Founder] = "none" THEN <<<<Founder, "create">>>> ELSE <<>>
<1>1. S \subseteq Nodes /\ IsFiniteSet(S) /\ Founder \notin S
  BY Marks, FS_Subset DEF Joiners
<1>2. adds \in Seq(S) /\ \A x \in S : \E i \in DOMAIN adds : adds[i] = x
  BY <1>1, Sequenced
<1> HIDE DEF adds
<1>3. /\ Len(adds) \in Nat /\ DOMAIN adds = 1 .. Len(adds)
      /\ \A i \in 1 .. Len(adds) : adds[i] \in S
  BY <1>2
<1>4. A \in Seq(Steps) /\ Len(A) = Len(adds)
  <2>1. \A i \in 1 .. Len(adds) : <<adds[i], "add">> \in Steps
    BY <1>1, <1>3 DEF Steps
  <2>2. A \in [1 .. Len(adds) -> Steps]
    BY <1>3, <2>1
  <2>3. QED
    BY <1>3, <2>2
<1>5. \A i \in 1 .. Len(adds) : A[i][1] = adds[i] /\ A[i][2] = "add"
  BY <1>3
<1>6. Plan(seen) = B \o A
  BY DEF Plan, adds
<1> HIDE DEF A
<1>7. CASE seen[Founder] = "none"
  <2>1. B = <<<<Founder, "create">>>> /\ <<Founder, "create">> \in Steps
    BY <1>7, Marks DEF Steps
  <2>2. B \in Seq(Steps) /\ Len(B) = 1 /\ B[1] = <<Founder, "create">>
    BY <2>1
  <2> DEFINE P == B \o A
  <2>3. P \in Seq(Steps) /\ Len(P) = Len(adds) + 1 /\ DOMAIN P = 1 .. Len(adds) + 1
    BY <1>3, <1>4, <2>2
  <2>4. P[1] = <<Founder, "create">> /\ \A i \in 1 .. Len(adds) : P[i + 1] = A[i]
    BY <1>3, <1>4, <2>2
  <2> HIDE DEF P, B
  <2>5. ASSUME NEW i \in DOMAIN P, i # 1 PROVE P[i][1] # Founder /\ P[i][2] = "add"
    <3>1. i - 1 \in 1 .. Len(adds) /\ i = (i - 1) + 1
      BY <1>3, <2>3, <2>5
    <3>2. P[i] = A[i - 1]
      BY <2>4, <3>1
    <3>3. QED
      BY <1>1, <1>3, <1>5, <3>1, <3>2
  <2>6. P[1][1] = Founder /\ P[1][2] = "create"
    BY <2>4
  <2>7. ASSUME NEW n \in Nodes, seen[n] = "none" PROVE \E i \in DOMAIN P : P[i][1] = n
    <3>1. CASE n = Founder
      BY <1>3, <2>3, <2>6, <3>1
    <3>2. CASE n # Founder
      <4>1. PICK i \in 1 .. Len(adds) : adds[i] = n
        BY <1>2, <1>3, <2>7, <3>2 DEF Joiners
      <4>2. i + 1 \in DOMAIN P /\ P[i + 1][1] = n
        BY <1>3, <1>5, <2>3, <2>4, <4>1
      <4>3. QED
        BY <4>2
    <3>3. QED
      BY <3>1, <3>2
  <2>8. QED
    BY <1>6, <2>3, <2>5, <2>6, <2>7 DEF P
<1>8. CASE seen[Founder] # "none"
  <2>1. Plan(seen) = A
    BY <1>4, <1>6, <1>8
  <2>2. DOMAIN A = 1 .. Len(adds)
    BY <1>4
  <2>3. \A i \in DOMAIN A : A[i][1] # Founder /\ A[i][2] = "add"
    BY <1>1, <1>3, <1>5, <2>2
  <2>4. ASSUME NEW n \in Nodes, seen[n] = "none" PROVE \E i \in DOMAIN A : A[i][1] = n
    <3>1. PICK i \in 1 .. Len(adds) : adds[i] = n
      BY <1>2, <1>3, <1>8, <2>4 DEF Joiners
    <3>2. QED
      BY <1>5, <2>2, <3>1
  <2>5. QED
    BY <1>4, <2>1, <2>3, <2>4
<1>9. QED
  BY <1>7, <1>8

-----------------------------------------------------------------------------
(* What a step that is not a command's own leaves of it *)

LEMMA WorldGood == ASSUME IInv PROVE WorldOK
BY DEF IInv, Types, WorldOK

Alike == /\ conf' = conf
         /\ \A j \in Ids : cluster'[j].name = cluster[j].name
                           /\ cluster'[j].members = cluster[j].members

LEMMA SameFleet ==
    ASSUME WorldOK, Alike
    PROVE  /\ \A n \in Nodes : InFleet(n)' <=> InFleet(n)
           /\ OneFleet' <=> OneFleet
<1>1. \A n \in Nodes : conf'[n] = conf[n] /\ Id(n)' = Id(n)
  BY DEF Alike, Id
<1>2. \A n \in Nodes : conf[n] # None =>
          /\ Id(n) \in Ids /\ cluster'[Id(n)].name = cluster[Id(n)].name
          /\ cluster'[Id(n)].members = cluster[Id(n)].members
  BY Configuration DEF Alike
<1>3. Founder \in Nodes
  BY Marks
<1>4. \A n \in Nodes : InFleet(n)' <=> InFleet(n)
  BY <1>1, <1>2, <1>3 DEF InFleet, Member
<1>5. OneFleet' <=> OneFleet
  <2>1. OneFleet <=> \A n \in Nodes : conf[n] # None /\ cluster[Id(n)].name = Fleet => InFleet(n)
    BY DEF OneFleet, InFleet
  <2>2. OneFleet' <=>
           \A n \in Nodes : conf'[n] # None /\ cluster'[Id(n)'].name = Fleet => InFleet(n)'
    BY DEF OneFleet, InFleet
  <2>3. QED
    BY <1>1, <1>2, <1>4, <2>1, <2>2
<1>6. QED
  BY <1>4, <1>5

LEMMA ConvergeUntouched ==
    ASSUME IInv, Alike, conv' = conv
    PROVE  Ordered' /\ Converges' /\ ConvergeTrue'
<1>1. Ordered'
  BY DEF IInv, Ordered
<1>2. Converges'
  BY WorldGood, SameFleet DEF IInv, Converges
<1>3. ConvergeTrue'
  <2>1. ConvergeTrue <=> (conv.pc = "complete" /\ conv.calm =>
           \A n \in Nodes : conv.seen[n] # "unreachable" => InFleet(n))
    BY DEF ConvergeTrue, InFleet
  <2>2. ConvergeTrue' <=> (conv.pc = "complete" /\ conv.calm =>
           \A n \in Nodes : conv.seen[n] # "unreachable" => InFleet(n)')
    BY DEF ConvergeTrue, InFleet
  <2>3. QED
    BY <2>1, <2>2, WorldGood, SameFleet DEF IInv
<1>4. QED
  BY <1>1, <1>2, <1>3

LEMMA ConvergeDisturbed ==
    ASSUME IInv, conv' = [conv EXCEPT !.calm = FALSE]
    PROVE  conv' \in Converging /\ Ordered' /\ Converges' /\ ConvergeTrue'
<1>1. conv \in Converging
  BY DEF IInv, Types
<1>2. /\ conv' \in Converging /\ conv'.calm = FALSE /\ conv'.pc = conv.pc
      /\ conv'.plan = conv.plan
  BY <1>1 DEF Converging
<1>3. QED
  BY <1>2 DEF IInv, Ordered, Converges, ConvergeTrue

LEMMA RoleUntouched ==
    ASSUME IInv, Alike, play' = play
    PROVE  Plays' /\ PlayTrue'
<1>1. Own' = Own /\ (play.pc # "idle" => Own \in Nodes) /\ Founder \in Nodes
  BY Marks DEF Own, IInv, Named
<1>2. WorldOK
  BY WorldGood
<1>3. Plays'
  BY <1>1, <1>2, SameFleet DEF IInv, Plays, Alike
<1>4. PlayTrue'
  <2> SUFFICES ASSUME play.pc = "ok", play.calm
               PROVE  /\ conf'[Own] # None
                      /\ \/ InFleet(Own)'
                         \/ conf'[Own] = play.was /\ cluster'[Id(Own)'].name # Fleet
    BY <1>1 DEF PlayTrue, InFleet
  <2>1. /\ conf[Own] # None
        /\ InFleet(Own) \/ (conf[Own] = play.was /\ cluster[Id(Own)].name # Fleet)
    BY DEF IInv, PlayTrue, InFleet
  <2>2. conf' = conf /\ Id(Own)' = Id(Own) /\ Id(Own) \in Ids
    BY <1>1, <1>2, <2>1, Configuration DEF Alike, Id
  <2>3. cluster'[Id(Own)].name = cluster[Id(Own)].name
    BY <2>2 DEF Alike
  <2>4. PICK h \in Nodes : h = Own
    BY <1>1
  <2>5. InFleet(h)' <=> InFleet(h)
    BY <1>2, SameFleet
  <2>6. InFleet(Own)' <=> InFleet(Own)
    BY <1>1, <2>4, <2>5 DEF InFleet, Member, Id
  <2>7. QED
    BY <2>1, <2>2, <2>3, <2>6
<1>5. QED
  BY <1>3, <1>4

LEMMA RoleDisturbed ==
    ASSUME IInv, play' = [play EXCEPT !.calm = FALSE]
    PROVE  play' \in Playing /\ Plays' /\ PlayTrue' /\ play'.pc = play.pc /\ play'.node = play.node
<1>1. play \in Playing
  BY DEF IInv, Types
<1>2. /\ play' \in Playing /\ play'.calm = FALSE /\ play'.pc = play.pc /\ play'.node = play.node
  BY <1>1 DEF Playing
<1>3. QED
  BY <1>2 DEF Plays, PlayTrue

-----------------------------------------------------------------------------
(* Each action keeps the invariant *)

ConvergeGood == conv \in Converging /\ Ordered /\ Converges /\ ConvergeTrue
RoleGood == play \in Playing /\ Plays /\ PlayTrue /\ (play.pc # "idle" => play.node \in Nodes)
RemovalGood == rem \in Removing /\ (rem.node = rem.host => rem.node = None)
BoundsGood == events \in Nat /\ jobs \in Nat

(* The invariant, by who keeps which part. *)
LEMMA Shared == IInv <=> WorldOK /\ ConvergeGood /\ RoleGood /\ RemovalGood /\ BoundsGood
BY DEF IInv, Types, WorldOK, ConvergeGood, Ordered, Named, RoleGood, RemovalGood, BoundsGood

LEMMA Assembled ==
    ASSUME WorldOK', ConvergeGood', RoleGood', RemovalGood', BoundsGood'
    PROVE  IInv'
BY DEF IInv, Types, WorldOK, ConvergeGood, Ordered, Named, RoleGood, RemovalGood, BoundsGood

LEMMA InitInv == ASSUME Init PROVE IInv
<1>1. PICK M \in SUBSET Nodes, name \in ClusterNames :
        /\ cluster = [i \in Ids |-> IF i = 1 /\ M # {}
                                    THEN [name |-> name, members |-> M, ver |-> 1, dirs |-> M] ELSE None]
        /\ conf = [n \in Nodes |-> IF n \in M THEN [id |-> 1, ver |-> 1] ELSE None]
  BY DEF Init
<1>2. WorldOK
  <2>1. [name |-> name, members |-> M, ver |-> 1, dirs |-> M] \in Cluster
    BY DEF Cluster
  <2>2. [id |-> 1, ver |-> 1] \in Conf
    BY Marks DEF Conf
  <2>3. cluster \in [Ids -> Cluster \union {None}] /\ conf \in [Nodes -> Conf \union {None}]
    BY <1>1, <2>1, <2>2
  <2>4. ASSUME NEW n \in Nodes, conf[n] # None
        PROVE  cluster[Id(n)] # None /\ conf[n].ver \in 1 .. cluster[Id(n)].ver
    <3>1. n \in M /\ conf[n] = [id |-> 1, ver |-> 1]
      BY <1>1, <2>4
    <3>2. Id(n) = 1 /\ conf[n].ver = 1
      BY <3>1 DEF Id
    <3>3. cluster[1] = [name |-> name, members |-> M, ver |-> 1, dirs |-> M]
      BY <1>1, <3>1, Marks
    <3>4. cluster[1] # None /\ cluster[1].ver = 1
      BY <2>1, <3>3, Marks
    <3>5. QED
      BY <3>2, <3>4
  <2>5. QED
    BY <2>3, <2>4 DEF WorldOK, Configured, Init
<1>3. ConvergeGood
  <2>1. conv = NoConv
    BY DEF Init
  <2>2. conv \in Converging
    BY <2>1 DEF NoConv, Converging, Seen
  <2>3. conv.pc = "idle" /\ conv.calm = FALSE /\ conv.plan = <<>>
    BY <2>1 DEF NoConv
  <2>4. QED
    BY <2>2, <2>3 DEF ConvergeGood, Ordered, Converges, ConvergeTrue
<1>4. RoleGood
  BY DEF Init, NoPlay, RoleGood, Playing, Plays, PlayTrue
<1>5. RemovalGood /\ BoundsGood
  BY DEF Init, NoRem, RemovalGood, Removing, BoundsGood
<1>6. QED
  BY <1>2, <1>3, <1>4, <1>5, Shared

LEMMA Still ==
    ASSUME IInv, UNCHANGED World
    PROVE  WorldOK' /\ Alike
BY WorldGood DEF World, WorldOK, Configured, Id, Alike

LEMMA ConvergeKept == ASSUME IInv, Alike, conv' = conv PROVE ConvergeGood'
BY ConvergeUntouched, Shared DEF ConvergeGood

LEMMA ConvergeShaken == ASSUME IInv, conv' = [conv EXCEPT !.calm = FALSE] PROVE ConvergeGood'
BY ConvergeDisturbed DEF ConvergeGood

LEMMA RoleKept == ASSUME IInv, Alike, play' = play PROVE RoleGood'
BY RoleUntouched, Shared DEF RoleGood

LEMMA RoleShaken == ASSUME IInv, play' = [play EXCEPT !.calm = FALSE] PROVE RoleGood'
BY RoleDisturbed, Shared DEF RoleGood

LEMMA RemovalKept == ASSUME IInv, rem' = rem PROVE RemovalGood'
BY Shared DEF RemovalGood

LEMMA BoundsKept ==
    ASSUME IInv, events' = events \/ events' = events + 1, jobs' = jobs \/ jobs' = jobs + 1
    PROVE  BoundsGood'
BY Shared DEF BoundsGood

LEMMA EventKeeps == ASSUME IInv, Event PROVE IInv'
<1>1. PICK n \in Nodes :
        \/ up' = (IF n \in up THEN up \ {n} ELSE up \union {n}) /\ UNCHANGED conf
        \/ up' = up \union {n} /\ conf' = [conf EXCEPT ![n] = None]
  BY DEF Event
<1>2. cluster' = cluster /\ WorldOK
  BY WorldGood DEF Event
<1>3. up' \subseteq Nodes /\ conf' \in [Nodes -> Conf \union {None}]
      /\ \A m \in Nodes : conf'[m] = conf[m] \/ conf'[m] = None
  BY <1>1, <1>2 DEF WorldOK
<1>4. WorldOK'
  BY <1>2, <1>3 DEF WorldOK, Configured, Id
<1>5. ConvergeGood' /\ RoleGood'
  BY ConvergeShaken, RoleShaken DEF Event, Excite
<1>6. RemovalGood' /\ BoundsGood'
  BY RemovalKept, BoundsKept DEF Event
<1>7. QED
  BY <1>4, <1>5, <1>6, Assembled

-----------------------------------------------------------------------------
(* converge *)

LEMMA ConvergeSteps ==
    ASSUME IInv, UNCHANGED <<World, play, rem, events>>, jobs' = jobs \/ jobs' = jobs + 1,
           ConvergeGood'
    PROVE  IInv'
<1>1. WorldOK' /\ Alike
  BY Still DEF World
<1>2. RoleGood' /\ RemovalGood' /\ BoundsGood'
  BY <1>1, RoleKept, RemovalKept, BoundsKept
<1>3. QED
  BY <1>1, <1>2, Assembled

LEMMA BeginConvergeKeeps == ASSUME IInv, BeginConverge PROVE IInv'
<1> DEFINE b == OneFleet
           unprobed == [n \in Nodes |-> "unprobed"]
<1>1. conv' = [NoConv EXCEPT !.pc = "probe", !.calm = b]
  BY DEF BeginConverge
<1>2. b \in BOOLEAN /\ (b => OneFleet)
  BY DEF OneFleet
<1>3. unprobed \in [Nodes -> Seen] /\ \A n \in Nodes : unprobed[n] = "unprobed"
  BY DEF Seen
<1>4. NoConv = [pc |-> "idle", seen |-> unprobed, plan |-> <<>>, calm |-> FALSE]
  BY DEF NoConv
<1> HIDE DEF b, unprobed
<1>5. conv' = [pc |-> "probe", seen |-> unprobed, plan |-> <<>>, calm |-> b]
  BY <1>1, <1>4
<1>6. <<>> \in Seq(Steps)
  OBVIOUS
<1>7. conv' \in Converging
  BY <1>2, <1>3, <1>5, <1>6 DEF Converging
<1>8. conv'.pc = "probe" /\ conv'.calm = b /\ conv'.plan = <<>> /\ conv'.seen = unprobed
  BY <1>5
<1>9. WorldOK' /\ Alike
  BY Still DEF BeginConverge, World
<1>10. b => OneFleet'
  BY <1>2, <1>9, WorldGood, SameFleet
<1>11. Fleet # "unprobed"
  BY ClusterAssumption
<1>12. ConvergeGood'
  BY <1>3, <1>7, <1>8, <1>10, <1>11 DEF ConvergeGood, Ordered, Converges, ConvergeTrue
<1>13. QED
  BY <1>12, ConvergeSteps DEF BeginConverge, Started

(* What a probe may see: the name of the cluster whose configuration the host
   has, or that it has none or does not answer. *)
LEMMA Answers ==
    ASSUME IInv, NEW n \in Nodes, NEW s \in ClusterState(n)
    PROVE  /\ s \in Seen \ {"unprobed"}
           /\ s = Fleet => conf[n] # None /\ cluster[Id(n)].name = Fleet
<1>1. /\ Fleet \in ClusterNames
      /\ ClusterNames \intersect {"unprobed", "answers", "unreachable", "none"} = {}
  BY ClusterAssumption
<1>2. CASE n \notin up
  BY <1>1, <1>2 DEF ClusterState, Seen
<1>3. CASE n \in up
  <2>1. PICK a \in Status(n) : s = IF a.info THEN cluster[Id(n)].name ELSE "none"
    BY <1>3 DEF ClusterState
  <2>2. CASE conf[n] = None
    <3>1. a.info = FALSE
      BY <2>1, <2>2 DEF Status
    <3>2. QED
      BY <1>1, <2>1, <3>1 DEF Seen
  <2>3. CASE conf[n] # None
    <3>1. cluster[Id(n)].name \in ClusterNames
      BY <2>3, WorldGood, Configuration DEF Cluster
    <3>2. QED
      BY <1>1, <2>1, <2>3, <3>1 DEF Seen
  <2>4. QED
    BY <2>2, <2>3
<1>4. QED
  BY <1>2, <1>3

(* Either of the two connections: what is seen of a host is Fleet only if its
   configuration is of a cluster of that name. *)
LEMMA SeeKeeps ==
    ASSUME IInv, conv.pc = "probe", NEW n \in Nodes, NEW s \in Seen,
           s = Fleet => conf[n] # None /\ cluster[Id(n)].name = Fleet, See(n, s)
    PROVE  IInv'
<1>1. conv' = [conv EXCEPT !.seen[n] = s] /\ UNCHANGED <<World, play, rem, events, jobs>>
  BY DEF See
<1>2. conv \in Converging
  BY DEF IInv, Types
<1> DEFINE seen == [conv.seen EXCEPT ![n] = s]
<1>4. conv' = [conv EXCEPT !.seen = seen]
  BY <1>1
<1>5. conv.seen \in [Nodes -> Seen]
  BY <1>2 DEF Converging
<1>6. /\ seen \in [Nodes -> Seen] /\ seen[n] = s
      /\ \A m \in Nodes \ {n} : seen[m] = conv.seen[m]
  BY <1>2, <1>5
<1> HIDE DEF seen
<1>7. /\ conv' \in Converging /\ conv'.pc = "probe" /\ conv'.calm = conv.calm
      /\ conv'.plan = conv.plan /\ conv'.seen = seen
  BY <1>2, <1>4, <1>6 DEF Converging
<1>8. WorldOK' /\ Alike
  BY <1>1, Still DEF World
<1>9. ASSUME conv.calm
      PROVE  OneFleet' /\ \A m \in Nodes : seen[m] = Fleet => InFleet(m)'
  <2>1. OneFleet /\ \A m \in Nodes : conv.seen[m] = Fleet => InFleet(m)
    BY <1>2, <1>9 DEF IInv, Converges
  <2>2. s = Fleet => InFleet(n)
    BY <2>1 DEF OneFleet, InFleet
  <2>3. \A m \in Nodes : seen[m] = Fleet => InFleet(m)
    BY <1>6, <2>1, <2>2
  <2>4. QED
    BY <1>8, <2>1, <2>3, WorldGood, SameFleet
<1>10. ConvergeGood'
  BY <1>7, <1>9 DEF ConvergeGood, IInv, Ordered, Converges, ConvergeTrue
<1>11. QED
  BY <1>1, <1>10, ConvergeSteps

LEMMA PingKeeps == ASSUME IInv, Ping PROVE IInv'
<1> DEFINE s(n) == IF n \in up THEN "answers" ELSE "unreachable"
<1>1. PICK n \in Seeing("unprobed") : See(n, s(n))
  BY DEF Ping
<1>2. n \in Nodes /\ conv.pc = "probe"
  BY <1>1 DEF Ping, Seeing
<1>3. s(n) \in Seen /\ s(n) # Fleet
  BY ClusterAssumption DEF Seen
<1>4. QED
  BY <1>1, <1>2, <1>3, SeeKeeps

LEMMA ProbeKeeps == ASSUME IInv, Probe PROVE IInv'
<1>1. PICK n \in Seeing("answers") : \E s \in ClusterState(n) : See(n, s)
  BY DEF Probe
<1>2. PICK s \in ClusterState(n) : See(n, s)
  BY <1>1
<1>3. n \in Nodes /\ conv.pc = "probe"
  BY <1>1 DEF Probe, Seeing
<1>4. s \in Seen /\ (s = Fleet => conf[n] # None /\ cluster[Id(n)].name = Fleet)
  BY <1>2, <1>3, Answers
<1>5. QED
  BY <1>2, <1>3, <1>4, SeeKeeps

LEMMA MakePlanKeeps == ASSUME IInv, MakePlan PROVE IInv'
<1> DEFINE seen == conv.seen
           P == Plan(seen)
<1>1. conv.pc = "probe" /\ conv \in Converging /\ seen \in [Nodes -> Seen]
  BY DEF MakePlan, IInv, Types, Converging
<1>2. \A n \in Nodes : seen[n] # "unprobed" /\ seen[n] # "answers"
  BY DEF MakePlan, Seeing
<1>3. /\ P \in Seq(Steps)
      /\ \A i \in DOMAIN P : /\ P[i][2] = "create" <=> P[i][1] = Founder
                             /\ P[i][1] = Founder => i = 1
      /\ \A n \in Nodes : seen[n] = "none" => \E i \in DOMAIN P : P[i][1] = n
  BY <1>1, Planned
<1>4. WorldOK' /\ Alike
  BY Still DEF MakePlan, World
<1>5. ASSUME conv.calm, NEW n \in Nodes, seen[n] = Fleet PROVE InFleet(n)'
  <2>1. InFleet(n)
    BY <1>1, <1>5 DEF IInv, Converges
  <2>2. QED
    BY <1>4, <2>1, WorldGood, SameFleet
<1>6. ASSUME ~ConvergeRefuses(seen), NEW n \in Nodes, seen[n] # "unreachable"
      PROVE  seen[n] = Fleet \/ \E i \in DOMAIN P : P[i][1] = n
  <2>1. seen[n] \in {"unprobed", "answers", "unreachable", "none"} \union ClusterNames
    BY <1>1 DEF Seen
  <2>2. seen[n] \in ClusterNames => seen[n] = Fleet
    BY <1>6 DEF ConvergeRefuses
  <2>3. QED
    BY <1>2, <1>3, <1>6, <2>1, <2>2
<1>7. ConvergeGood'
  <2>1. CASE ConvergeRefuses(seen)
    <3>1. conv' = [conv EXCEPT !.pc = "refused"]
      BY <2>1 DEF MakePlan
    <3>2. conv' \in Converging /\ conv'.pc = "refused" /\ conv'.plan = conv.plan
      BY <1>1, <3>1 DEF Converging
    <3>3. QED
      BY <3>2 DEF ConvergeGood, IInv, Ordered, Converges, ConvergeTrue
  <2>2. CASE ~ConvergeRefuses(seen) /\ P = <<>>
    <3>1. conv' = [conv EXCEPT !.pc = "complete"]
      BY <2>2 DEF MakePlan
    <3>2. /\ conv' \in Converging /\ conv'.pc = "complete" /\ conv'.plan = conv.plan
          /\ conv'.calm = conv.calm /\ conv'.seen = seen
      BY <1>1, <3>1 DEF Converging
    <3>3. \A n \in Nodes : seen[n] # "unreachable" => seen[n] = Fleet
      BY <1>6, <2>2
    <3>4. conv.calm => \A n \in Nodes : seen[n] # "unreachable" => InFleet(n)'
      BY <1>5, <3>3
    <3>5. ConvergeTrue'
      BY <3>2, <3>4 DEF ConvergeTrue, InFleet
    <3>6. QED
      BY <3>2, <3>5 DEF ConvergeGood, IInv, Ordered, Converges
  <2>3. CASE ~ConvergeRefuses(seen) /\ P # <<>>
    <3>1. conv' = [conv EXCEPT !.pc = "confirm", !.plan = P]
      BY <2>3 DEF MakePlan
    <3> HIDE DEF P
    <3>2. /\ conv' \in Converging /\ conv'.pc = "confirm" /\ conv'.plan = P
          /\ conv'.calm = conv.calm /\ conv'.seen = seen
      BY <1>1, <1>3, <3>1 DEF Converging
    <3>3. conv.calm => \A n \in Nodes : seen[n] # "unreachable" =>
                           InFleet(n)' \/ \E i \in DOMAIN P : P[i][1] = n
      BY <1>5, <1>6, <2>3
    <3>4. Ordered'
      BY <1>3, <2>3, <3>2 DEF Ordered
    <3>5. QED
      BY <1>5, <3>2, <3>3, <3>4 DEF ConvergeGood, Converges, ConvergeTrue
  <2>4. QED
    BY <2>1, <2>2, <2>3
<1>8. QED
  BY <1>7, ConvergeSteps DEF MakePlan

LEMMA ConfirmKeeps == ASSUME IInv, Confirm PROVE IInv'
<1>1. PICK next \in {"apply", "refused"} : conv' = [conv EXCEPT !.pc = next]
  BY DEF Confirm
<1>2. conv.pc = "confirm" /\ conv \in Converging
  BY DEF Confirm, IInv, Types
<1>3. /\ conv' \in Converging /\ conv'.pc = next /\ conv'.plan = conv.plan
      /\ conv'.calm = conv.calm /\ conv'.seen = conv.seen
  BY <1>1, <1>2 DEF Converging
<1>4. WorldOK' /\ Alike
  BY Still DEF Confirm, World
<1>5. \A n \in Nodes : InFleet(n)' <=> InFleet(n)
  BY <1>4, WorldGood, SameFleet
<1>6. ConvergeGood'
  BY <1>2, <1>3, <1>5 DEF ConvergeGood, IInv, Ordered, Converges, ConvergeTrue
<1>7. QED
  BY <1>6, ConvergeSteps DEF Confirm

(* A step of a plan that does what it says: what converge has seen stays so,
   and the step's host is one less to reach. *)
LEMMA StepDone ==
    ASSUME IInv, conv.pc = "apply", conv.calm,
           Pvecm(Head(conv.plan)[1], Head(conv.plan)[2], "done")
    PROVE  /\ \A n \in Nodes : conv.seen[n] = Fleet => InFleet(n)'
           /\ \A n \in Nodes : conv.seen[n] # "unreachable" =>
                 InFleet(n)' \/ \E i \in DOMAIN Tail(conv.plan) : Tail(conv.plan)[i][1] = n
<1> DEFINE plan == conv.plan
           step == Head(plan)
           rest == Tail(plan)
<1>1. plan \in Seq(Steps) /\ plan # <<>>
  BY DEF IInv, Types, Converging, Ordered
<1>2. step = plan[1] /\ 1 \in DOMAIN plan /\ step \in Steps
  BY <1>1
<1>3. \A i \in DOMAIN plan : i = 1 \/ (i - 1 \in DOMAIN rest /\ rest[i - 1] = plan[i])
  BY <1>1
<1>4. PICK h \in Nodes : step[1] = h /\ (step[2] = "create" <=> h = Founder)
  BY <1>2 DEF IInv, Ordered, Steps
<1>5. /\ \A n \in Nodes : conv.seen[n] = Fleet => InFleet(n)
      /\ \A n \in Nodes : conv.seen[n] # "unreachable" =>
             InFleet(n) \/ \E i \in DOMAIN plan : plan[i][1] = n
  BY DEF IInv, Converges
<1>6. InFleet(h)' /\ \A n \in Nodes : InFleet(n) => InFleet(n)'
  <2>1. up' = up /\ WorldOK
    BY WorldGood DEF Pvecm
  <2>2. CASE step[2] = "create"
    <3>1. CanCreate(Founder) /\ DoCreate(Founder)
      BY <1>4, <2>2 DEF Pvecm
    <3>2. conf'[Founder] # None /\ Founder \in cluster'[Id(Founder)'].members
      BY <2>1, <3>1, Marks, Created
    <3>3. InFleet(Founder)'
      BY <3>2 DEF InFleet, Member
    <3>4. \A n \in Nodes : ~InFleet(n)
      BY <3>1 DEF CanCreate, InFleet
    <3>5. h = Founder
      BY <1>4, <2>2
    <3>6. QED
      BY <3>3, <3>4, <3>5
  <2>3. CASE step[2] # "create"
    <3>1. CanAdd(h) /\ DoAdd(h)
      BY <1>4, <2>3 DEF Pvecm
    <3>2. QED
      BY <1>4, <2>1, <3>1, Added
  <2>4. QED
    BY <2>2, <2>3
<1> HIDE DEF plan, step, rest
<1>7. ASSUME NEW n \in Nodes, conv.seen[n] # "unreachable"
      PROVE  InFleet(n)' \/ \E i \in DOMAIN rest : rest[i][1] = n
  <2>1. CASE InFleet(n)
    BY <1>6, <2>1
  <2>2. CASE \E i \in DOMAIN plan : plan[i][1] = n
    <3>1. PICK i \in DOMAIN plan : plan[i][1] = n
      BY <2>2
    <3>2. CASE i = 1
      BY <1>2, <1>4, <1>6, <3>1, <3>2
    <3>3. CASE i # 1
      BY <1>3, <3>1, <3>3
    <3>4. QED
      BY <3>2, <3>3
  <2>3. QED
    BY <1>5, <1>7, <2>1, <2>2
<1>8. QED
  BY <1>5, <1>6, <1>7 DEF plan, rest

LEMMA ApplyKeeps == ASSUME IInv, Apply PROVE IInv'
<1> DEFINE plan == conv.plan
           step == Head(plan)
           rest == Tail(plan)
<1>1. PICK end \in {"done", "silent", "error"} :
        /\ Pvecm(step[1], step[2], end)
        /\ conv' = [conv EXCEPT !.plan = rest, !.pc = StepEnds(rest, end),
                                !.calm = @ /\ end # "silent"]
  BY DEF Apply
<1>2. conv.pc = "apply" /\ conv \in Converging
  BY DEF Apply, IInv, Types
<1>3. plan \in Seq(Steps) /\ plan # <<>>
  BY <1>2 DEF IInv, Converging, Ordered
<1>4. /\ rest \in Seq(Steps) /\ step \in Steps
      /\ \A i \in DOMAIN rest : i + 1 \in DOMAIN plan /\ i + 1 # 1 /\ rest[i] = plan[i + 1]
  BY <1>3
<1>5. step[1] \in Nodes
  BY <1>4 DEF Steps
<1>6. WorldOK'
  BY <1>1, <1>5, WorldGood, PvecmKeeps
<1> DEFINE next == StepEnds(rest, end)
           calm == conv.calm /\ end # "silent"
<1>7. /\ next \in {"failed", "complete", "apply"}
      /\ next = "complete" => rest = <<>> /\ end # "error"
      /\ next = "apply" => rest # <<>> /\ end # "error"
  BY DEF StepEnds
<1>8. calm \in BOOLEAN /\ (calm => conv.calm /\ end # "silent")
  BY <1>2 DEF Converging
<1>9. conv' = [conv EXCEPT !.plan = rest, !.pc = next, !.calm = calm]
  BY <1>1
<1>10. \A i \in DOMAIN plan : /\ plan[i][2] = "create" <=> plan[i][1] = Founder
                              /\ plan[i][1] = Founder => i = 1
  BY DEF IInv, Ordered
<1>11. calm /\ next # "failed" =>
         /\ \A n \in Nodes : conv.seen[n] = Fleet => InFleet(n)'
         /\ \A n \in Nodes : conv.seen[n] # "unreachable" =>
               InFleet(n)' \/ \E i \in DOMAIN rest : rest[i][1] = n
  BY <1>1, <1>2, <1>7, <1>8, StepDone
<1> HIDE DEF plan, rest, next, calm
<1>12. /\ conv' \in Converging /\ conv'.plan = rest /\ conv'.pc = next /\ conv'.calm = calm
       /\ conv'.seen = conv.seen
  BY <1>2, <1>4, <1>7, <1>8, <1>9 DEF Converging
<1>13. Ordered'
  BY <1>4, <1>7, <1>10, <1>12 DEF Ordered
<1>14. Converges'
  BY <1>7, <1>11, <1>12 DEF Converges
<1>15. ConvergeTrue'
  BY <1>7, <1>11, <1>12 DEF ConvergeTrue, InFleet
<1>16. ConvergeGood'
  BY <1>12, <1>13, <1>14, <1>15 DEF ConvergeGood
<1>17. RoleGood' /\ RemovalGood' /\ BoundsGood'
  BY RoleShaken, RemovalKept, BoundsKept DEF Apply
<1>18. QED
  BY <1>6, <1>16, <1>17, Assembled

-----------------------------------------------------------------------------
(* The role *)

LEMMA RoleSteps ==
    ASSUME IInv, UNCHANGED <<World, conv, rem, events>>, jobs' = jobs \/ jobs' = jobs + 1,
           RoleGood'
    PROVE  IInv'
<1>1. WorldOK' /\ Alike
  BY Still DEF World
<1>2. ConvergeGood' /\ RemovalGood' /\ BoundsGood'
  BY <1>1, ConvergeKept, RemovalKept, BoundsKept
<1>3. QED
  BY <1>1, <1>2, Assembled

(* Where the role goes, if the host is still there. *)
LEMMA Goes ==
    ASSUME IInv, play.pc # "idle",
           NEW next \in {"form", "version", "refresh", "verify", "ok"}, PlayStep(next)
    PROVE  /\ Own \in Nodes /\ play' \in Playing /\ play'.node = Own /\ Own' = Own
           /\ play'.calm = play.calm /\ play'.clustered = play.clustered /\ play'.was = play.was
           /\ play'.pc = IF Unreachable THEN "failed" ELSE next
<1> DEFINE ends == IF Unreachable THEN "failed" ELSE next
<1>1. play \in Playing /\ play.node \in Nodes
  BY DEF IInv, Types, Named
<1>2. play' = [play EXCEPT !.pc = ends]
  BY DEF PlayStep
<1>3. ends \in {"failed", "form", "version", "refresh", "verify", "ok"}
  OBVIOUS
<1> HIDE DEF ends
<1>4. /\ play' \in Playing /\ play'.node = play.node /\ play'.pc = ends
      /\ play'.calm = play.calm /\ play'.clustered = play.clustered /\ play'.was = play.was
  BY <1>1, <1>2, <1>3 DEF Playing
<1>5. QED
  BY <1>1, <1>4 DEF Own, ends

LEMMA Fails ==
    ASSUME IInv, play.pc # "idle", PlayFails
    PROVE  RoleGood'
<1>1. play \in Playing /\ play.node \in Nodes
  BY DEF IInv, Types, Named
<1>2. play' \in Playing /\ play'.node = play.node /\ play'.pc = "failed"
  BY <1>1 DEF PlayFails, Playing
<1>3. QED
  BY <1>1, <1>2 DEF RoleGood, Plays, PlayTrue

LEMMA BeginPlayKeeps == ASSUME IInv, BeginPlay PROVE IInv'
<1> DEFINE b == OneFleet
<1>1. PICK n \in up : play' = [NoPlay EXCEPT !.pc = "probe", !.node = n, !.was = conf[n], !.calm = b]
  BY DEF BeginPlay
<1>2. b \in BOOLEAN /\ (b => OneFleet)
  BY DEF OneFleet
<1> HIDE DEF b
<1>3. n \in Nodes /\ conf[n] \in Conf \union {None}
  BY DEF IInv, Types
<1>4. /\ play' \in Playing /\ play'.pc = "probe" /\ play'.node = n /\ play'.was = conf[n]
      /\ play'.calm = b
  BY <1>1, <1>2, <1>3 DEF NoPlay, Playing
<1>5. WorldOK' /\ Alike /\ conf' = conf
  BY Still DEF BeginPlay, World
<1>6. b => OneFleet'
  BY <1>2, <1>5, WorldGood, SameFleet
<1>7. conf'[Own'] = play'.was
  BY <1>4, <1>5 DEF Own
<1>8. RoleGood'
  BY <1>3, <1>4, <1>6, <1>7 DEF RoleGood, Plays, PlayTrue
<1>9. QED
  BY <1>8, RoleSteps DEF BeginPlay, Started

LEMMA PlayProbeKeeps == ASSUME IInv, PlayProbe PROVE IInv'
<1>1. PICK s \in Status(Own) :
        play' = [play EXCEPT !.pc = IF Unreachable THEN "failed" ELSE "form",
                             !.clustered = s.rc0 /\ s.info]
  BY DEF PlayProbe
<1>2. play.pc = "probe" /\ play \in Playing /\ Own \in Nodes /\ Own = play.node
  BY DEF PlayProbe, IInv, Types, Named, Own
<1> DEFINE next == IF Unreachable THEN "failed" ELSE "form"
           c == s.rc0 /\ s.info
<1>3. play' = [play EXCEPT !.pc = next, !.clustered = c]
  BY <1>1
<1>4. next \in {"failed", "form"} /\ c \in BOOLEAN
  OBVIOUS
<1>5. c => conf[Own] # None
  BY DEF Status
<1> HIDE DEF next, c
<1>6. /\ play' \in Playing /\ play'.pc = next /\ play'.node = play.node
      /\ play'.calm = play.calm /\ play'.clustered = c /\ play'.was = play.was
  BY <1>2, <1>3, <1>4 DEF Playing
<1>7. WorldOK' /\ Alike /\ conf' = conf /\ Own' = Own
  BY <1>2, <1>6, Still DEF PlayProbe, PlayOnly, World, Own
<1>8. play.calm => OneFleet' /\ conf'[Own] = play.was
  BY <1>2, <1>7, WorldGood, SameFleet DEF IInv, Plays
<1>9. RoleGood'
  BY <1>2, <1>4, <1>5, <1>6, <1>7, <1>8 DEF RoleGood, Plays, PlayTrue
<1>10. QED
  BY <1>9, RoleSteps DEF PlayProbe, PlayOnly

LEMMA VersionKeeps == ASSUME IInv, Version PROVE IInv'
<1>1. play.pc = "version" /\ PlayOnly
  BY DEF Version
<1>2. WorldOK' /\ Alike /\ conf' = conf
  BY <1>1, Still DEF PlayOnly, World
<1>3. RoleGood'
  <2>1. CASE PlayFails
    BY <1>1, <2>1, Fails
  <2>2. CASE \E next \in {"refresh", "ok"} : PlayStep(next)
    <3>1. PICK next \in {"refresh", "ok"} : PlayStep(next)
      BY <2>2
    <3>2. /\ Own \in Nodes /\ play' \in Playing /\ play'.node = Own /\ Own' = Own
          /\ play'.calm = play.calm /\ play'.was = play.was
          /\ play'.pc \in {"failed", "refresh", "ok"}
      BY <1>1, <3>1, Goes
    <3>3. play.calm => OneFleet' /\ conf'[Own] # None /\ conf'[Own] = play.was
      BY <1>1, <1>2, WorldGood, SameFleet DEF IInv, Plays
    <3>4. play.calm /\ cluster'[Id(Own)'].name = Fleet
          => conf'[Founder] # None /\ Member(Own, Id(Founder))'
      BY <3>2, <3>3 DEF OneFleet
    <3>5. Plays'
      BY <3>2, <3>3 DEF Plays
    <3>6. PlayTrue'
      BY <3>2, <3>3, <3>4 DEF PlayTrue
    <3>7. QED
      BY <3>2, <3>5, <3>6 DEF RoleGood
  <2>3. QED
    BY <2>1, <2>2 DEF Version
<1>4. QED
  BY <1>1, <1>3, RoleSteps DEF PlayOnly

LEMMA VerifyKeeps == ASSUME IInv, Verify PROVE IInv'
<1>1. play.pc = "verify" /\ PlayOnly
  BY DEF Verify
<1>2. WorldOK' /\ Alike /\ conf' = conf /\ cluster' = cluster
  BY <1>1, Still DEF PlayOnly, World
<1>3. RoleGood'
  <2>1. CASE ~Alive(Own)
    <3>1. PlayFails
      BY <2>1 DEF Verify, PlayStep, PlayFails
    <3>2. QED
      BY <1>1, <3>1, Fails
  <2>2. CASE Alive(Own)
    <3>1. /\ Own \in Nodes /\ play' \in Playing /\ play'.node = Own /\ Own' = Own
          /\ play'.calm = play.calm /\ play'.pc \in {"failed", "ok"}
      BY <1>1, <2>2, Goes DEF Verify
    <3>2. conf[Own] # None /\ Own \in cluster[Id(Own)].members
      BY <2>2 DEF Alive
    <3>3. play.calm => conf[Founder] # None /\ conf[Own] = conf[Founder]
      BY <1>1 DEF IInv, Plays
    <3>4. play.calm => /\ conf'[Own] # None /\ conf'[Founder] # None
                       /\ Member(Own, Id(Founder))'
      BY <1>2, <3>1, <3>2, <3>3 DEF Member, Id
    <3>5. PlayTrue'
      BY <3>1, <3>4 DEF PlayTrue
    <3>6. QED
      BY <3>1, <3>5 DEF RoleGood, Plays
  <2>3. QED
    BY <2>1, <2>2
<1>4. QED
  BY <1>1, <1>3, RoleSteps DEF PlayOnly

LEMMA FormKeeps == ASSUME IInv, Form PROVE IInv'
<1>1. play.pc = "form" /\ play \in Playing /\ Own \in Nodes /\ Own = play.node
  BY DEF Form, IInv, Types, Named, Own
<1>2. CASE play.clustered \/ Unreachable
  <2>1. /\ PlayStep(IF Own = Founder THEN "ok" ELSE "version")
        /\ UNCHANGED <<World, conv, rem, events, jobs>>
    BY <1>2 DEF Form
  <2>2. WorldOK' /\ Alike /\ conf' = conf
    BY <2>1, Still DEF World
  <2>3. /\ play' \in Playing /\ play'.node = Own /\ Own' = Own /\ play'.calm = play.calm
        /\ play'.was = play.was
        /\ play'.pc = IF Unreachable THEN "failed"
                      ELSE IF Own = Founder THEN "ok" ELSE "version"
    BY <1>1, <2>1, Goes
  <2>4. play.calm => OneFleet' /\ conf'[Own] = play.was
    BY <1>1, <2>2, WorldGood, SameFleet DEF IInv, Plays
  <2>5. play.calm /\ ~Unreachable => conf'[Own] # None
    BY <1>1, <1>2, <2>2 DEF IInv, Plays
  <2>6. play.calm /\ ~Unreachable /\ cluster'[Id(Own)'].name = Fleet
        => conf'[Founder] # None /\ Member(Own, Id(Founder))'
    BY <1>1, <2>3, <2>4, <2>5 DEF OneFleet
  <2>7. Plays'
    BY <2>3, <2>4, <2>5 DEF Plays
  <2>8. PlayTrue'
    BY <2>3, <2>4, <2>5, <2>6 DEF PlayTrue
  <2>9. RoleGood'
    BY <1>1, <2>3, <2>7, <2>8 DEF RoleGood
  <2>10. QED
    BY <2>1, <2>9, RoleSteps
<1>3. CASE ~(play.clustered \/ Unreachable)
  <2>1. PICK end \in {"done", "silent", "error"} :
          /\ Pvecm(Own, IF Own = Founder THEN "create" ELSE "add", end)
          /\ play' = [play EXCEPT !.pc = IF JoinFailed(end) THEN "failed" ELSE "ok"]
    BY <1>3 DEF Form
  <2>2. conv' = [conv EXCEPT !.calm = FALSE] /\ UNCHANGED <<rem, events, jobs>>
    BY <1>3 DEF Form
  <2>3. WorldOK'
    BY <1>1, <2>1, WorldGood, PvecmKeeps
  <2>4. /\ play' \in Playing /\ play'.node = play.node /\ Own' = Own
        /\ play'.pc = "failed" \/ (play'.pc = "ok" /\ end = "done")
    BY <1>1, <2>1 DEF Playing, JoinFailed, Own
  <2>5. end = "done" => /\ conf'[Own] # None /\ conf'[Founder] # None
                        /\ Member(Own, Id(Founder))'
    <3> SUFFICES ASSUME end = "done"
                 PROVE  /\ conf'[Own] # None /\ conf'[Founder] # None
                        /\ Member(Own, Id(Founder))'
      OBVIOUS
    <3>1. up' = up /\ WorldOK
      BY <2>1, WorldGood DEF Pvecm
    <3>2. CASE Own = Founder
      <4>1. CanCreate(Founder) /\ DoCreate(Founder)
        BY <2>1, <3>2 DEF Pvecm
      <4>2. conf'[Founder] # None /\ Founder \in cluster'[Id(Founder)'].members
        BY <3>1, <4>1, Marks, Created
      <4>3. QED
        BY <2>4, <3>2, <4>2 DEF Member
    <3>3. CASE Own # Founder
      <4>1. PICK h \in Nodes : h = Own
        BY <1>1
      <4>2. CanAdd(h) /\ DoAdd(h)
        BY <2>1, <3>3, <4>1 DEF Pvecm
      <4>3. InFleet(h)'
        BY <3>1, <4>2, Added
      <4>4. conf'[h] # None /\ conf'[Founder] # None /\ Member(h, Id(Founder))'
        BY <4>3 DEF InFleet, Member
      <4>5. Own' = h
        BY <2>4, <4>1
      <4>6. QED
        BY <4>1, <4>4, <4>5 DEF Member, Id
    <3>4. QED
      BY <3>2, <3>3
  <2>6. Plays' /\ PlayTrue'
    BY <2>4, <2>5 DEF Plays, PlayTrue
  <2>7. RoleGood'
    BY <1>1, <2>4, <2>6 DEF RoleGood
  <2>8. ConvergeGood' /\ RemovalGood' /\ BoundsGood'
    BY <2>2, ConvergeShaken, RemovalKept, BoundsKept
  <2>9. QED
    BY <2>3, <2>7, <2>8, Assembled
<1>4. QED
  BY <1>2, <1>3

LEMMA RefreshKeeps == ASSUME IInv, Refresh PROVE IInv'
<1>1. play.pc = "refresh" /\ UNCHANGED <<up, cluster, rem, events, jobs>> /\ Own \in Nodes
  BY DEF Refresh, IInv, Named, Own
<1>2. CASE Unreachable \/ Founder \notin up \/ conf[Founder] = None
  <2>1. PlayFails /\ UNCHANGED <<conf, conv>>
    BY <1>2 DEF Refresh
  <2>2. RoleGood'
    BY <1>1, <2>1, Fails
  <2>3. QED
    BY <1>1, <2>1, <2>2, RoleSteps DEF World
<1>3. CASE ~(Unreachable \/ Founder \notin up \/ conf[Founder] = None)
  <2>1. /\ conf' = [conf EXCEPT ![Own] = conf[Founder]]
        /\ PlayStep("verify") /\ conv' = [conv EXCEPT !.calm = FALSE]
    BY <1>3 DEF Refresh
  <2>2. conf[Founder] # None /\ WorldOK /\ Founder \in Nodes
    BY <1>3, WorldGood, Marks
  <2>3. /\ conf' \in [Nodes -> Conf \union {None}] /\ conf'[Own] = conf[Founder]
        /\ \A m \in Nodes : conf'[m] = conf[m] \/ conf'[m] = conf[Founder]
        /\ conf'[Founder] = conf[Founder]
    BY <1>1, <2>1, <2>2 DEF WorldOK
  <2>4. WorldOK'
    BY <1>1, <2>2, <2>3 DEF WorldOK, Configured, Id
  <2>5. /\ play' \in Playing /\ play'.node = Own /\ Own' = Own /\ play'.pc = "verify"
    BY <1>1, <1>3, <2>1, Goes
  <2>6. RoleGood'
    BY <1>1, <2>2, <2>3, <2>5 DEF RoleGood, Plays, PlayTrue
  <2>7. ConvergeGood' /\ RemovalGood' /\ BoundsGood'
    BY <1>1, <2>1, ConvergeShaken, RemovalKept, BoundsKept
  <2>8. QED
    BY <2>4, <2>6, <2>7, Assembled
<1>4. QED
  BY <1>2, <1>3

-----------------------------------------------------------------------------
(* The removal *)

LEMMA RemStepped ==
    ASSUME IInv, rem.pc # "idle", NEW next \in {"delnode", "clean", "removed", "failed"},
           NEW listed \in BOOLEAN, RemStep(next, listed)
    PROVE  RemovalGood'
<1>1. rem \in Removing /\ (rem.node = rem.host => rem.node = None)
  BY DEF IInv, Types, Named
<1>2. rem' = [rem EXCEPT !.pc = next, !.listed = listed]
  BY DEF RemStep
<1>3. rem' \in Removing /\ rem'.node = rem.node /\ rem'.host = rem.host
  BY <1>1, <1>2 DEF Removing
<1>4. QED
  BY <1>1, <1>3 DEF RemovalGood

LEMMA RemovalSteps ==
    ASSUME IInv, WorldOK', Alike, UNCHANGED <<conv, play, events>>,
           jobs' = jobs \/ jobs' = jobs + 1, RemovalGood'
    PROVE  IInv'
<1>1. ConvergeGood' /\ RoleGood' /\ BoundsGood'
  BY ConvergeKept, RoleKept, BoundsKept
<1>2. QED
  BY <1>1, Assembled

LEMMA BeginRemoveKeeps == ASSUME IInv, BeginRemove PROVE IInv'
<1>1. PICK n \in Joiners, h \in up :
        n # h /\ rem' = [NoRem EXCEPT !.pc = "probe", !.node = n, !.host = h]
  BY DEF BeginRemove
<1>2. h \in Nodes
  BY DEF IInv, Types
<1>3. rem' \in Removing /\ rem'.node = n /\ rem'.host = h
  BY <1>1, <1>2 DEF NoRem, Removing
<1>4. RemovalGood'
  BY <1>1, <1>3 DEF RemovalGood
<1>5. WorldOK' /\ Alike
  BY Still DEF BeginRemove
<1>6. QED
  BY <1>4, <1>5, RemovalSteps DEF BeginRemove, Started

LEMMA RemProbeKeeps == ASSUME IInv, RemProbe PROVE IInv'
<1>1. WorldOK' /\ Alike
  BY Still DEF RemProbe
<1> DEFINE l == Listed(rem.node, Id(rem.host))
<1>2. l \in BOOLEAN
  BY DEF Listed
<1>3. rem.pc # "idle" /\ (RemStep("delnode", l) \/ RemStep("failed", FALSE))
  BY DEF RemProbe
<1> HIDE DEF l
<1>4. RemovalGood'
  BY <1>2, <1>3, RemStepped
<1>5. QED
  BY <1>1, <1>4, RemovalSteps DEF RemProbe

LEMMA DelnodeKeeps == ASSUME IInv, Delnode PROVE IInv'
<1>1. rem.pc # "idle" /\ UNCHANGED <<up, events, jobs>>
  BY DEF Delnode
<1>2. RemStep("clean", FALSE) \/ RemStep("failed", FALSE)
  BY DEF Delnode
<1>3. RemovalGood'
  BY <1>1, <1>2, RemStepped
<1>4. CASE UNCHANGED <<conf, cluster, conv, play>>
  <2>1. WorldOK' /\ Alike
    BY <1>1, <1>4, Still DEF World
  <2>2. QED
    BY <1>1, <1>3, <1>4, <2>1, RemovalSteps
<1>5. CASE /\ Works(rem.host)
           /\ Change(Id(rem.host), cluster[Id(rem.host)].members \ {rem.node}, rem.host)
           /\ Excite
  <2>1. PICK h \in Nodes : h = rem.host /\ conf[h] # None
    BY <1>5 DEF Works, Alive, IInv, Types
  <2> DEFINE members == cluster[Id(h)].members \ {rem.node}
  <2>2. /\ Id(h) \in Ids /\ cluster[Id(h)] \in Cluster /\ WorldOK
        /\ cluster[Id(h)].members \subseteq Nodes
    BY <2>1, WorldGood, Configuration
  <2>3. cluster[Id(h)] # None /\ members \in SUBSET Nodes
    BY <2>2, Marks
  <2>4. Change(Id(h), members, h)
    BY <1>5, <2>1
  <2> HIDE DEF members
  <2>5. WorldOK'
    BY <1>1, <2>2, <2>3, <2>4, Changed
  <2>6. ConvergeGood' /\ RoleGood' /\ BoundsGood'
    BY <1>1, <1>5, ConvergeShaken, RoleShaken, BoundsKept DEF Excite
  <2>7. QED
    BY <1>3, <2>5, <2>6, Assembled
<1>6. QED
  BY <1>4, <1>5 DEF Delnode

LEMMA CleanKeeps == ASSUME IInv, Clean PROVE IInv'
<1>1. rem.pc # "idle" /\ UNCHANGED <<up, conf, conv, play, events, jobs>>
  BY DEF Clean
<1>2. RemStep("removed", FALSE) \/ RemStep("failed", FALSE)
  BY DEF Clean
<1>3. RemovalGood'
  BY <1>1, <1>2, RemStepped
<1>4. CASE UNCHANGED cluster
  <2>1. WorldOK' /\ Alike
    BY <1>1, <1>4, Still DEF World
  <2>2. QED
    BY <1>1, <1>3, <2>1, RemovalSteps
<1>5. CASE /\ Alive(rem.host)
           /\ cluster' = [cluster EXCEPT ![Id(rem.host)].dirs = @ \ {rem.node}]
  <2>1. PICK h \in Nodes : h = rem.host /\ conf[h] # None
    BY <1>5 DEF Alive, IInv, Types
  <2>2. PICK i \in Ids : i = Id(h) /\ cluster[i] \in Cluster /\ WorldOK
    BY <2>1, WorldGood, Configuration
  <2> DEFINE c == cluster[i]
             dirs == c.dirs \ {rem.node}
             d == [c EXCEPT !.dirs = dirs]
  <2>3. dirs \in SUBSET Nodes
    BY <2>2 DEF Cluster
  <2>4. cluster' = [cluster EXCEPT ![i] = d]
    BY <1>5, <2>1, <2>2
  <2> HIDE DEF dirs
  <2>5. d \in Cluster /\ d.name = c.name /\ d.members = c.members /\ d.ver = c.ver /\ d # None
    BY <2>2, <2>3, Marks DEF Cluster
  <2> HIDE DEF d
  <2>6. /\ cluster' \in [Ids -> Cluster \union {None}] /\ cluster'[i] = d
        /\ \A j \in Ids \ {i} : cluster'[j] = cluster[j]
    BY <2>2, <2>4, <2>5 DEF WorldOK
  <2>7. \A j \in Ids : /\ cluster'[j].name = cluster[j].name
                       /\ cluster'[j].members = cluster[j].members
                       /\ cluster[j] # None => cluster'[j] # None /\ cluster'[j].ver = cluster[j].ver
    BY <2>5, <2>6
  <2>8. Alike
    BY <1>1, <2>7 DEF Alike
  <2>9. ASSUME NEW n \in Nodes, conf[n] # None
        PROVE  cluster'[Id(n)] # None /\ conf[n].ver \in 1 .. cluster'[Id(n)].ver
    <3>1. Id(n) \in Ids /\ cluster[Id(n)] # None /\ conf[n].ver \in 1 .. cluster[Id(n)].ver
      BY <2>2, <2>9, Configuration, Marks
    <3>2. QED
      BY <2>7, <3>1
  <2>10. WorldOK'
    BY <1>1, <2>2, <2>6, <2>9 DEF WorldOK, Configured, Id
  <2>11. QED
    BY <1>1, <1>3, <2>8, <2>10, RemovalSteps
<1>6. QED
  BY <1>4, <1>5 DEF Clean

-----------------------------------------------------------------------------
(* The theorems *)

LEMMA StutterKeeps == ASSUME IInv, UNCHANGED vars PROVE IInv'
<1>1. WorldOK' /\ Alike
  BY Still DEF vars, World
<1>2. ConvergeGood' /\ RoleGood' /\ RemovalGood' /\ BoundsGood'
  BY <1>1, ConvergeKept, RoleKept, RemovalKept, BoundsKept DEF vars
<1>3. QED
  BY <1>1, <1>2, Assembled

LEMMA StepKeeps == ASSUME IInv, [Next]_vars PROVE IInv'
<1>1. CASE Event
  BY <1>1, EventKeeps
<1>2. CASE Converge
  BY <1>2, BeginConvergeKeeps, PingKeeps, ProbeKeeps, MakePlanKeeps, ConfirmKeeps, ApplyKeeps DEF Converge
<1>3. CASE Role
  BY <1>3, BeginPlayKeeps, PlayProbeKeeps, FormKeeps, VersionKeeps, RefreshKeeps, VerifyKeeps
     DEF Role
<1>4. CASE Removal
  BY <1>4, BeginRemoveKeeps, RemProbeKeeps, DelnodeKeeps, CleanKeeps DEF Removal
<1>5. CASE UNCHANGED vars
  BY <1>5, StutterKeeps
<1>6. QED
  BY <1>1, <1>2, <1>3, <1>4, <1>5 DEF Next

(* What every action of hosts, converge, role and removal keeps, however they
   interleave. *)
THEOREM Invariance == Spec => []IInv
<1>1. Init => IInv
  BY InitInv
<1>2. IInv /\ [Next]_vars => IInv'
  BY StepKeeps
<1>3. QED
  BY <1>1, <1>2, PTL DEF Spec

(* The variables have their types: a host has a copy of no configuration that
   its cluster never had, a plan creates first and only on the founder. *)
THEOREM TypeCorrect == Spec => []TypeOK
<1>1. IInv => TypeOK
  <2> SUFFICES ASSUME IInv PROVE TypeOK
    OBVIOUS
  <2>1. Types /\ Configured /\ Ordered /\ Named
    BY DEF IInv
  <2>2. /\ up \subseteq Nodes /\ events \in Nat /\ jobs \in Nat
        /\ \A i \in Ids : cluster[i] = None \/ cluster[i] \in Cluster
    BY <2>1 DEF Types
  <2>3. \A n \in Nodes : conf[n] # None => /\ cluster[conf[n].id] # None
                                           /\ conf[n].ver \in 1 .. cluster[conf[n].id].ver
    BY <2>1 DEF Configured, Id
  <2>4. /\ conv.pc \in {"idle", "probe", "confirm", "apply", "complete", "refused", "failed"}
        /\ conv.seen \in [Nodes -> Seen] /\ conv.plan \in Seq(Nodes \X {"create", "add"})
    BY <2>1 DEF Types, Converging, Steps
  <2>5. /\ play.pc \in {"idle", "probe", "form", "version", "refresh", "verify", "ok", "failed"}
        /\ play.node \in Nodes \union {None}
    BY <2>1 DEF Types, Playing
  <2>6. /\ rem.pc \in {"idle", "probe", "delnode", "clean", "removed", "failed"}
        /\ rem.node \in Joiners \union {None}
    BY <2>1 DEF Types, Removing
  <2>7. QED
    BY <2>1, <2>2, <2>3, <2>4, <2>5, <2>6 DEF TypeOK, Ordered, Named
<1>2. QED
  BY <1>1, Invariance, PTL

(* A converge that completes undisturbed has every host it reached in the
   founder's cluster. *)
THEOREM ConvergeIsTrue == Spec => []ConvergeTrue
<1>1. IInv => ConvergeTrue
  BY DEF IInv
<1>2. QED
  BY <1>1, Invariance, PTL

(* A role that ends well undisturbed has its host in the creator's cluster, or
   left it untouched in the cluster of another name it was in. *)
THEOREM PlayIsTrue == Spec => []PlayTrue
<1>1. IInv => PlayTrue
  BY DEF IInv
<1>2. QED
  BY <1>1, Invariance, PTL

-----------------------------------------------------------------------------
(* CtWatchdog: the inductive invariant *)

(* A sweep is killed when its time is up. *)
InTime == pc # "idle" => elapsed <= TimeoutStart

(* The host-wide stamp is never older than the sweep of the last restart;  *)
(* once it is written for the restart under way it is as young as the      *)
(* sweep, and the last restart's sweep lies a whole cooldown further back. *)
Stamped ==
    /\ gage <= last.begun
    /\ pc \in {"forget", "stamp", "stop"} =>
           gage <= elapsed /\ last.begun - elapsed >= GlobalCooldown

(* The count on file is backed by probes that were missed, and it is gone by *)
(* the time the container is stopped.                                        *)
Counted ==
    /\ \A c \in Cts : fails[c] <= streak[c]
    /\ pc \in {"forget", "stamp", "stop"} =>
           \A c \in Cts : Reached(c) => streak[c] >= FailsRequired
    /\ pc \in {"stamp", "stop"} => \A c \in Cts : Reached(c) => fails[c] = 0

WatchInv == WatchTypeOK /\ InTime /\ Stamped /\ Counted

-----------------------------------------------------------------------------
LEMMA HorizonFar ==
    /\ Horizon \in Nat /\ TimeoutStart \in Nat /\ GlobalCooldown \in Nat
    /\ Interval \in Nat /\ FailsRequired \in Nat
    /\ Horizon >= GlobalCooldown + TimeoutStart
  BY TunablesAssumption DEF Horizon

LEMMA OlderBounds ==
    ASSUME NEW a \in 0..Horizon
    PROVE  /\ Older(a) \in 0..Horizon
           /\ Older(a) = a + 1 \/ (Older(a) = Horizon /\ a = Horizon)
  BY HorizonFar DEF Older

(* The loop is at one container at a time: VMIDs are totally ordered. *)
LEMMA OneReached ==
    ASSUME WatchTypeOK, NEW c \in Cts, NEW d \in Cts, Reached(c), Reached(d)
    PROVE  c = d
  BY CtsAssumption DEF Reached, WatchTypeOK

LEMMA WatchBegins == WatchInit => WatchInv
  BY HorizonFar, TunablesAssumption
  DEF WatchInit, WatchInv, WatchTypeOK, InTime, Stamped, Counted

-----------------------------------------------------------------------------
(* Each action keeps the types and the sweep in time. *)
LEMMA SweepTypes ==
    ASSUME WatchTypeOK, InTime, [WatchNext]_watchVars
    PROVE  WatchTypeOK' /\ InTime'
<1> USE HorizonFar DEF WatchTypeOK, InTime
<1>1. CASE StartSweep
  BY <1>1 DEF StartSweep, PctList, files
<1>2. CASE EndSweep
  BY <1>2 DEF EndSweep, files
<1>3. ASSUME NEW c \in Cts, Answer(c)
      PROVE  WatchTypeOK' /\ InTime'
  BY <1>3 DEF Answer, Probed
<1>4. ASSUME NEW c \in Cts, Miss(c)
      PROVE  WatchTypeOK' /\ InTime'
  BY <1>4 DEF Miss, Probed, Up
<1>5. ASSUME NEW c \in Cts, Defer(c)
      PROVE  WatchTypeOK' /\ InTime'
  BY <1>5 DEF Defer, files
<1>6. ASSUME NEW c \in Cts, StampGlobal(c)
      PROVE  WatchTypeOK' /\ InTime'
  BY <1>6 DEF StampGlobal
<1>7. ASSUME NEW c \in Cts, ForgetFails(c) \/ StampOwn(c)
      PROVE  WatchTypeOK' /\ InTime'
  BY <1>7 DEF ForgetFails, StampOwn
<1>8. ASSUME NEW c \in Cts, Stop(c)
      PROVE  WatchTypeOK' /\ InTime'
  BY <1>8 DEF Stop, files
<1>9. ASSUME NEW c \in Cts, Start(c)
      PROVE  WatchTypeOK' /\ InTime'
  BY <1>9 DEF Start, files
<1>10. CASE Kill
  BY <1>10 DEF Kill, files
<1>11. CASE Reboot
  BY <1>11 DEF Reboot, files
<1>12. CASE Tick
  <2>1. age' \in [Cts -> 0..Horizon] /\ gage' \in 0..Horizon
    BY <1>12, OlderBounds DEF Tick
  <2>2. last' \in [begun : 0..Horizon, late : 0..TimeoutStart]
    BY <1>12, OlderBounds DEF Tick
  <2>3. elapsed' \in 0..(Interval + TimeoutStart) /\ InTime'
    BY <1>12 DEF Tick
  <2> QED BY <1>12, <2>1, <2>2, <2>3 DEF Tick
<1>13. ASSUME NEW c \in Cts, Outside(c)
       PROVE  WatchTypeOK' /\ InTime'
  BY <1>13 DEF Outside, Wedge, Recover, PctStop, PctStart, files
<1>14. CASE UNCHANGED watchVars
  BY <1>14 DEF watchVars
<1> QED
  BY <1>1, <1>2, <1>3, <1>4, <1>5, <1>6, <1>7, <1>8, <1>9, <1>10, <1>11,
     <1>12, <1>13, <1>14 DEF WatchNext, Sweep, Handle

(* The host-wide stamp is written before the stop, and only once the limit *)
(* of the stamp before it has run out.                                     *)
LEMMA SweepStamped ==
    ASSUME WatchTypeOK, InTime, Stamped, [WatchNext]_watchVars
    PROVE  Stamped'
<1> USE HorizonFar DEF WatchTypeOK, InTime, Stamped
<1>1. CASE StartSweep \/ EndSweep \/ Kill \/ Reboot
  BY <1>1 DEF StartSweep, EndSweep, Kill, Reboot, files
<1>2. ASSUME NEW c \in Cts, Answer(c) \/ Miss(c) \/ Defer(c)
      PROVE  Stamped'
  BY <1>2 DEF Answer, Miss, Defer, Probed, files
<1>3. ASSUME NEW c \in Cts, StampGlobal(c)
      PROVE  Stamped'
  <2>1. gage - elapsed >= GlobalCooldown
    BY <1>3 DEF StampGlobal, Eligible, Since
  <2>2. gage' = elapsed /\ elapsed' = elapsed /\ last' = last
    BY <1>3 DEF StampGlobal
  <2> QED BY <2>1, <2>2
<1>4. ASSUME NEW c \in Cts, ForgetFails(c) \/ StampOwn(c)
      PROVE  Stamped'
  BY <1>4 DEF ForgetFails, StampOwn
<1>5. ASSUME NEW c \in Cts, Stop(c)
      PROVE  Stamped'
  BY <1>5 DEF Stop, files
<1>6. ASSUME NEW c \in Cts, Start(c)
      PROVE  Stamped'
  BY <1>6 DEF Start, files
<1>7. CASE Tick
  <2>1. /\ gage' = Older(gage) /\ last'.begun = Older(last.begun)
        /\ elapsed' = elapsed + 1 /\ pc' = pc
        /\ pc # "idle" => elapsed < TimeoutStart
    BY <1>7 DEF Tick
  <2>2. Older(gage) <= Older(last.begun)
    BY OlderBounds
  <2>3. ASSUME pc \in {"forget", "stamp", "stop"}
        PROVE  Older(gage) <= elapsed + 1
    BY <2>3, OlderBounds
  <2>4. ASSUME pc \in {"forget", "stamp", "stop"}
        PROVE  Older(last.begun) - (elapsed + 1) >= GlobalCooldown
    <3>1. Older(last.begun) = last.begun + 1 \/ Older(last.begun) = Horizon
      BY OlderBounds
    <3>2. elapsed + 1 <= TimeoutStart
      BY <2>1, <2>4
    <3> QED BY <2>4, <3>1, <3>2
  <2> QED BY <2>1, <2>2, <2>3, <2>4
<1>8. ASSUME NEW c \in Cts, Outside(c)
      PROVE  Stamped'
  BY <1>8 DEF Outside, Wedge, Recover, PctStop, PctStart, files
<1>9. CASE UNCHANGED watchVars
  BY <1>9 DEF watchVars
<1> QED
  BY <1>1, <1>2, <1>3, <1>4, <1>5, <1>6, <1>7, <1>8, <1>9
  DEF WatchNext, Sweep, Handle

(* A count on file never exceeds the probes missed; the container judged   *)
(* eligible is the one that is stopped.                                    *)
LEMMA SweepCounted ==
    ASSUME WatchTypeOK, Counted, [WatchNext]_watchVars
    PROVE  Counted'
<1> USE HorizonFar DEF WatchTypeOK, Counted
<1>1. CASE StartSweep \/ EndSweep \/ Kill \/ Reboot \/ Tick
  BY <1>1 DEF StartSweep, EndSweep, Kill, Reboot, Tick, Reached, files
<1>2. ASSUME NEW c \in Cts, Answer(c) \/ Miss(c)
      PROVE  Counted'
  BY <1>2 DEF Answer, Miss, Probed, Up
<1>3. ASSUME NEW c \in Cts, Defer(c)
      PROVE  Counted'
  BY <1>3 DEF Defer, files
<1>4. ASSUME NEW c \in Cts, StampGlobal(c)
      PROVE  Counted'
  <2>1. Reached(c) /\ streak[c] >= FailsRequired
    BY <1>4 DEF StampGlobal, Eligible
  <2>2. pc' = "forget" /\ UNCHANGED <<todo, fails, streak>>
    BY <1>4 DEF StampGlobal
  <2>3. ASSUME NEW d \in Cts, Reached(d)
        PROVE  streak[d] >= FailsRequired
    BY <2>1, <2>3, OneReached
  <2> QED BY <2>2, <2>3 DEF Reached
<1>5. ASSUME NEW c \in Cts, ForgetFails(c)
      PROVE  Counted'
  <2>1. /\ Reached(c) /\ pc = "forget"
        /\ fails' = [fails EXCEPT ![c] = 0]
        /\ UNCHANGED <<todo, streak>>
    BY <1>5 DEF ForgetFails
  <2>2. ASSUME NEW d \in Cts, Reached(d)
        PROVE  fails'[d] = 0
    BY <2>1, <2>2, OneReached
  <2>3. /\ \A d \in Cts : Reached(d)' <=> Reached(d)
        /\ \A d \in Cts : fails'[d] <= streak'[d]
    BY <2>1 DEF Reached
  <2> QED BY <2>1, <2>2, <2>3
<1>10. ASSUME NEW c \in Cts, StampOwn(c)
       PROVE  Counted'
  BY <1>10 DEF StampOwn, Reached
<1>6. ASSUME NEW c \in Cts, Stop(c)
      PROVE  Counted'
  <2>1. pc = "stop" /\ pc' = "start" /\ fails' = fails
    BY <1>6 DEF Stop, files
  <2>2. fails[c] = 0
    BY <1>6 DEF Stop
  <2> QED BY <2>1, <2>2, <1>6 DEF Stop
<1>7. ASSUME NEW c \in Cts, Start(c)
      PROVE  Counted'
  BY <1>7 DEF Start, files
<1>8. ASSUME NEW c \in Cts, Outside(c)
      PROVE  Counted'
  BY <1>8 DEF Outside, Wedge, Recover, PctStop, PctStart, Reached, files
<1>9. CASE UNCHANGED watchVars
  BY <1>9 DEF watchVars, Reached
<1> QED
  BY <1>1, <1>2, <1>3, <1>4, <1>5, <1>6, <1>7, <1>8, <1>9, <1>10
  DEF WatchNext, Sweep, Handle

LEMMA WatchInvariance == WatchSpec => []WatchInv
<1>1. WatchInv /\ [WatchNext]_watchVars => WatchInv'
  BY SweepTypes, SweepStamped, SweepCounted DEF WatchInv
<1> QED BY WatchBegins, <1>1, PTL DEF WatchSpec

-----------------------------------------------------------------------------
(* Every variable has its type, whatever the tunables: the ages stay below  *)
(* Horizon and no sweep outlives TimeoutStartSec (ct-watchdog.service.j2).  *)
THEOREM WatchTypeCorrect == WatchSpec => []WatchTypeOK
<1>1. WatchInv => WatchTypeOK
  BY DEF WatchInv
<1> QED BY WatchInvariance, <1>1, PTL

(* Restarts belong to sweeps that began GLOBAL_COOLDOWN_S apart, for every  *)
(* number of containers, through kills of the sweep and reboots.            *)
THEOREM PacedCorrect == WatchSpec => []RestartsPaced
<1>1. WatchInv => RestartsPaced
  BY DEF WatchInv, Stamped, RestartsPaced, Bounce, Since
<1> QED BY WatchInvariance, <1>1, PTL

(* No container is restarted before FAILS_REQUIRED probes of it in a row    *)
(* were missed.                                                             *)
THEOREM EarnedCorrect == WatchSpec => []RestartEarned
<1>1. WatchInv => RestartEarned
  BY DEF WatchInv, Counted, RestartEarned, Bounce
<1> QED BY WatchInvariance, <1>1, PTL
=============================================================================
