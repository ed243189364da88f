-------------------------- MODULE NixosDeployProofs --------------------------
(***************************************************************************)
(* What deploys that share hosts.json and the process table keep, for any  *)
(* number of terminals, hosts, addresses and declarations of the flake.    *)
(***************************************************************************)
EXTENDS NixosDeploy, FiniteSetTheorems, WellFoundedInduction, TLAPS

(* A command names its hosts when it starts, and has a work list only while *)
(* colmena copies; what it still has to copy is for hosts it names.         *)
Commands ==
    \A c \in Clis :
       /\ cli[c].pc = "idle" <=> cli[c].names = {}
       /\ cli[c].pc # "copy" => cli[c].goal = {}
       /\ \A g \in cli[c].goal : g[1] \in cli[c].names

(* Every row of an inventory, written or about to be, has addresses of its *)
(* host: the second is the declared one, which no patch touches.           *)
Internals(h) == {m[h].internal : m \in {n \in Manifests : n[h] # Absent}}
Owned(t) ==
    \A h \in Hosts : t[h] # Absent => t[h].ip \in Known(h) /\ t[h].internal \in Internals(h)
Inventories ==
    /\ inv # Torn => Owned(inv)
    /\ \A c \in Clis : cli[c].view # Torn => Owned(cli[c].view)

(* Where the flake sends a copy, planned or under way. *)
Destinations ==
    /\ CopiesWhereDeclared
    /\ \A c \in Clis : \A g \in cli[c].goal : g[2] \in Declared(g[1])

(* The declaration of an honest host has not changed: copies to it, planned, *)
(* under way or seen in a snapshot, go to the address hosts.json lists.      *)
Aligned(p) == p.kind = "copy" /\ p.host \in honest => p.addr = Target(src[p.host])
Honest ==
    /\ \A h \in honest : Listed(h)
    /\ \A p \in procs : Aligned(p)
    /\ \A c \in Clis : \A p \in cli[c].snap : Aligned(p)
    /\ \A c \in Clis : \A g \in cli[c].goal : g[1] \in honest => g[2] = Target(src[g[1]])

(* Past its check, a deploy has seen no copy to an honest host it names, *)
(* and only a deploy past its check has copies.                          *)
Sees(c, h) == \E q \in cli[c].snap : q.kind = "copy" /\ q.host = h
Unseen ==
    /\ \A c \in Clis :
          cli[c].pc \in {"read", "patchTruncate", "patchPut", "launch", "eval", "copy"} =>
             \A h \in cli[c].names \intersect honest : ~Sees(c, h)
    /\ \A p \in procs : p.kind = "copy" =>
          /\ cli[p.owner].pc \in {"copy", "done"}
          /\ p.host \in honest => ~Sees(p.owner, p.host)

IInv == TypeOK /\ Commands /\ Inventories /\ Destinations /\ Honest /\ Unseen

-----------------------------------------------------------------------------
(* An inventory row that is there is a record of addresses. *)
LEMMA Rows ==
    ASSUME NEW t \in Table, NEW h \in Hosts, t[h] # Absent
    PROVE  t[h] \in [ip : Address, internal : Address]
  BY DEF Table, Entry

LEMMA DiscoveredIsTable ==
    ASSUME NEW t \in Table
    PROVE  Discovered(t) \in Table
  BY ManifestAssumption DEF Discovered, Table, Entry

LEMMA TargetIsAddress ==
    ASSUME NEW t \in Table, NEW h \in Hosts
    PROVE  Target(t[h]) \in Address
  BY DEF Target, Table, Entry, Address

(* What a step of terminal c leaves alone. *)
Alone(c) == \A d \in Clis \ {c} : cli'[d] = cli[d]
Keeps(c) ==
    /\ cli' \in [Clis -> Cli] /\ Alone(c)
    /\ cli'[c].op = cli[c].op /\ cli'[c].names = cli[c].names /\ cli'[c].ip = cli[c].ip

LEMMA Replaced ==
    ASSUME TypeOK, NEW c \in Clis, NEW r \in Cli, cli' = [cli EXCEPT ![c] = r]
    PROVE  cli' \in [Clis -> Cli] /\ Alone(c) /\ cli'[c] = r
  BY DEF TypeOK, Alone

(* The ways in which an action changes its terminal. *)
LEMMA GotoEffect ==
    ASSUME TypeOK, NEW c \in Clis, NEW pc \in Pcs, Goto(c, pc)
    PROVE  /\ Keeps(c) /\ cli'[c].pc = pc /\ cli'[c].snap = cli[c].snap
           /\ cli'[c].view \in {cli[c].view, Torn}
           /\ cli'[c].goal = IF pc = "copy" THEN cli[c].goal ELSE {}
           /\ pc \in {"put", "patchPut"} => cli'[c].view = cli[c].view
<1> DEFINE r == [cli[c] EXCEPT !.pc = pc,
                               !.view = IF pc \in {"put", "patchPut"} THEN @ ELSE Torn,
                               !.goal = IF pc = "copy" THEN @ ELSE {}]
<1>1. cli[c] \in Cli /\ cli \in [Clis -> Cli]
  BY DEF TypeOK
<1>2. r \in Cli /\ cli' = [cli EXCEPT ![c] = r]
  BY <1>1 DEF Cli, Goto
<1>3. Alone(c) /\ cli'[c] = r /\ cli' \in [Clis -> Cli]
  BY <1>2, Replaced
<1> QED BY <1>1, <1>3 DEF Cli, Keeps

LEMMA ViewEffect ==
    ASSUME TypeOK, NEW c \in Clis, NEW pc \in Pcs, NEW t \in Table,
           cli' = [cli EXCEPT ![c].view = t, ![c].pc = pc]
    PROVE  /\ Keeps(c) /\ cli'[c].pc = pc /\ cli'[c].snap = cli[c].snap
           /\ cli'[c].view = t /\ cli'[c].goal = cli[c].goal
<1> DEFINE r == [cli[c] EXCEPT !.view = t, !.pc = pc]
<1>1. cli[c] \in Cli /\ cli \in [Clis -> Cli]
  BY DEF TypeOK
<1>2. r \in Cli /\ cli' = [cli EXCEPT ![c] = r]
  BY <1>1 DEF Cli
<1>3. Alone(c) /\ cli'[c] = r /\ cli' \in [Clis -> Cli]
  BY <1>2, Replaced
<1> QED BY <1>1, <1>3 DEF Cli, Keeps

LEMMA SnapEffect ==
    ASSUME TypeOK, NEW c \in Clis, NEW pc \in Pcs,
           cli' = [cli EXCEPT ![c].snap = procs, ![c].pc = pc]
    PROVE  /\ Keeps(c) /\ cli'[c].pc = pc /\ cli'[c].snap = procs
           /\ cli'[c].view = cli[c].view /\ cli'[c].goal = cli[c].goal
<1> DEFINE r == [cli[c] EXCEPT !.snap = procs, !.pc = pc]
<1>1. cli[c] \in Cli /\ cli \in [Clis -> Cli] /\ procs \in SUBSET Procs
  BY DEF TypeOK
<1>2. r \in Cli /\ cli' = [cli EXCEPT ![c] = r]
  BY <1>1 DEF Cli
<1>3. Alone(c) /\ cli'[c] = r /\ cli' \in [Clis -> Cli]
  BY <1>2, Replaced
<1> QED BY <1>1, <1>3 DEF Cli, Keeps

LEMMA GoalEffect ==
    ASSUME TypeOK, NEW c \in Clis, NEW pc \in Pcs, NEW G \in SUBSET (Hosts \X Addrs),
           cli' = [cli EXCEPT ![c].pc = pc, ![c].goal = G]
    PROVE  /\ Keeps(c) /\ cli'[c].pc = pc /\ cli'[c].snap = cli[c].snap
           /\ cli'[c].view = cli[c].view /\ cli'[c].goal = G
<1> DEFINE r == [cli[c] EXCEPT !.pc = pc, !.goal = G]
<1>1. cli[c] \in Cli /\ cli \in [Clis -> Cli]
  BY DEF TypeOK
<1>2. r \in Cli /\ cli' = [cli EXCEPT ![c] = r]
  BY <1>1 DEF Cli
<1>3. Alone(c) /\ cli'[c] = r /\ cli' \in [Clis -> Cli]
  BY <1>2, Replaced
<1> QED BY <1>1, <1>3 DEF Cli, Keeps

LEMMA EvaluateEffect ==
    ASSUME TypeOK, NEW c \in Clis, Evaluate(c)
    PROVE  /\ Keeps(c) /\ cli'[c].pc = "copy" /\ cli'[c].snap = cli[c].snap
           /\ cli'[c].view = cli[c].view
           /\ \A g \in cli'[c].goal : g[1] \in cli[c].names /\ g[2] = Target(src[g[1]])
<1> DEFINE G == {<<h, Target(src[h])>> : h \in {n \in cli[c].names : Target(src[n]) # NoAddr}}
<1>1. cli[c].names \subseteq Hosts /\ src \in Table
  BY ManifestAssumption DEF TypeOK, Cli
<1>2. G \in SUBSET (Hosts \X Addrs)
  BY <1>1, TargetIsAddress DEF Address
<1>3. cli' = [cli EXCEPT ![c].pc = "copy", ![c].goal = G]
  BY DEF Evaluate
<1>4. \A g \in G : g[1] \in cli[c].names /\ g[2] = Target(src[g[1]])
  OBVIOUS
<1>5. "copy" \in Pcs
  BY DEF Pcs
<1> HIDE DEF G
<1>6. /\ Keeps(c) /\ cli'[c].pc = "copy" /\ cli'[c].snap = cli[c].snap
      /\ cli'[c].view = cli[c].view /\ cli'[c].goal = G
  BY ONLY <1>2, <1>3, <1>5, GoalEffect, TypeOK, c \in Clis
<1> QED BY <1>4, <1>6

LEMMA CopyStartEffect ==
    ASSUME TypeOK, NEW c \in Clis, CopyStart(c)
    PROVE  /\ Keeps(c) /\ cli'[c].pc = "copy" /\ cli'[c].snap = cli[c].snap
           /\ cli'[c].view = cli[c].view /\ cli'[c].goal \subseteq cli[c].goal
           /\ \E g \in cli[c].goal : /\ g \in Hosts \X Addrs
                                     /\ procs' = procs \union {Copy(c, g[1], g[2])}
<1>1. PICK g \in cli[c].goal : /\ procs' = procs \union {Copy(c, g[1], g[2])}
                               /\ cli' = [cli EXCEPT ![c].goal = @ \ {g}]
  BY DEF CopyStart
<1>2. cli[c].goal \in SUBSET (Hosts \X Addrs) /\ cli[c].pc = "copy"
  BY DEF TypeOK, Cli, CopyStart
<1> DEFINE G == cli[c].goal \ {g}
<1>3. cli' = [cli EXCEPT ![c].pc = "copy", ![c].goal = G]
  BY <1>1, <1>2 DEF TypeOK, Cli
<1>4. "copy" \in Pcs /\ G \in SUBSET (Hosts \X Addrs)
  BY <1>2 DEF Pcs
<1>5. g \in Hosts \X Addrs /\ G \subseteq cli[c].goal
  BY <1>2
<1> HIDE DEF G
<1>6. /\ Keeps(c) /\ cli'[c].pc = "copy" /\ cli'[c].snap = cli[c].snap
      /\ cli'[c].view = cli[c].view /\ cli'[c].goal = G
  BY ONLY <1>3, <1>4, GoalEffect, TypeOK, c \in Clis
<1> QED BY <1>1, <1>5, <1>6

(* Both kinds of command begin by noting what they were asked. *)
Begun(c) ==
    /\ cli' \in [Clis -> Cli] /\ Alone(c)
    /\ cli[c].pc = "idle" /\ cli'[c].pc \in {"snap", "refresh", "resetRead"}
    /\ cli'[c].names \in Names /\ cli'[c].snap = cli[c].snap
    /\ cli'[c].view = cli[c].view /\ cli'[c].goal = cli[c].goal

LEMMA StartEffect ==
    ASSUME TypeOK, NEW c \in Clis, NEW op \in {"host", "remote", "tag"}, NEW names \in Names,
           NEW ip \in Overrides \union {NoAddr}, NEW f \in BOOLEAN, Start(c, op, names, ip, f)
    PROVE  Begun(c)
<1> DEFINE r == [cli[c] EXCEPT !.pc = IF f THEN "snap" ELSE "refresh", !.op = op,
                               !.names = names, !.ip = ip, !.flag = f]
<1>1. cli[c] \in Cli /\ cli \in [Clis -> Cli] /\ ip \in Address /\ names \in SUBSET Hosts
  BY ManifestAssumption DEF TypeOK, Address, Names
<1>2. r \in Cli /\ cli' = [cli EXCEPT ![c] = r]
  BY <1>1 DEF Cli, Pcs, Start
<1>3. Alone(c) /\ cli'[c] = r /\ cli' \in [Clis -> Cli]
  BY <1>2, Replaced
<1> QED BY <1>1, <1>3 DEF Cli, Begun, Start

LEMMA ResetStartEffect ==
    ASSUME TypeOK, NEW c \in Clis, NEW names \in Names, NEW f \in BOOLEAN,
           ResetStart(c, names, f)
    PROVE  Begun(c)
<1> DEFINE r == [cli[c] EXCEPT !.pc = "resetRead", !.op = "reset",
                               !.names = names, !.flag = f]
<1>1. cli[c] \in Cli /\ cli \in [Clis -> Cli] /\ names \in SUBSET Hosts
  BY DEF TypeOK, Names
<1>2. r \in Cli /\ cli' = [cli EXCEPT ![c] = r]
  BY <1>1 DEF Cli, Pcs, ResetStart
<1>3. Alone(c) /\ cli'[c] = r /\ cli' \in [Clis -> Cli]
  BY <1>2, Replaced
<1> QED BY <1>1, <1>3 DEF Cli, Begun, ResetStart

(* The first candidate that answers is a candidate that answers. *)
Below == {ij \in Nat \X Nat : ij[1] < ij[2]}

LEMMA BelowWellFounded == IsWellFoundedOn(Below, Nat)
  BY NatLessThanWellFounded, Zenon DEF OpToRel, Below

LEMMA LeastOf ==
    ASSUME NEW T \in SUBSET Nat, T # {}
    PROVE  \E i \in T : \A j \in T : i <= j
<1>1. PICK i \in T : \A j \in T : ~(<<j, i>> \in Below)
  BY BelowWellFounded, WFMin
<1>2. ASSUME NEW j \in T PROVE i <= j
  <2>1. i \in Nat /\ j \in Nat /\ <<j, i>> \notin Below
    BY <1>1
  <2>2. ~(j < i)
    BY <2>1 DEF Below
  <2> QED BY <2>1, <2>2
<1> QED BY <1>2

LEMMA FirstReachableHits ==
    ASSUME NEW seq, DOMAIN seq \subseteq Nat, NEW reach
    PROVE  \/ FirstReachable(seq, reach) = NoAddr
           \/ /\ FirstReachable(seq, reach) \in reach
              /\ \E i \in DOMAIN seq : FirstReachable(seq, reach) = seq[i]
<1> DEFINE hits == {i \in DOMAIN seq : seq[i] \in reach}
<1>1. CASE hits = {}
  BY <1>1 DEF FirstReachable
<1>2. CASE hits # {}
  <2>1. \E i \in hits : \A j \in hits : i <= j
    BY <1>2, LeastOf
  <2>2. (CHOOSE i \in hits : \A j \in hits : i <= j) \in hits
    BY <2>1
  <2>3. FirstReachable(seq, reach) = seq[CHOOSE i \in hits : \A j \in hits : i <= j]
    BY <1>2 DEF FirstReachable
  <2> QED BY <2>2, <2>3
<1> QED BY <1>1, <1>2
(* The row a patch leaves: the internal address stays, the other one is a *)
(* candidate of the host, or what the operator gave for this host alone.  *)
Given(c, h) == IF cli[c].names = {h} THEN {cli[c].ip} ELSE {}
Fallbacks(h) == {DeployIps[h][i] : i \in DOMAIN DeployIps[h]}
Patch(c, t) ==
    /\ t \in Table /\ inv # Torn
    /\ cli' = [cli EXCEPT ![c].view = t, ![c].pc = "patchTruncate"]
    /\ \A h \in Hosts :
          \/ t[h] = inv[h]
          \/ /\ inv[h] # Absent /\ t[h].internal = inv[h].internal
             /\ t[h].ip \in {inv[h].internal} \union Fallbacks(h) \union Given(c, h)

LEMMA PickIsCandidate ==
    ASSUME NEW h \in Hosts, NEW e \in [ip : Address, internal : Address],
           NEW reach \in SUBSET Addrs,
           FirstReachable(Candidates(h, e), reach) \notin {NoAddr, e.ip}
    PROVE  /\ FirstReachable(Candidates(h, e), reach) \in Addrs
           /\ FirstReachable(Candidates(h, e), reach) \in {e.internal} \union Fallbacks(h)
<1> DEFINE s == Candidates(h, e)
<1>1. DeployIps[h] \in Seq(Addrs) /\ e.ip \in Address /\ e.internal \in Address
  BY ManifestAssumption
<1>2. /\ DOMAIN s \subseteq Nat
      /\ \A i \in DOMAIN s : s[i] \in {e.ip, e.internal} \union Fallbacks(h)
  <2>1. DeployIps[h] \in Seq(Address)
    BY <1>1 DEF Address
  <2>2. /\ s \in Seq(Address)
        /\ Len(s) = Len(DeployIps[h]) + 2
        /\ \A i \in 1..Len(s) : s[i] = IF i = 1 THEN e.ip
                                       ELSE IF i = Len(s) THEN e.internal
                                       ELSE DeployIps[h][i - 1]
    BY <1>1, <2>1 DEF Candidates
  <2>3. ASSUME NEW i \in 1..Len(s), i # 1, i # Len(s)
        PROVE  DeployIps[h][i - 1] \in Fallbacks(h)
    <3>1. i - 1 \in DOMAIN DeployIps[h]
      BY <2>1, <2>2, <2>3
    <3> QED BY <3>1 DEF Fallbacks
  <2> HIDE DEF s
  <2> QED BY <2>2, <2>3
<1>3. FirstReachable(s, reach) \in reach /\ \E i \in DOMAIN s : FirstReachable(s, reach) = s[i]
  <2> HIDE DEF s
  <2>1. FirstReachable(s, reach) # NoAddr
    BY DEF s
  <2> QED BY <1>2, <2>1, FirstReachableHits
<1> QED BY <1>2, <1>3

LEMMA OverrideEffect ==
    ASSUME TypeOK, Commands, NEW c \in Clis, Override(c)
    PROVE  (\E pc \in {"launch", "crash"} : Goto(c, pc)) \/ (\E t : Patch(c, t))
<1>1. CASE Cardinality(cli[c].names) > 1 \/ inv = Torn
  BY <1>1 DEF Override
<1>2. CASE ~(Cardinality(cli[c].names) > 1) /\ inv # Torn
  <2> DEFINE h == CHOOSE n \in cli[c].names : TRUE
             t == [inv EXCEPT ![h].ip = cli[c].ip]
  <2>1. cli[c].names \subseteq Hosts /\ cli[c].ip \in Address
    BY DEF TypeOK, Cli
  <2>2. cli[c].pc = "read" /\ cli[c].names # {} /\ h \in cli[c].names
    BY DEF Override, Commands
  <2>3. cli[c].names = {h}
    <3>1. IsFiniteSet(cli[c].names)
      BY <2>1, HostsAssumption, FS_Subset
    <3>2. Cardinality(cli[c].names) = 1
      BY <1>2, <2>2, <3>1, FS_EmptySet, FS_CardinalityType
    <3> QED BY <2>2, <3>1, <3>2, FS_Singleton
  <2>4. inv \in Table
    BY <1>2 DEF TypeOK
  <2>5. CASE inv[h] = Absent
    BY <1>2, <2>5 DEF Override
  <2>6. CASE inv[h] # Absent
    <3>1. inv[h] \in [ip : Address, internal : Address]
      BY <2>1, <2>2, <2>4, <2>6, Rows
    <3>2. /\ t \in Table
          /\ t[h].internal = inv[h].internal /\ t[h].ip = cli[c].ip
          /\ \A n \in Hosts \ {h} : t[n] = inv[n]
      BY <2>1, <2>2, <2>4, <3>1 DEF Table, Entry
    <3>3. cli' = [cli EXCEPT ![c].view = t, ![c].pc = "patchTruncate"]
      BY <1>2, <2>6 DEF Override
    <3> HIDE DEF h, t
    <3>4. Patch(c, t)
      BY <1>2, <2>3, <2>6, <3>2, <3>3 DEF Patch, Given
    <3> QED BY <3>4
  <2> QED BY <2>5, <2>6
<1> QED BY <1>1, <1>2

LEMMA ProbeEffect ==
    ASSUME TypeOK, NEW c \in Clis, Probe(c)
    PROVE  Goto(c, "launch") \/ (\E t : Patch(c, t))
<1>1. PICK reach \in SUBSET Addrs :
         LET pick(h) == FirstReachable(Candidates(h, inv[h]), reach)
             moved == IF inv = Torn THEN {}
                      ELSE {h \in cli[c].names : /\ inv[h] # Absent /\ DeployIps[h] # <<>>
                                                 /\ pick(h) \notin {NoAddr, inv[h].ip}}
         IN  IF moved = {} THEN Goto(c, "launch")
             ELSE cli' = [cli EXCEPT
                    ![c].view = [h \in Hosts |-> IF h \in moved
                                                 THEN [inv[h] EXCEPT !.ip = pick(h)]
                                                 ELSE inv[h]],
                    ![c].pc = "patchTruncate"]
  BY DEF Probe
<1> DEFINE pick(h) == FirstReachable(Candidates(h, inv[h]), reach)
           moved == IF inv = Torn THEN {}
                    ELSE {h \in cli[c].names : /\ inv[h] # Absent /\ DeployIps[h] # <<>>
                                               /\ pick(h) \notin {NoAddr, inv[h].ip}}
           t == [h \in Hosts |-> IF h \in moved THEN [inv[h] EXCEPT !.ip = pick(h)]
                                 ELSE inv[h]]
<1>2. CASE moved = {}
  BY <1>1, <1>2
<1>3. CASE moved # {}
  <2>1. inv # Torn /\ inv \in Table
    BY <1>3 DEF TypeOK
  <2>2. cli' = [cli EXCEPT ![c].view = t, ![c].pc = "patchTruncate"]
    BY <1>1, <1>3
  <2>3. ASSUME NEW h \in Hosts, h \in moved
        PROVE  /\ t[h] \in [ip : Address, internal : Address]
               /\ inv[h] # Absent /\ t[h].internal = inv[h].internal
               /\ t[h].ip \in {inv[h].internal} \union Fallbacks(h)
    <3>1. inv[h] # Absent /\ pick(h) \notin {NoAddr, inv[h].ip}
      BY <2>1, <2>3
    <3>2. inv[h] \in [ip : Address, internal : Address]
      BY <2>1, <3>1, Rows
    <3>3. pick(h) \in Addrs /\ pick(h) \in {inv[h].internal} \union Fallbacks(h)
      BY <3>1, <3>2, PickIsCandidate
    <3>4. t[h] = [inv[h] EXCEPT !.ip = pick(h)]
      BY <2>3
    <3> HIDE DEF pick, moved, t
    <3> QED BY <3>1, <3>2, <3>3, <3>4 DEF Address
  <2>4. ASSUME NEW h \in Hosts, h \notin moved
        PROVE  t[h] = inv[h]
    BY <2>4
  <2>5. t \in Table
    <3>1. t = [h \in Hosts |-> t[h]]
      OBVIOUS
    <3>2. \A h \in Hosts : t[h] \in Entry
      <4> HIDE DEF t, moved
      <4> QED BY <2>1, <2>3, <2>4 DEF Table, Entry
    <3> HIDE DEF t
    <3> QED BY <3>1, <3>2 DEF Table
  <2> HIDE DEF t, moved, pick
  <2>6. Patch(c, t)
    BY <2>1, <2>2, <2>3, <2>4, <2>5 DEF Patch
  <2> QED BY <2>6
<1> QED BY <1>2, <1>3

-----------------------------------------------------------------------------
LEMMA InitIInv == Init => IInv
<1> SUFFICES ASSUME Init PROVE IInv
  OBVIOUS
<1>1. TypeOK
  BY ManifestAssumption
  DEF Init, TypeOK, Cli, Pcs, Address
<1>2. Commands /\ Honest /\ Unseen /\ Destinations
  BY DEF Init, Commands, Honest, Unseen, Destinations, CopiesWhereDeclared, Sees
<1>3. Owned(inv) /\ \A c \in Clis : cli[c].view = Torn
  BY DEF Init, Owned, Known, Internals
<1> QED BY <1>1, <1>2, <1>3 DEF IInv, Inventories

(* Every field keeps its type. *)
LEMMA NextTypes ==
    ASSUME TypeOK, Commands, [Next]_vars
    PROVE  TypeOK'
<1> DEFINE Typed == /\ src' \in Manifests /\ inv' \in Table \union {Torn}
                    /\ procs' \subseteq Procs /\ cli' \in [Clis -> Cli]
                    /\ killed' \subseteq (SUBSET Hosts) \X Hosts
<1> SUFFICES ASSUME Next PROVE Typed
  BY DEF vars, TypeOK, Next
<1>1. ASSUME NEW c \in Clis, cli' \in [Clis -> Cli], UNCHANGED <<src, inv, procs, killed>>
      PROVE  Typed
  BY <1>1 DEF TypeOK
<1>2. ASSUME NEW c \in Clis, NEW op \in {"host", "remote", "tag"}, NEW n \in Names,
             NEW ip \in Overrides \union {NoAddr}, NEW f \in BOOLEAN, Start(c, op, n, ip, f)
      PROVE  Typed
  BY <1>1, <1>2, StartEffect DEF Begun, Start
<1>3. ASSUME NEW c \in Clis, Refresh(c)
      PROVE  Typed
  <2>1. src \in Table /\ Discovered(src) \in Table
    BY ManifestAssumption, DiscoveredIsTable DEF TypeOK
  <2>2. cli' \in [Clis -> Cli]
    BY <1>3, <2>1, ViewEffect, GotoEffect DEF Refresh, Pcs, Keeps
  <2> QED BY <1>1, <1>3, <2>2 DEF Refresh
<1>4. ASSUME NEW c \in Clis, Truncate(c)
      PROVE  Typed
  BY <1>4, GotoEffect DEF Truncate, Pcs, Keeps, TypeOK
<1>5. ASSUME NEW c \in Clis, Put(c)
      PROVE  Typed
  <2>1. cli[c].view \in Table \union {Torn}
    BY DEF TypeOK, Cli
  <2> QED BY <1>5, <2>1, GotoEffect DEF Put, Pcs, Keeps, TypeOK
<1>6. ASSUME NEW c \in Clis, CheckSnap(c) \/ ResetSnap(c)
      PROVE  Typed
  BY <1>1, <1>6, SnapEffect DEF CheckSnap, ResetSnap, Pcs, Keeps
<1>7. ASSUME NEW c \in Clis, Check(c)
      PROVE  Typed
  <2>1. \E pc \in {"crash", "conflict", "read", "launch"} : Goto(c, pc)
    BY <1>7 DEF Check
  <2> QED BY <1>1, <1>7, <2>1, GotoEffect DEF Check, Pcs, Keeps
<1>8. ASSUME NEW c \in Clis, Override(c) \/ Probe(c)
      PROVE  Typed
  <2>1. (\E pc \in {"launch", "crash"} : Goto(c, pc)) \/ (\E t : Patch(c, t))
    BY <1>8, OverrideEffect, ProbeEffect
  <2>2. cli' \in [Clis -> Cli]
    BY <2>1, GotoEffect, ViewEffect DEF Pcs, Keeps, Patch
  <2> QED BY <1>1, <1>8, <2>2 DEF Override, Probe
<1>9. ASSUME NEW c \in Clis, Launch(c)
      PROVE  Typed
  <2>1. Colmena(c) \in Procs
    BY DEF Procs
  <2> QED BY <1>9, <2>1, GotoEffect DEF Launch, Pcs, Keeps, TypeOK
<1>10. ASSUME NEW c \in Clis, Evaluate(c)
       PROVE  Typed
  BY <1>1, <1>10, EvaluateEffect DEF Evaluate, Keeps
<1>11. ASSUME NEW c \in Clis, CopyStart(c)
       PROVE  Typed
  <2>1. PICK g \in Hosts \X Addrs : procs' = procs \union {Copy(c, g[1], g[2])}
    BY <1>11, CopyStartEffect
  <2>2. Copy(c, g[1], g[2]) \in Procs
    BY DEF Procs
  <2> QED BY <1>11, <2>1, <2>2, CopyStartEffect DEF CopyStart, Keeps, TypeOK
<1>12. CASE CopyEnd
  BY <1>12 DEF CopyEnd, TypeOK
<1>13. ASSUME NEW c \in Clis, Finish(c) \/ Kill(c)
       PROVE  Typed
  BY <1>13, GotoEffect DEF Finish, Kill, Pcs, Keeps, TypeOK
<1>14. CASE Redeclare
  BY <1>14 DEF Redeclare, TypeOK
<1>15. ASSUME NEW c \in Clis, NEW n \in Names, NEW f \in BOOLEAN, ResetStart(c, n, f)
       PROVE  Typed
  BY <1>1, <1>15, ResetStartEffect DEF Begun, ResetStart
<1>16. ASSUME NEW c \in Clis, ResetRead(c)
       PROVE  Typed
  BY <1>1, <1>16, GotoEffect, ViewEffect DEF ResetRead, Pcs, Keeps, TypeOK
<1>17. ASSUME NEW c \in Clis, ResetKill(c)
       PROVE  Typed
  <2>1. cli' \in [Clis -> Cli] /\ procs' \subseteq procs
    BY <1>17, GotoEffect DEF ResetKill, Pcs, Keeps
  <2>2. \A p \in procs : p.kind = "copy" => p.host \in Hosts
    BY DEF TypeOK, Procs, Copy, Colmena
  <2>3. killed' \subseteq (SUBSET Hosts) \X Hosts
    <3>1. cli[c].names \in SUBSET Hosts
      BY DEF TypeOK, Cli
    <3> QED BY <1>17, <2>2, <3>1 DEF ResetKill, ProcessesFor, TypeOK
  <2> QED BY <1>17, <2>1, <2>3 DEF ResetKill, TypeOK
<1>18. ASSUME NEW c \in Clis, ResetRemote(c)
       PROVE  Typed
  BY <1>18, GotoEffect DEF ResetRemote, Pcs, Keeps, TypeOK
<1> QED
  BY <1>2, <1>3, <1>4, <1>5, <1>6, <1>7, <1>8, <1>9, <1>10, <1>11, <1>12, <1>13,
     <1>14, <1>15, <1>16, <1>17, <1>18 DEF Next, Deploy, Reset

-----------------------------------------------------------------------------
(* The steps, as far as the invariant tells them apart. *)
Late == {"read", "patchTruncate", "patchPut", "launch", "eval", "copy"}
Passed(c) == cli[c].pc = "check" /\ (cli[c].op # "tag" => inv # Torn) /\ ~Conflict(c)
Begins(c) == Begun(c) /\ UNCHANGED <<src, inv, procs>>
Looks(c) ==
    /\ Keeps(c) /\ UNCHANGED <<src, inv, procs>>
    /\ cli[c].pc \in {"snap", "resetSnap"} /\ cli'[c].pc \in {"check", "resetKill"}
    /\ cli'[c].snap = procs /\ cli'[c].view = cli[c].view /\ cli'[c].goal = {}
Goes(c) ==
    /\ Keeps(c) /\ src' = src
    /\ cli[c].pc \notin {"idle", "done"} /\ cli'[c].pc \notin {"idle", "copy"}
    /\ cli[c].pc = "copy" => cli'[c].pc = "done"
    /\ cli'[c].pc \in Late => cli[c].pc \in Late \/ Passed(c)
    /\ cli'[c].snap = cli[c].snap /\ cli'[c].goal = {}
    /\ procs' \subseteq procs \union {Colmena(c)}
    /\ inv' \in {inv, Torn, cli[c].view}
    /\ \/ cli'[c].view \in {cli[c].view, Torn, src, Discovered(src), inv}
       \/ Patch(c, cli'[c].view)

LEMMA Shapes ==
    ASSUME TypeOK, Commands, Next
    PROVE  \/ \E c \in Clis : Begins(c) \/ Looks(c) \/ Goes(c)
           \/ \E c \in Clis : Evaluate(c) \/ CopyStart(c)
           \/ CopyEnd \/ Redeclare
<1> DEFINE Shaped(c) == Begins(c) \/ Looks(c) \/ Goes(c)
<1>1. ASSUME NEW c \in Clis, NEW op \in {"host", "remote", "tag"}, NEW n \in Names,
             NEW ip \in Overrides \union {NoAddr}, NEW f \in BOOLEAN, Start(c, op, n, ip, f)
      PROVE  Shaped(c)
  BY <1>1, StartEffect DEF Begins, Start
<1>2. ASSUME NEW c \in Clis, NEW n \in Names, NEW f \in BOOLEAN, ResetStart(c, n, f)
      PROVE  Shaped(c)
  BY <1>2, ResetStartEffect DEF Begins, ResetStart
<1>3. ASSUME NEW c \in Clis, CheckSnap(c) \/ ResetSnap(c)
      PROVE  Shaped(c)
  BY <1>3, SnapEffect DEF CheckSnap, ResetSnap, Looks, Commands, Pcs
<1>4. ASSUME NEW c \in Clis, NEW pc \in Pcs \ {"idle", "copy"}, Goto(c, pc),
             src' = src, procs' \subseteq procs \union {Colmena(c)},
             inv' \in {inv, Torn, cli[c].view},
             cli[c].pc \notin {"idle", "done"}, cli[c].pc = "copy" => pc = "done",
             pc \in Late => cli[c].pc \in Late \/ Passed(c)
      PROVE  Shaped(c)
  BY <1>4, GotoEffect DEF Goes
<1>5. ASSUME NEW c \in Clis, NEW pc \in Pcs \ {"idle", "copy"}, NEW t \in Table,
             cli' = [cli EXCEPT ![c].view = t, ![c].pc = pc],
             UNCHANGED <<src, inv, procs>>,
             cli[c].pc \notin {"idle", "copy", "done"}, pc \in Late => cli[c].pc \in Late,
             t \in {src, Discovered(src), inv} \/ Patch(c, t)
      PROVE  Shaped(c)
  <2>1. /\ Keeps(c) /\ cli'[c].pc = pc /\ cli'[c].snap = cli[c].snap
        /\ cli'[c].view = t /\ cli'[c].goal = cli[c].goal
    BY ONLY <1>5, ViewEffect, TypeOK
  <2>2. cli'[c].goal = {}
    BY <1>5, <2>1 DEF Commands
  <2> QED BY <1>5, <2>1, <2>2 DEF Goes
<1>6. ASSUME NEW c \in Clis, Refresh(c)
      PROVE  Shaped(c)
  <2>1. src \in Table /\ Discovered(src) \in Table
    BY ManifestAssumption, DiscoveredIsTable DEF TypeOK
  <2> QED BY <1>4, <1>5, <1>6, <2>1 DEF Refresh, Late, Pcs
<1>7. ASSUME NEW c \in Clis, Truncate(c) \/ Put(c)
      PROVE  Shaped(c)
  BY <1>4, <1>7 DEF Truncate, Put, Late, Pcs
<1>8. ASSUME NEW c \in Clis, Check(c)
      PROVE  Shaped(c)
  BY <1>4, <1>8 DEF Check, Late, Passed, Pcs
<1>9. ASSUME NEW c \in Clis, Override(c) \/ Probe(c)
      PROVE  Shaped(c)
  <2>1. (\E pc \in {"launch", "crash"} : Goto(c, pc)) \/ (\E t : Patch(c, t))
    BY <1>9, OverrideEffect, ProbeEffect
  <2>2. UNCHANGED <<src, inv, procs>> /\ cli[c].pc = "read"
    BY <1>9 DEF Override, Probe
  <2>3. CASE \E pc \in {"launch", "crash"} : Goto(c, pc)
    BY <1>4, <2>2, <2>3 DEF Late, Pcs
  <2>4. ASSUME NEW t, Patch(c, t)
        PROVE  Shaped(c)
    BY <1>5, <2>2, <2>4 DEF Patch, Late, Pcs
  <2> QED BY <2>1, <2>3, <2>4
<1>10. ASSUME NEW c \in Clis, Launch(c) \/ Finish(c) \/ Kill(c)
       PROVE  Shaped(c)
  BY <1>4, <1>10 DEF Launch, Finish, Kill, Late, Pcs
<1>11. ASSUME NEW c \in Clis, ResetRead(c)
       PROVE  Shaped(c)
  BY <1>4, <1>5, <1>11 DEF ResetRead, Late, Pcs, TypeOK
<1>12. ASSUME NEW c \in Clis, ResetKill(c) \/ ResetRemote(c)
       PROVE  Shaped(c)
  BY <1>4, <1>12 DEF ResetKill, ResetRemote, Late, Pcs
<1> QED
  BY <1>1, <1>2, <1>3, <1>6, <1>7, <1>8, <1>9, <1>10, <1>11, <1>12
  DEF Next, Deploy, Reset

LEMMA NextCommands ==
    ASSUME TypeOK, Commands, [Next]_vars
    PROVE  Commands'
<1> SUFFICES ASSUME Next PROVE Commands'
  BY DEF Commands, vars
<1>1. ASSUME NEW c \in Clis, Begins(c)
      PROVE  Commands'
  BY <1>1 DEF Begins, Begun, Alone, Commands, Names
<1>2. ASSUME NEW c \in Clis, Looks(c) \/ Goes(c)
      PROVE  Commands'
  BY <1>2 DEF Looks, Goes, Keeps, Alone, Commands
<1>3. ASSUME NEW c \in Clis, Evaluate(c)
      PROVE  Commands'
  <2>1. cli[c].pc = "eval"
    BY <1>3 DEF Evaluate
  <2> QED BY <1>3, <2>1, EvaluateEffect DEF Keeps, Alone, Commands
<1>4. ASSUME NEW c \in Clis, CopyStart(c)
      PROVE  Commands'
  <2>1. cli[c].pc = "copy"
    BY <1>4 DEF CopyStart
  <2> QED BY <1>4, <2>1, CopyStartEffect DEF Keeps, Alone, Commands
<1>5. CASE CopyEnd \/ Redeclare
  BY <1>5 DEF CopyEnd, Redeclare, Commands
<1> QED BY <1>1, <1>2, <1>3, <1>4, <1>5, Shapes

(* A host's known addresses only grow: what a command was given stays. *)
LEMMA KnownGrows ==
    ASSUME TypeOK, Commands, [Next]_vars, NEW h \in Hosts
    PROVE  Known(h) \subseteq Known(h)'
<1> SUFFICES ASSUME NEW d \in Clis, cli[d].names = {h}
             PROVE  cli'[d].names = {h} /\ cli'[d].ip = cli[d].ip
  BY DEF Known
<1>1. cli[d].pc # "idle"
  BY DEF Commands
<1>2. ASSUME NEW c \in Clis, Begins(c) \/ Looks(c) \/ Goes(c)
      PROVE  cli'[d].names = {h} /\ cli'[d].ip = cli[d].ip
  BY <1>1, <1>2 DEF Begins, Begun, Looks, Goes, Keeps, Alone
<1>3. ASSUME NEW c \in Clis, Evaluate(c) \/ CopyStart(c)
      PROVE  cli'[d].names = {h} /\ cli'[d].ip = cli[d].ip
  BY <1>3, EvaluateEffect, CopyStartEffect DEF Keeps, Alone
<1>4. CASE CopyEnd \/ Redeclare \/ UNCHANGED vars
  BY <1>4 DEF CopyEnd, Redeclare, vars
<1> QED BY <1>2, <1>3, <1>4, Shapes

(* No table that a command holds or writes has a foreign address. *)
LEMMA NextInventories ==
    ASSUME TypeOK, Commands, Inventories, [Next]_vars
    PROVE  Inventories'
<1>1. CASE UNCHANGED vars
  BY <1>1, KnownGrows DEF vars, Inventories, Owned, Internals
<1>2. CASE Next
  <2>1. src \in Manifests /\ src \in Table
    BY ManifestAssumption DEF TypeOK
  <2>2. Owned(src)
    BY <2>1 DEF Owned, Known, Internals
  <2>3. Owned(Discovered(src))
    <3>1. ASSUME NEW h \in Hosts, Discovered(src)[h] # Absent
          PROVE  /\ Discovered(src)[h].ip \in {src[h].ip, Live[h]}
                 /\ Discovered(src)[h].internal = src[h].internal /\ src[h] # Absent
      <4>1. src[h] # Absent
        BY <3>1 DEF Discovered
      <4>2. src[h] \in [ip : Address, internal : Address]
        BY <2>1, <4>1, Rows
      <4> QED BY <4>1, <4>2 DEF Discovered
    <3> QED BY <2>1, <3>1 DEF Owned, Known, Internals
  <2>4. ASSUME NEW c \in Clis, NEW t, Patch(c, t)
        PROVE  Owned(t)
    <3> SUFFICES ASSUME NEW h \in Hosts, t[h] # Absent
                 PROVE  t[h].ip \in Known(h) /\ t[h].internal \in Internals(h)
      BY DEF Owned
    <3>1. Owned(inv)
      BY <2>4 DEF Patch, Inventories
    <3>2. CASE t[h] = inv[h]
      BY <3>1, <3>2 DEF Owned
    <3>3. CASE t[h] # inv[h]
      <4>1. /\ inv[h] # Absent /\ t[h].internal = inv[h].internal
            /\ t[h].ip \in {inv[h].internal} \union Fallbacks(h) \union Given(c, h)
        BY <2>4, <3>3 DEF Patch
      <4>2. inv[h].internal \in Internals(h)
        BY <3>1, <4>1 DEF Owned
      <4>3. Internals(h) \union Fallbacks(h) \union Given(c, h) \subseteq Known(h)
        BY DEF Internals, Fallbacks, Given, Known
      <4> QED BY <4>1, <4>2, <4>3
    <3> QED BY <3>2, <3>3
  <2>5. /\ inv' # Torn => Owned(inv')
        /\ \A d \in Clis : cli'[d].view # Torn => Owned(cli'[d].view)
    <3>1. ASSUME NEW c \in Clis, Begins(c) \/ Looks(c)
          PROVE  <2>5!1 /\ <2>5!2
      BY <3>1 DEF Begins, Begun, Looks, Keeps, Alone, Inventories
    <3>2. ASSUME NEW c \in Clis, Goes(c)
          PROVE  <2>5!1 /\ <2>5!2
      <4>1. inv' # Torn => Owned(inv')
        BY <3>2 DEF Goes, Inventories
      <4>2. cli'[c].view # Torn => Owned(cli'[c].view)
        BY <2>2, <2>3, <2>4, <3>2 DEF Goes, Inventories
      <4> QED BY <3>2, <4>1, <4>2 DEF Goes, Keeps, Alone, Inventories
    <3>3. ASSUME NEW c \in Clis, Evaluate(c) \/ CopyStart(c)
          PROVE  <2>5!1 /\ <2>5!2
      <4>1. inv' = inv
        BY <3>3 DEF Evaluate, CopyStart
      <4> QED BY <3>3, <4>1, EvaluateEffect, CopyStartEffect DEF Keeps, Alone, Inventories
    <3>4. CASE CopyEnd \/ Redeclare
      BY <3>4 DEF CopyEnd, Redeclare, Inventories
    <3> QED BY <1>2, <3>1, <3>2, <3>3, <3>4, Shapes
  <2> QED BY <1>2, <2>5, KnownGrows DEF Inventories, Owned, Internals
<1> QED BY <1>1, <1>2

(* Copies are planned where the flake, as colmena evaluates it, sends them. *)
LEMMA NextDestinations ==
    ASSUME TypeOK, Commands, Destinations, [Next]_vars
    PROVE  Destinations'
<1> USE DEF Destinations, CopiesWhereDeclared
<1> SUFFICES ASSUME Next PROVE Destinations'
  BY DEF vars, Declared
<1>1. ASSUME NEW c \in Clis, Begins(c) \/ Looks(c) \/ Goes(c)
      PROVE  Destinations'
  BY <1>1 DEF Begins, Begun, Looks, Goes, Keeps, Alone, Colmena, Declared
<1>2. ASSUME NEW c \in Clis, Evaluate(c)
      PROVE  Destinations'
  <2>1. \A g \in cli'[c].goal : g[2] \in Declared(g[1])
    BY <1>2, EvaluateEffect DEF TypeOK, Declared
  <2>2. procs' = procs
    BY <1>2 DEF Evaluate
  <2> QED BY <1>2, <2>1, <2>2, EvaluateEffect DEF Keeps, Alone, Declared
<1>3. ASSUME NEW c \in Clis, CopyStart(c)
      PROVE  Destinations'
  <2>1. PICK g \in cli[c].goal : procs' = procs \union {Copy(c, g[1], g[2])}
    BY <1>3, CopyStartEffect
  <2>2. \A p \in procs' : p.kind = "copy" => p.addr \in Declared(p.host)
    BY <2>1 DEF Copy
  <2> QED BY <1>3, <2>2, CopyStartEffect DEF Keeps, Alone, Declared
<1>4. CASE CopyEnd \/ Redeclare
  BY <1>4 DEF CopyEnd, Redeclare, Declared
<1> QED BY <1>1, <1>2, <1>3, <1>4, Shapes

(* A host stays honest only while its declaration does not change and *)
(* hosts.json lists it.                                               *)
LEMMA HonestStep ==
    ASSUME Next
    PROVE  /\ honest' \subseteq honest
           /\ \A h \in honest' : src'[h] = src[h] /\ Listed(h)'
  BY DEF Next

LEMMA NextHonest ==
    ASSUME TypeOK, Commands, Honest, [Next]_vars
    PROVE  Honest'
<1>1. CASE UNCHANGED vars
  BY <1>1 DEF vars, Honest, Listed, Aligned
<1>2. CASE Next
  <2>1. \A h \in honest' : Listed(h)'
    BY <1>2, HonestStep
  <2>2. \A p : Aligned(p) => Aligned(p)'
    BY <1>2, HonestStep DEF Aligned
  <2>3. ASSUME NEW c \in Clis, NEW g \in cli[c].goal, g[1] \in honest'
        PROVE  g[2] = Target(src'[g[1]])
    BY <1>2, <2>3, HonestStep DEF Honest
  <2>4. /\ \A p \in procs' : Aligned(p)'
        /\ \A d \in Clis : \A p \in cli'[d].snap : Aligned(p)'
        /\ \A d \in Clis : \A g \in cli'[d].goal :
              g[1] \in honest' => g[2] = Target(src'[g[1]])
    <3>1. ASSUME NEW c \in Clis, Begins(c) \/ Looks(c) \/ Goes(c)
          PROVE  <2>4!1 /\ <2>4!2 /\ <2>4!3
      <4>1. Aligned(Colmena(c))'
        BY DEF Aligned, Colmena
      <4> QED BY <2>2, <2>3, <3>1, <4>1
        DEF Begins, Begun, Looks, Goes, Keeps, Alone, Honest
    <3>2. ASSUME NEW c \in Clis, Evaluate(c)
          PROVE  <2>4!1 /\ <2>4!2 /\ <2>4!3
      <4>1. \A g \in cli'[c].goal : g[1] \in honest' => g[2] = Target(src'[g[1]])
        BY <1>2, <3>2, EvaluateEffect, HonestStep
      <4>2. procs' = procs
        BY <3>2 DEF Evaluate
      <4> QED BY <2>2, <2>3, <3>2, <4>1, <4>2, EvaluateEffect DEF Keeps, Alone, Honest
    <3>3. ASSUME NEW c \in Clis, CopyStart(c)
          PROVE  <2>4!1 /\ <2>4!2 /\ <2>4!3
      <4>1. PICK g \in cli[c].goal : procs' = procs \union {Copy(c, g[1], g[2])}
        BY <3>3, CopyStartEffect
      <4>2. Aligned(Copy(c, g[1], g[2]))'
        BY <2>3 DEF Aligned, Copy
      <4> QED BY <2>2, <2>3, <3>3, <4>1, <4>2, CopyStartEffect DEF Keeps, Alone, Honest
    <3>4. CASE CopyEnd \/ Redeclare
      BY <2>2, <2>3, <3>4 DEF CopyEnd, Redeclare, Honest
    <3> QED BY <1>2, <3>1, <3>2, <3>3, <3>4, Shapes
  <2> QED BY <2>1, <2>4 DEF Honest
<1> QED BY <1>1, <1>2

(* The check: a deploy that passes it has no copy to an honest host of its *)
(* own in its snapshot, because the inventory lists where that copy goes.  *)
LEMMA PassedSeesNothing ==
    ASSUME TypeOK, Honest, NEW c \in Clis, Passed(c),
           NEW h \in cli[c].names \intersect honest
    PROVE  ~Sees(c, h)
<1> SUFFICES ASSUME NEW q \in cli[c].snap, q.kind = "copy", q.host = h
             PROVE  FALSE
  BY DEF Sees
<1>1. CASE cli[c].op = "tag"
  BY <1>1 DEF Passed, Conflict
<1>2. CASE cli[c].op # "tag"
  <2>1. Target(src[h]) \in IpsFor(inv[h])
    BY <1>2 DEF Passed, Honest, Listed
  <2>2. q.addr = Target(src[h])
    BY DEF Honest, Aligned
  <2>3. q.addr \in Addrs
    BY DEF TypeOK, Cli, Procs, Copy, Colmena
  <2>4. q \in ProcessesFor(IpsFor(inv[h]), cli[c].snap)
    BY <2>1, <2>2, <2>3, ManifestAssumption DEF ProcessesFor
  <2> QED BY <1>2, <2>4 DEF Passed, Conflict
<1> QED BY <1>1, <1>2

LEMMA NextUnseen ==
    ASSUME TypeOK, Commands, Honest, Unseen, [Next]_vars
    PROVE  Unseen'
<1>1. CASE UNCHANGED vars
  BY <1>1 DEF vars, Unseen, Sees
<1>2. CASE Next
  <2> DEFINE Clear(c) == \A h \in cli[c].names \intersect honest : ~Sees(c, h)
             Fresh(p) == /\ cli[p.owner].pc \in {"copy", "done"}
                         /\ p.host \in honest => ~Sees(p.owner, p.host)
  <2>1. honest' \subseteq honest
    BY <1>2, HonestStep
  <2>2. /\ \A c \in Clis : cli[c].pc \in Late => Clear(c)
        /\ \A p \in procs : p.kind = "copy" => Fresh(p) /\ p.owner \in Clis
    <3>1. \A p \in procs : p.kind = "copy" => p.owner \in Clis
      BY DEF TypeOK, Procs, Copy, Colmena
    <3> QED BY <3>1 DEF Unseen, Late
  <2>3. ASSUME NEW d \in Clis, cli'[d].names = cli[d].names, cli'[d].snap = cli[d].snap
        PROVE  /\ Clear(d) => Clear(d)'
               /\ \A h \in honest' : ~Sees(d, h) => ~Sees(d, h)'
    BY <2>1, <2>3 DEF Sees
  <2>4. /\ \A d \in Clis : cli'[d].pc \in Late => Clear(d)'
        /\ \A p \in procs' : p.kind = "copy" => Fresh(p)'
    <3>1. ASSUME NEW c \in Clis, Begins(c) \/ Looks(c)
          PROVE  <2>4!1 /\ <2>4!2
      <4>1. /\ cli[c].pc \notin {"copy", "done"} /\ cli'[c].pc \notin Late
            /\ procs' = procs /\ Alone(c)
        BY <3>1 DEF Begins, Begun, Looks, Keeps, Late
      <4>2. \A d \in Clis \ {c} : cli'[d] = cli[d]
        BY <4>1 DEF Alone
      <4> QED BY <2>1, <2>2, <2>3, <4>1, <4>2
    <3>2. ASSUME NEW c \in Clis, Goes(c)
          PROVE  <2>4!1 /\ <2>4!2
      <4>1. /\ cli'[c].names = cli[c].names /\ cli'[c].snap = cli[c].snap
            /\ \A d \in Clis \ {c} : cli'[d] = cli[d]
            /\ cli[c].pc # "done" /\ (cli[c].pc = "copy" => cli'[c].pc = "done")
            /\ cli'[c].pc \in Late => cli[c].pc \in Late \/ Passed(c)
            /\ procs' \subseteq procs \union {Colmena(c)}
        BY <3>2 DEF Goes, Keeps, Alone
      <4>2. Passed(c) => Clear(c)
        BY PassedSeesNothing
      <4>3. \A d \in Clis : cli'[d].pc \in Late => Clear(d)'
        <5> SUFFICES ASSUME NEW d \in Clis, cli'[d].pc \in Late PROVE Clear(d)'
          OBVIOUS
        <5>1. Clear(d)
          BY <2>2, <4>1, <4>2
        <5> HIDE DEF Clear
        <5> QED BY <2>3, <4>1, <5>1
      <4>4. \A p \in procs' : p.kind = "copy" => Fresh(p)'
        <5> SUFFICES ASSUME NEW p \in procs', p.kind = "copy" PROVE Fresh(p)'
          OBVIOUS
        <5>1. p \in procs /\ Fresh(p) /\ p.owner \in Clis
          BY <2>2, <4>1 DEF Colmena
        <5> QED BY <2>1, <2>3, <4>1, <5>1
      <4> QED BY <4>3, <4>4
    <3>3. ASSUME NEW c \in Clis, Evaluate(c)
          PROVE  <2>4!1 /\ <2>4!2
      <4>1. cli[c].pc = "eval" /\ procs' = procs
        BY <3>3 DEF Evaluate
      <4>2. /\ cli'[c].names = cli[c].names /\ cli'[c].snap = cli[c].snap
            /\ \A d \in Clis \ {c} : cli'[d] = cli[d]
        BY <3>3, EvaluateEffect DEF Keeps, Alone
      <4>3. cli[c].pc \in Late
        BY <4>1 DEF Late
      <4> QED BY <2>1, <2>2, <2>3, <4>1, <4>2, <4>3
    <3>4. ASSUME NEW c \in Clis, CopyStart(c)
          PROVE  <2>4!1 /\ <2>4!2
      <4>1. PICK g \in cli[c].goal : procs' = procs \union {Copy(c, g[1], g[2])}
        BY <3>4, CopyStartEffect
      <4>2. /\ cli'[c].names = cli[c].names /\ cli'[c].snap = cli[c].snap
            /\ \A d \in Clis \ {c} : cli'[d] = cli[d]
            /\ cli[c].pc = "copy" /\ cli'[c].pc = "copy"
        BY <3>4, CopyStartEffect DEF Keeps, Alone, CopyStart
      <4>3. Clear(c) /\ g[1] \in cli[c].names
        BY <2>2, <4>2 DEF Late, Commands
      <4>4. Fresh(Copy(c, g[1], g[2]))'
        BY <2>1, <2>3, <4>2, <4>3 DEF Copy
      <4>5. \A d \in Clis : cli'[d].pc \in Late => Clear(d)'
        BY <2>2, <2>3, <4>2
      <4>6. \A p \in procs : p.kind = "copy" => Fresh(p)'
        BY <2>1, <2>2, <2>3, <4>2
      <4> QED BY <4>1, <4>4, <4>5, <4>6
    <3>5. CASE CopyEnd \/ Redeclare
      BY <2>1, <2>2, <2>3, <3>5 DEF CopyEnd, Redeclare
    <3> QED BY <1>2, <3>1, <3>2, <3>3, <3>4, <3>5, Shapes
  <2> QED BY <2>4 DEF Unseen, Late
<1> QED BY <1>1, <1>2

LEMMA NextIInv == IInv /\ [Next]_vars => IInv'
  BY NextTypes, NextCommands, NextInventories, NextDestinations, NextHonest, NextUnseen
  DEF IInv

-----------------------------------------------------------------------------
THEOREM Invariance == Spec => []IInv
  BY InitIInv, NextIInv, PTL DEF Spec

(* Every field of the shared state has its type, in every reachable state: *)
(* no command writes back what it read half-written.                       *)
THEOREM TypeCorrect == Spec => []TypeOK
<1>1. IInv => TypeOK
  BY DEF IInv
<1> QED BY <1>1, Invariance, PTL

(* A copy goes where the flake says its host is, whatever the commands write *)
(* into hosts.json.                                                          *)
THEOREM CopiesGoWhereDeclared == Spec => []CopiesWhereDeclared
<1>1. IInv => CopiesWhereDeclared
  BY DEF IInv, Destinations
<1> QED BY <1>1, Invariance, PTL

(* A host's row of hosts.json holds an address of that host, after any   *)
(* interleaving of refreshes, probes and overrides of any terminals.     *)
THEOREM AddressesStayOwned == Spec => []AddressesOwned
<1>1. IInv => AddressesOwned
  BY DEF IInv, Inventories, Owned, AddressesOwned
<1> QED BY <1>1, Invariance, PTL

(* Two deploys copy to one host at once only if neither snapshot showed the *)
(* other's copy, as long as hosts.json has listed the host's address.       *)
THEOREM OverlapsAreRaces == Spec => []OverlapIsARace
<1>1. IInv => OverlapIsARace
  BY DEF IInv, Unseen, Sees, OverlapIsARace
<1> QED BY <1>1, Invariance, PTL
=============================================================================
