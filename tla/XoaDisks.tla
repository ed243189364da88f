------------------------------ MODULE XoaDisks ------------------------------
(***************************************************************************)
(* xoa-cli: `reconcile-disks`, `resize-disk`, `vm-halt` and `vm-start`     *)
(* against one Xen Orchestra pool.                                         *)
(*                                                                         *)
(* Reads go over REST and come back at once or fail.  Changes go over      *)
(* JSON-RPC: the client waits for the reply with a time limit, and a call  *)
(* it gave up on may still be carried out, or not.  Between two steps of a *)
(* command people use the XO console.  A terminal runs one command.        *)
(* The names every module has carry the prefix Xoa: AdoptDisksProofs       *)
(* extends this module beside TfAdopt.                                     *)
(***************************************************************************)
EXTENDS Naturals, Sequences, FiniteSets

CONSTANTS Terms, Vms, Hosts, Disks,
          NoVm,
          MaxSize,       \* disk sizes run from 1 to MaxSize
          On,            \* per disk: the VM it is attached to, or NoVm
          VdiNames,      \* name_labels of disks
          VdiName,       \* per disk: its own, perhaps that of another of the VM
          Labels,        \* name_labels
          Dotted,        \* per host: the labels that start with its name and a dot
          Worlds         \* declarations, labels and addresses that may hold

Sizes  == 1 .. MaxSize
Goals  == [VdiNames -> 0 .. MaxSize]    \* 0: not declared
World  == [label : [Vms -> Labels],          \* as the pool shows them
           alias : [Hosts -> Labels],        \* the name the manifest gives a host
           domain : [Hosts -> Labels],       \* its name in $XOA_VM_DOMAIN, or its name
           ipOf  : [Hosts -> Vms \union {NoVm}],   \* the one VM with its address
           goal  : [Hosts -> Goals]]         \* size_gb + size_add_gb

ASSUME WorldAssumption ==
    /\ MaxSize \in Nat \ {0}
    /\ On \in [Disks -> Vms \union {NoVm}] /\ VdiName \in [Disks -> VdiNames]
    /\ Hosts \subseteq Labels
    /\ Dotted \in [Hosts -> SUBSET Labels]
    /\ Worlds \subseteq World
    /\ NoVm \notin Vms

VARIABLES world, power, size,
          cli,      \* per terminal: the command and where it is
          rpc,      \* per terminal: the call it waits for
          late      \* calls whose client gave up

xoaVars == <<world, power, size, cli, rpc, late>>

Power == {"Running", "Halted", "Suspended"}
Call  == [m : {"vm.stop", "vm.start"}, on : Vms, to : {0}]
            \union [m : {"vdi.set"}, on : {d \in Disks : On[d] # NoVm}, to : Sizes]
NoCall == [m |-> "none", st |-> "none"]
Replies == {"sent", "ok", "error"}

XoaPcs == {"idle", "look", "plan", "set", "call", "halting", "booting", "verify", "done"}
Cli == [pc : XoaPcs, op : {"none", "reconcile", "resize", "halt", "start"},
        names : SUBSET Hosts, todo : SUBSET Hosts, host : Hosts \union {NoVm}, vm : Vms \union {NoVm},
        goal : Goals, mayHalt : BOOLEAN, dry : BOOLEAN, seen : Power,
        plan : SUBSET Disks, startedHalt : BOOLEAN, ok : BOOLEAN, allOk : BOOLEAN,
        \* history: VMs it shut down, asked to boot, gave up on; any fault met
        stopped : SUBSET Vms, asked : SUBSET Vms, lost : SUBSET Vms, fault : BOOLEAN]

(* Every field has its type; in particular a call for a disk names one that is
   attached to a VM. *)
XoaTypeOK ==
    /\ world \in Worlds
    /\ power \in [Vms -> Power]
    /\ size \in [Disks -> Sizes]
    /\ cli \in [Terms -> Cli]
    /\ \A t \in Terms : rpc[t] = NoCall \/ (rpc[t].call \in Call /\ rpc[t].st \in Replies)
    /\ late \subseteq Call
-----------------------------------------------------------------------------
(* find_vm: the first name that one VM carries, that with the domain last, then a
   unique dotted label, then a unique address; two VMs of one name are refused.
   vm_by_name has neither the alias nor the address. *)
Carrying(l) == {v \in Vms : world.label[v] = l}

FindVm(h, full) ==
    LET names == <<h>> \o (IF full THEN <<world.alias[h]>> ELSE <<>>) \o <<world.domain[h]>>
        used == {i \in DOMAIN names : Carrying(names[i]) # {}}
        dotted == {v \in Vms : world.label[v] \in Dotted[h]}
        only(s) == IF Cardinality(s) = 1 THEN CHOOSE v \in s : TRUE ELSE NoVm
    IN  IF used # {} THEN only(Carrying(names[CHOOSE i \in used : \A j \in used : i <= j]))
        ELSE IF Cardinality(dotted) = 1 THEN only(dotted)
        ELSE IF full THEN world.ipOf[h] ELSE NoVm

(* The disks of a VM by name: of those that share one, the reconciler takes the
   last that the pool lists, resize-disk the first. *)
Listings(v) ==
    LET disks == {d \in Disks : On[d] = v}
    IN  {L \in SUBSET disks : \A n \in {VdiName[d] : d \in disks} :
            \E d \in L : {e \in L : VdiName[e] = n} = {d}}

(* What the pool does with a call, if it accepts it. *)
Accepts(c) ==
    CASE c.m = "vm.stop"  -> power[c.on] = "Running"
      [] c.m = "vm.start" -> power[c.on] = "Halted"
      [] c.m = "vdi.set"  -> /\ power[On[c.on]] = "Halted"
                             /\ c.to >= size[c.on]

Effect(c) ==
    /\ power' = IF c.m = "vdi.set" THEN power
                ELSE [power EXCEPT ![c.on] = IF c.m = "vm.stop" THEN "Halted" ELSE "Running"]
    /\ size' = IF c.m = "vdi.set" THEN [size EXCEPT ![c.on] = c.to] ELSE size

Put(t, r) == cli' = [cli EXCEPT ![t] = r]

(* The local variables of one host are gone. *)
Blank(c) == [c EXCEPT !.host = NoVm, !.vm = NoVm, !.goal = [n \in VdiNames |-> 0],
                      !.seen = "Running", !.plan = {}, !.ok = TRUE]

(* Mutant: the flag of one host is still up for the next. *)
AfterHostKeepsFlag(c, good) ==
    LET verdict == c.allOk /\ good
        closed == [Blank(c) EXCEPT !.allOk = verdict]
    IN  IF c.todo = {} THEN {[closed EXCEPT !.pc = "done"]}
        ELSE {[closed EXCEPT !.pc = "look", !.host = h, !.goal = world.goal[h],
                             !.todo = c.todo \ {h}] : h \in c.todo}

(* The next host of a command that is through with one, or its end. *)
AfterHost(c, good) ==
    LET verdict == c.allOk /\ good
        closed == [Blank(c) EXCEPT !.allOk = verdict, !.startedHalt = FALSE]
    IN  IF c.todo = {} THEN {[closed EXCEPT !.pc = "done"]}
        ELSE {[closed EXCEPT !.pc = "look", !.host = h, !.goal = world.goal[h],
                             !.todo = c.todo \ {h}] : h \in c.todo}

HostDone(t, good) == \E r \in AfterHost(cli[t], good) : Put(t, r)

(* An XoError: reconcile-disks reports it and takes the next host, the others
   exit 1.  Either way nothing boots what was shut down. *)
Error(t, fault) ==
    \E r \in AfterHost([cli[t] EXCEPT !.fault = @ \/ fault,
                          !.lost = @ \union (cli[t].stopped \ cli[t].asked)], FALSE) :
       Put(t, r)

Send(t, c, r) ==
    /\ rpc' = [rpc EXCEPT ![t] = [m |-> "call", call |-> c, st |-> "sent"]]
    /\ Put(t, [r EXCEPT !.pc = "call",
                 !.asked = IF c.m = "vm.start" THEN @ \union {c.on} ELSE @])
-----------------------------------------------------------------------------
(* reconcile-disks evaluates the manifest and takes the hosts in turn;
   resize-disk names one disk and a size. *)
Begin(t, op, h, todo, mayHalt, dry, goal) ==
    /\ cli[t].pc = "idle"
    /\ Put(t, [cli[t] EXCEPT !.pc = "look", !.op = op, !.host = h, !.todo = todo,
                             !.names = todo \union {h}, !.mayHalt = mayHalt, !.dry = dry, !.goal = goal])
    /\ UNCHANGED <<world, power, size, rpc, late>>

(* The lookup brings the power state with it. *)
Look(t) ==
    /\ cli[t].pc = "look"
    /\ LET v == FindVm(cli[t].host, cli[t].op = "reconcile")
           r == [cli[t] EXCEPT !.vm = v, !.seen = power[v]]
       IN  \/ Error(t, TRUE) /\ UNCHANGED rpc
           \/ v = NoVm /\ Error(t, FALSE) /\ UNCHANGED rpc
           \/ /\ v # NoVm /\ cli[t].op \in {"reconcile", "resize"}
              /\ Put(t, [r EXCEPT !.pc = "plan"]) /\ UNCHANGED rpc
           \/ /\ v # NoVm /\ cli[t].op = "halt"
              /\ IF power[v] = "Halted" THEN HostDone(t, TRUE) /\ UNCHANGED rpc
                 ELSE Send(t, [m |-> "vm.stop", on |-> v, to |-> 0], r)
           \/ /\ v # NoVm /\ cli[t].op = "start"
              /\ IF power[v] = "Running" THEN HostDone(t, TRUE) /\ UNCHANGED rpc
                 ELSE Send(t, [m |-> "vm.start", on |-> v, to |-> 0], r)
    /\ UNCHANGED <<world, power, size, late>>

(* Mutant: a declared disk that is not there is taken for an empty one. *)
PlanMissing(t) ==
    /\ cli[t].pc = "plan" /\ ~cli[t].dry
    /\ LET c == cli[t]
           grow == {d \in Disks : c.goal[VdiName[d]] > 0 /\ (On[d] # c.vm \/ size[d] < c.goal[VdiName[d]])}
       IN  IF grow = {} THEN HostDone(t, TRUE) /\ UNCHANGED rpc
           ELSE Put(t, [c EXCEPT !.plan = grow, !.pc = "set"]) /\ UNCHANGED rpc
    /\ UNCHANGED <<world, power, size, late>>

(* The sizes are read now; the power state is the one of the lookup. *)
Plan(t) ==
    /\ cli[t].pc = "plan"
    /\ \E live \in Listings(cli[t].vm) :
       LET c == cli[t]
           grow == {d \in live : size[d] < c.goal[VdiName[d]]}
           good == \A n \in VdiNames : c.goal[n] > 0 =>
                      \E d \in live : VdiName[d] = n /\ size[d] <= c.goal[n]
           planned == [c EXCEPT !.plan = grow, !.ok = good]
       IN  \/ Error(t, TRUE) /\ UNCHANGED rpc
           \/ (grow = {} \/ c.dry) /\ HostDone(t, good) /\ UNCHANGED rpc
           \/ /\ grow # {} /\ ~c.dry
              /\ c.seen = "Suspended" \/ (c.seen = "Running" /\ ~c.mayHalt)
              /\ HostDone(t, FALSE) /\ UNCHANGED rpc
           \/ /\ grow # {} /\ ~c.dry /\ c.seen = "Halted"
              /\ Put(t, [planned EXCEPT !.pc = "set"]) /\ UNCHANGED rpc
           \/ /\ grow # {} /\ ~c.dry /\ c.seen = "Running" /\ c.mayHalt
              /\ Send(t, [m |-> "vm.stop", on |-> c.vm, to |-> 0], planned)
    /\ UNCHANGED <<world, power, size, late>>

(* One vdi.set after the other, then vm.start if the command shut it down. *)
SetOrBoot(t) ==
    /\ cli[t].pc = "set"
    /\ LET c == cli[t]
       IN  \/ \E d \in c.plan : Send(t, [m |-> "vdi.set", on |-> d, to |-> c.goal[VdiName[d]]], c)
           \/ /\ c.plan = {} /\ c.startedHalt
              /\ Send(t, [m |-> "vm.start", on |-> c.vm, to |-> 0], c)
           \/ c.plan = {} /\ ~c.startedHalt /\ HostDone(t, c.ok) /\ UNCHANGED rpc
    /\ UNCHANGED <<world, power, size, late>>

Serve(t) ==
    /\ cli[t].pc = "call" /\ rpc[t].st = "sent"
    /\ LET c == rpc[t].call
           reply(st) == rpc' = [rpc EXCEPT ![t].st = st]
       IN  \/ Accepts(c) /\ Effect(c) /\ reply("ok")
           \/ reply("error") /\ UNCHANGED <<power, size>>
           \/ c.m = "vdi.set" /\ reply("ok") /\ UNCHANGED <<power, size>>
    /\ UNCHANGED <<world, cli, late>>

Reply(t) ==
    /\ cli[t].pc = "call" /\ rpc[t].st \in {"ok", "error"}
    /\ IF rpc[t].st = "error" THEN Error(t, TRUE) /\ rpc' = [rpc EXCEPT ![t] = NoCall]
       ELSE /\ Put(t, [cli[t] EXCEPT
                   !.stopped = IF rpc[t].call.m = "vm.stop" THEN @ \union {cli[t].vm} ELSE @,
                   !.pc = CASE rpc[t].call.m = "vm.stop"  -> "halting"
                            [] rpc[t].call.m = "vm.start" -> "booting"
                            [] rpc[t].call.m = "vdi.set"  -> "verify"])
            /\ rpc' = IF rpc[t].call.m = "vdi.set" THEN rpc
                      ELSE [rpc EXCEPT ![t] = NoCall]
    /\ UNCHANGED <<world, power, size, late>>

(* The time limit of a call, or a lost connection. *)
GiveUp(t) ==
    /\ cli[t].pc = "call" /\ rpc[t].st = "sent"
    /\ late' = late \union {rpc[t].call}
    /\ rpc' = [rpc EXCEPT ![t] = NoCall]
    /\ Error(t, TRUE)
    /\ UNCHANGED <<world, power, size>>

(* Ctrl-C or a lost terminal. *)
Kill(t) ==
    /\ cli[t].pc \notin {"idle", "done"}
    /\ Put(t, [Blank(cli[t]) EXCEPT !.pc = "done", !.allOk = FALSE, !.fault = TRUE,
                 !.todo = {}, !.startedHalt = FALSE,
                 !.lost = @ \union (cli[t].stopped \ cli[t].asked)])
    /\ late' = IF rpc[t].st = "sent" THEN late \union {rpc[t].call} ELSE late
    /\ rpc' = [rpc EXCEPT ![t] = NoCall]
    /\ UNCHANGED <<world, power, size>>

ServeLate ==
    /\ \E c \in late :
          /\ late' = late \ {c}
          /\ IF Accepts(c) THEN Effect(c) ELSE UNCHANGED <<power, size>>
    /\ UNCHANGED <<world, cli, rpc>>

(* Mutant: the poll has no time limit. *)
WaitForever(t) ==
    /\ cli[t].pc \in {"halting", "booting"}
    /\ LET c == cli[t]
           v == FindVm(c.host, FALSE)
       IN  \/ v = NoVm /\ Error(t, FALSE)
           \/ /\ v # NoVm /\ c.pc = "halting" /\ power[v] = "Halted"
              /\ IF c.op = "halt" THEN HostDone(t, TRUE)
                 ELSE Put(t, [c EXCEPT !.pc = "set", !.startedHalt = TRUE])
           \/ v # NoVm /\ c.pc = "booting" /\ power[v] = "Running" /\ HostDone(t, c.ok)
    /\ UNCHANGED <<world, power, size, rpc, late>>

(* _wait_power_state looks the VM up by its bare name at every turn; it gives
   up after five minutes or when a lookup fails. *)
Wait(t) ==
    /\ cli[t].pc \in {"halting", "booting"}
    /\ LET c == cli[t]
           v == FindVm(c.host, FALSE)
       IN  \/ Error(t, TRUE)
           \/ v = NoVm /\ Error(t, FALSE)
           \/ /\ v # NoVm /\ c.pc = "halting" /\ power[v] = "Halted"
              /\ IF c.op = "halt" THEN HostDone(t, TRUE)
                 ELSE Put(t, [c EXCEPT !.pc = "set", !.startedHalt = TRUE])
           \/ v # NoVm /\ c.pc = "booting" /\ power[v] = "Running" /\ HostDone(t, c.ok)
    /\ UNCHANGED <<world, power, size, rpc, late>>

(* Mutant: the reply is trusted. *)
VerifyTrusts(t) ==
    /\ cli[t].pc = "verify"
    /\ Put(t, [cli[t] EXCEPT !.pc = "set", !.plan = @ \ {rpc[t].call.on}])
    /\ rpc' = [rpc EXCEPT ![t] = NoCall]
    /\ UNCHANGED <<world, power, size, late>>

(* The size is read back.  A disk that did not grow fails the host; the
   reconciler carries on, resize-disk exits before it boots the VM. *)
Verify(t) ==
    /\ cli[t].pc = "verify"
    /\ LET c == cli[t]
           d == rpc[t].call.on
           grown == size[d] >= c.goal[VdiName[d]]
       IN  \/ Error(t, TRUE)
           \/ c.op = "resize" /\ ~grown /\ Error(t, TRUE)
           \/ /\ c.op = "reconcile" \/ grown
              /\ Put(t, [c EXCEPT !.pc = "set", !.plan = @ \ {d}, !.ok = @ /\ grown])
    /\ rpc' = [rpc EXCEPT ![t] = NoCall]
    /\ UNCHANGED <<world, power, size, late>>
-----------------------------------------------------------------------------
(* The XO console, or a guest that powers itself off. *)
ConsolePower ==
    /\ \E v \in Vms, p \in Power : p # power[v] /\ power' = [power EXCEPT ![v] = p]
    /\ UNCHANGED <<world, size, cli, rpc, late>>

ConsoleGrow ==
    /\ \E d \in Disks : /\ size[d] < MaxSize
                        /\ On[d] # NoVm /\ power[On[d]] = "Halted"
                        /\ size' = [size EXCEPT ![d] = @ + 1]
    /\ UNCHANGED <<world, power, cli, rpc, late>>

XoaInit ==
    /\ world \in Worlds
    /\ power \in [Vms -> Power]
    /\ size \in {s \in [Disks -> Sizes] : \A d \in Disks : On[d] = NoVm => s[d] = 1}
    /\ rpc = [t \in Terms |-> NoCall]
    /\ late = {}
    /\ cli = [t \in Terms |->
         [pc |-> "idle", op |-> "none", names |-> {}, todo |-> {}, host |-> NoVm, vm |-> NoVm,
          goal |-> [n \in VdiNames |-> 0], mayHalt |-> FALSE, dry |-> FALSE,
          seen |-> "Running", plan |-> {}, startedHalt |-> FALSE, ok |-> TRUE,
          allOk |-> TRUE, stopped |-> {}, asked |-> {}, lost |-> {}, fault |-> FALSE]]

BeginAny(t) ==
    \E h \in Hosts :
       \/ \E op \in {"halt", "start"} :
             Begin(t, op, h, {}, FALSE, FALSE, [n \in VdiNames |-> 0])
       \/ \E todo \in SUBSET (Hosts \ {h}), mh, dry \in BOOLEAN :
             Begin(t, "reconcile", h, todo, mh, dry, world.goal[h])
       \/ \E n \in VdiNames, s \in Sizes, mh \in BOOLEAN :
             Begin(t, "resize", h, {}, mh, FALSE,
                   [m \in VdiNames |-> IF m = n THEN s ELSE 0])

Step(t) ==
    Look(t) \/ Plan(t) \/ SetOrBoot(t) \/ Reply(t) \/ GiveUp(t) \/ Wait(t) \/ Verify(t)

XoaNext ==
    \/ \E t \in Terms : BeginAny(t) \/ Step(t) \/ Serve(t) \/ Kill(t)
    \/ ServeLate \/ ConsolePower \/ ConsoleGrow

XoaSpec == XoaInit /\ [][XoaNext]_xoaVars /\ \A t \in Terms : WF_xoaVars(Step(t))
-----------------------------------------------------------------------------
(* `reconcile-disks` that exits 0 left, of every name its hosts declare, a disk
   on the VM it found that is at least as large as declared, whatever replies
   were late, empty or lost, and whoever else resized meanwhile. *)
HealthyMeansGrown ==
    \A t \in Terms :
       cli[t].pc = "done" /\ cli[t].op = "reconcile" /\ ~cli[t].dry /\ cli[t].allOk =>
          \A h \in cli[t].names, n \in VdiNames :
             world.goal[h][n] > 0 =>
                \E d \in Disks : /\ On[d] = FindVm(h, TRUE) /\ VdiName[d] = n
                                 /\ size[d] >= world.goal[h][n]

(* A disk command boots no VM that it did not shut down itself: one that was
   halted before stays down, also when the command shut down another host's. *)
BootsOnlyWhatItStopped ==
    \A t \in Terms : cli[t].op \in {"reconcile", "resize"} => cli[t].asked \subseteq cli[t].stopped

(* The reconciler boots again what it shut down, also when a disk did not
   grow, unless a call or a lookup failed on the way. *)
ComesBack ==
    \A t \in Terms, v \in Vms :
       (cli[t].op = "reconcile" /\ v \in cli[t].stopped)
          ~> (v \in cli[t].asked \/ v \in cli[t].lost)

(* reconcile.py:17-18: "it clean-shuts the VM, grows, and boots it again".  A
   command that met no failing call and no failing read booted what it
   stopped. *)
CleanRunBoots ==
    \A t \in Terms : cli[t].pc = "done" /\ ~cli[t].fault => cli[t].lost = {}
=============================================================================
