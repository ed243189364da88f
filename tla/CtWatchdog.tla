------------------------------ MODULE CtWatchdog ------------------------------
(***************************************************************************)
(* The container watchdog of a Proxmox host                                *)
(* (src/ansible/roles/proxmox/base/templates/ct-watchdog.sh.j2), run by a  *)
(* systemd timer.  A sweep probes every container that was running when    *)
(* the sweep began, counts consecutive misses in a file per container, and *)
(* restarts one that missed often enough unless it, or any container, was  *)
(* restarted too recently.                                                 *)
(*                                                                         *)
(* Time is counted in ticks of the timer's interval.  The script reads the *)
(* clock ONCE, at the start of a sweep, and stamps restarts with that      *)
(* reading; here a stamp is kept as its age.  Ages stop at Horizon, beyond *)
(* which every comparison of the script has the same outcome.              *)
(*                                                                         *)
(* Names that PveCluster has, too, carry the prefix Watch: ProxmoxProofs   *)
(* extends both modules.                                                   *)
(***************************************************************************)
EXTENDS Integers, FiniteSets

CONSTANTS Cts,             \* the containers, by VMID: `pct list` sorts by it
          Excluded,        \* EXCLUDE_VMIDS
          RestartEnabled,  \* RESTART_ENABLED
          FailsRequired,   \* FAILS_REQUIRED
          Cooldown,        \* COOLDOWN_S, in ticks
          GlobalCooldown,  \* GLOBAL_COOLDOWN_S, in ticks
          Interval,        \* OnUnitActiveSec, in ticks
          TimeoutStart     \* TimeoutStartSec of the service, in ticks

ASSUME CtsAssumption == Cts \subseteq Nat /\ IsFiniteSet(Cts)
ASSUME TunablesAssumption ==
    /\ RestartEnabled \in BOOLEAN
    /\ FailsRequired \in Nat \ {0}
    /\ Cooldown \in Nat /\ GlobalCooldown \in Nat
    /\ Interval \in Nat \ {0} /\ TimeoutStart \in Nat \ {0}

VARIABLES
    ct,       \* what each container does: it answers, it hangs, it is stopped
    pc,       \* the sweep in progress: what it does next, or "idle"
    todo,     \* containers of the sweep's list not dealt with yet
    elapsed,  \* ticks since the last sweep read the clock
    fails,    \* fails-<id>: consecutive misses on file, 0 when there is none
    age,      \* last-restart-<id>: ticks since the time stamped in it
    gage,     \* last-restart-global: likewise
    streak,   \* history: probes missed in a row, since the last restart
    misses,   \* history: those of them missed since the container last booted
    last      \* history, of the last `pct stop` the watchdog began: `begun`, ticks
              \* since its sweep read the clock; `late`, how long that sweep had run

watchVars == <<ct, pc, todo, elapsed, fails, age, gage, streak, misses, last>>
files == <<fails, age, gage>>

(* The bound on ages: an age this large, less the time a sweep has run, is *)
(* past both cooldowns.                                                    *)
Horizon ==
    (IF Cooldown > GlobalCooldown THEN Cooldown ELSE GlobalCooldown) + TimeoutStart

(* The bound on counts: only `fails < FAILS_REQUIRED` is ever asked.       *)
Up(n) == IF n < FailsRequired THEN n + 1 ELSE n

Older(a) == IF a < Horizon THEN a + 1 ELSE a

(* The container the loop has reached. *)
Reached(c) == c \in todo /\ \A d \in todo : c <= d

Probed(c) == pc = "probe" /\ Reached(c)

WatchTypeOK ==
    /\ ct \in [Cts -> {"up", "wedged", "stopped"}]
    /\ pc \in {"idle", "probe", "judge", "forget", "stamp", "stop", "start"}
    /\ todo \subseteq Cts \ Excluded
    /\ elapsed \in 0..(Interval + TimeoutStart)
    /\ fails \in [Cts -> 0..FailsRequired]
    /\ age \in [Cts -> 0..Horizon]
    /\ gage \in 0..Horizon
    /\ streak \in [Cts -> 0..FailsRequired]
    /\ misses \in [Cts -> 0..FailsRequired]
    /\ last \in [begun : 0..Horizon, late : 0..TimeoutStart]

WatchInit ==
    /\ ct = [c \in Cts |-> "up"]
    /\ pc = "idle"
    /\ todo = {}
    /\ elapsed = 0
    /\ fails = [c \in Cts |-> 0]
    /\ age = [c \in Cts |-> Horizon]
    /\ gage = Horizon
    /\ streak = [c \in Cts |-> 0]
    /\ misses = [c \in Cts |-> 0]
    /\ last = [begun |-> Horizon, late |-> 0]

-----------------------------------------------------------------------------
(* `pct list`, running rows, less the excluded ones. *)
PctList == {c \in Cts \ Excluded : ct[c] # "stopped"}

(* The timer fires; the script reads the clock and lists the containers.   *)
StartSweep ==
    /\ pc = "idle" /\ elapsed >= Interval
    /\ pc' = "probe"
    /\ todo' = PctList
    /\ elapsed' = 0
    /\ UNCHANGED <<ct, files, streak, misses, last>>

EndSweep ==
    /\ pc = "probe" /\ todo = {}
    /\ pc' = "idle"
    /\ UNCHANGED <<ct, todo, elapsed, files, streak, misses, last>>

(* Mutant: a container that answers keeps its count. *)
AnswerKeeps(c) ==
    /\ Probed(c) /\ ct[c] = "up"
    /\ todo' = todo \ {c}
    /\ streak' = [streak EXCEPT ![c] = 0]
    /\ misses' = [misses EXCEPT ![c] = 0]
    /\ UNCHANGED <<ct, pc, elapsed, files, last>>

(* The first probe or the retry is answered: the count starts over.        *)
Answer(c) ==
    /\ Probed(c) /\ ct[c] = "up"
    /\ todo' = todo \ {c}
    /\ fails' = [fails EXCEPT ![c] = 0]
    /\ streak' = [streak EXCEPT ![c] = 0]
    /\ misses' = [misses EXCEPT ![c] = 0]
    /\ UNCHANGED <<ct, pc, elapsed, age, gage, last>>

(* Both probes time out: the container hangs or was stopped since it was   *)
(* listed, or answers too slowly under the host's load.                    *)
Miss(c) ==
    /\ Probed(c)
    /\ pc' = "judge"
    /\ fails' = [fails EXCEPT ![c] = Up(@)]
    /\ streak' = [streak EXCEPT ![c] = Up(@)]
    /\ misses' = [misses EXCEPT ![c] = Up(@)]
    /\ UNCHANGED <<ct, todo, elapsed, age, gage, last>>

(* `now - stamp`, with the `now` of the sweep's start. *)
Since(a) == a - elapsed

(* Mutant: the host-wide limit is not consulted. *)
EligibleAnytime(c) ==
    /\ RestartEnabled /\ fails[c] >= FailsRequired
    /\ Since(age[c]) >= Cooldown

Eligible(c) ==
    /\ RestartEnabled /\ fails[c] >= FailsRequired
    /\ Since(age[c]) >= Cooldown
    /\ Since(gage) >= GlobalCooldown

(* Mutant: a deferral counts as a restart for the host-wide limit. *)
DeferStamps(c) ==
    /\ pc = "judge" /\ Reached(c) /\ ~Eligible(c)
    /\ pc' = "probe"
    /\ todo' = todo \ {c}
    /\ gage' = elapsed
    /\ UNCHANGED <<ct, elapsed, fails, age, streak, misses, last>>

(* Too few misses, or restarted too recently: the loop goes on.            *)
Defer(c) ==
    /\ pc = "judge" /\ Reached(c) /\ ~Eligible(c)
    /\ pc' = "probe"
    /\ todo' = todo \ {c}
    /\ UNCHANGED <<ct, elapsed, files, streak, misses, last>>

(* Mutant: the host-wide stamp is not written. *)
StampGlobalNot(c) ==
    /\ pc = "judge" /\ Reached(c) /\ Eligible(c)
    /\ pc' = "forget"
    /\ UNCHANGED <<ct, todo, elapsed, files, streak, misses, last>>

(* The host-wide stamp goes to disk first. *)
StampGlobal(c) ==
    /\ pc = "judge" /\ Reached(c) /\ Eligible(c)
    /\ pc' = "forget"
    /\ gage' = elapsed
    /\ UNCHANGED <<ct, todo, elapsed, fails, age, streak, misses, last>>

(* Then the count is removed.                                              *)
ForgetFails(c) ==
    /\ pc = "forget" /\ Reached(c)
    /\ pc' = "stamp"
    /\ fails' = [fails EXCEPT ![c] = 0]
    /\ UNCHANGED <<ct, todo, elapsed, age, gage, streak, misses, last>>

(* Then the container's own stamp is written; the number of restarts goes   *)
(* to a third file that only the metrics read.                             *)
StampOwn(c) ==
    /\ pc = "stamp" /\ Reached(c)
    /\ pc' = "stop"
    /\ age' = [age EXCEPT ![c] = elapsed]
    /\ UNCHANGED <<ct, todo, elapsed, fails, gage, streak, misses, last>>

(* `pct stop` under a timeout; its failure is logged and ignored.          *)
Stop(c) ==
    /\ pc = "stop" /\ Reached(c)
    /\ pc' = "start"
    /\ \/ ct' = [ct EXCEPT ![c] = "stopped"]
       \/ UNCHANGED ct
    /\ streak' = [streak EXCEPT ![c] = 0]
    /\ misses' = [misses EXCEPT ![c] = 0]
    /\ last' = [begun |-> elapsed, late |-> elapsed]
    /\ UNCHANGED <<todo, elapsed, files>>

(* `pct start`: it fails on a container that runs, and may fail on one that *)
(* is stopped.                                                              *)
Start(c) ==
    /\ pc = "start" /\ Reached(c)
    /\ pc' = "probe"
    /\ todo' = todo \ {c}
    /\ \/ /\ ct[c] = "stopped"
          /\ ct' = [ct EXCEPT ![c] = "up"]
          /\ misses' = [misses EXCEPT ![c] = 0]
       \/ UNCHANGED <<ct, misses>>
    /\ UNCHANGED <<elapsed, files, streak, last>>

(* systemd kills the sweep that outlives TimeoutStartSec, wherever it is.  *)
Kill ==
    /\ pc # "idle" /\ elapsed = TimeoutStart
    /\ pc' = "idle"
    /\ todo' = {}
    /\ UNCHANGED <<ct, elapsed, files, streak, misses, last>>

(* The host goes down and comes back: the files survive, the sweep does    *)
(* not, and the containers that are started at boot run again.             *)
Reboot ==
    /\ pc' = "idle"
    /\ todo' = {}
    /\ elapsed' = 0
    /\ ct' \in [Cts -> {"up", "stopped"}]
    /\ misses' = [c \in Cts |-> 0]
    /\ UNCHANGED <<files, streak, last>>

(* Mutant: nothing bounds the time a sweep may take. *)
TickUnbounded ==
    /\ pc = "idle" => elapsed < Interval
    /\ elapsed' = elapsed + 1
    /\ age' = [c \in Cts |-> Older(age[c])]
    /\ gage' = Older(gage)
    /\ last' = [last EXCEPT !.begun = Older(@)]
    /\ UNCHANGED <<ct, pc, todo, fails, streak, misses>>

(* Time passes: until the timer is due, or until the sweep is killed.      *)
Tick ==
    /\ elapsed < (IF pc = "idle" THEN Interval ELSE TimeoutStart)
    /\ elapsed' = elapsed + 1
    /\ age' = [c \in Cts |-> Older(age[c])]
    /\ gage' = Older(gage)
    /\ last' = [last EXCEPT !.begun = Older(@)]
    /\ UNCHANGED <<ct, pc, todo, fails, streak, misses>>

(* The containers and the operator, at any time, a sweep's middle included. *)
Wedge(c)   == ct[c] = "up" /\ ct' = [ct EXCEPT ![c] = "wedged"]
              /\ UNCHANGED <<pc, todo, elapsed, files, streak, misses, last>>
Recover(c) == ct[c] = "wedged" /\ ct' = [ct EXCEPT ![c] = "up"]
              /\ UNCHANGED <<pc, todo, elapsed, files, streak, misses, last>>
PctStop(c) == ct[c] # "stopped" /\ ct' = [ct EXCEPT ![c] = "stopped"]
              /\ UNCHANGED <<pc, todo, elapsed, files, streak, misses, last>>
PctStart(c) == /\ ct[c] = "stopped" /\ ct' = [ct EXCEPT ![c] = "up"]
               /\ misses' = [misses EXCEPT ![c] = 0]
               /\ UNCHANGED <<pc, todo, elapsed, files, streak, last>>

Handle(c) == \/ Answer(c) \/ Miss(c) \/ Defer(c) \/ StampGlobal(c)
             \/ ForgetFails(c) \/ StampOwn(c) \/ Stop(c) \/ Start(c)

Outside(c) == Wedge(c) \/ Recover(c) \/ PctStop(c) \/ PctStart(c)

Sweep == StartSweep \/ EndSweep \/ \E c \in Cts : Handle(c)

WatchNext == Sweep \/ Kill \/ Tick \/ Reboot \/ \E c \in Cts : Outside(c)

WatchSpec == WatchInit /\ [][WatchNext]_watchVars

(* The timer fires, the script runs on and time passes; nothing makes a    *)
(* container wedge or recover, and nobody has to touch one.                *)
FairWatch == WatchSpec /\ WF_watchVars(Sweep) /\ WF_watchVars(Tick)

-----------------------------------------------------------------------------
(* The watchdog begins a restart of c. *)
Bounce(c) == pc = "stop" /\ Reached(c)

(* The rate limit, across kills and reboots: restarts belong to sweeps that *)
(* began at least GLOBAL_COOLDOWN_S apart, and so one sweep restarts one    *)
(* container at most.  (ct-watchdog.sh.j2: the stamps are written before    *)
(* `pct stop`, the host-wide one first.)                                    *)
RestartsPaced ==
    \A c \in Cts : Bounce(c) => Since(last.begun) >= GlobalCooldown

(* "at most one CT restart per GLOBAL_COOLDOWN_S" (ct-watchdog.sh.j2:17,    *)
(* :92): the restarts themselves begin at least that long apart.           *)
OnePerGlobalCooldown ==
    \A c \in Cts : Bounce(c) => last.begun - last.late >= GlobalCooldown

(* A container is restarted only after FAILS_REQUIRED probes in a row were *)
(* missed since its last restart, whatever was killed, rebooted, stopped   *)
(* and started in between.  (ct-watchdog.sh.j2:72-81)                      *)
RestartEarned == \A c \in Cts : Bounce(c) => streak[c] >= FailsRequired

(* "a single slow sweep under host load never triggers action"             *)
(* (ct-watchdog.sh.j2:14-15): a container that is restarted has missed        *)
(* FAILS_REQUIRED probes since it last answered or booted.                 *)
MissedSinceBoot ==
    \A c \in Cts : Bounce(c) => misses[c] >= FailsRequired

(* "force a `pct stop` + `pct start`" (ct-watchdog.sh.j2:16): the service's   *)
(* own time limit never falls between the two.  A container stopped and not  *)
(* started is no longer in `pct list`'s running rows: no later sweep sees it. *)
NeverCutInHalf == [][Kill => pc # "start"]_watchVars

(* From some point on no sweep is killed and the host stays up. *)
Uninterrupted == <>[][pc # "idle" /\ pc' = "idle" => pc = "probe" /\ todo = {}]_watchVars

(* The watchdog gets round to c again and again once c hangs for good. *)
KeepsTurn(c) ==
    RestartEnabled /\ <>[](ct[c] = "wedged") => []<>Bounce(c)

(* The container of the lowest VMID that hangs for good is restarted again  *)
(* and again: the cooldowns and the deferrals to other containers           *)
(* (ct-watchdog.sh.j2:83-102) delay it and never shut it out, provided       *)
(* sweeps run to their end.                                                 *)
FirstTended ==
    Uninterrupted =>
        \A c \in Cts \ Excluded : (\A d \in Cts \ Excluded : c <= d) => KeepsTurn(c)

(* "eligible for restart but another CT was restarted ... - deferring"      *)
(* (ct-watchdog.sh.j2:99): what is deferred comes later, for every container *)
(* and not the first ones only.                                             *)
Tended == Uninterrupted => \A c \in Cts \ Excluded : KeepsTurn(c)
=============================================================================
