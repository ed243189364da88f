---------------------------- MODULE FleetSessions ----------------------------
(***************************************************************************)
(* Background jobs of the fleet CLI (fleet_launcher/sessions.py).          *)
(*                                                                         *)
(* A job is known only through its status file.  Every process that        *)
(* touches it (the dispatching CLI, the detached supervisor, a CLI that    *)
(* runs jobs in its own threads, a CLI that kills a job) reads, merges and *)
(* rewrites that file without a lock, and the rewrite is a truncation      *)
(* followed by a write.  Each caller performs one CLI command.             *)
(***************************************************************************)
EXTENDS Integers

CONSTANTS
    Callers,    \* CLI invocations; each performs one command
    Jobs,       \* job names (status files)
    Ops,        \* the commands the callers may perform
    Codes,      \* exit codes of a command; a negative one is death by signal
    None        \* JSON null / absent

ASSUME OpsAssumption == Ops \subseteq {"dispatch", "wait", "kill"}
ASSUME CodesAssumption == Codes \subseteq Int
ASSUME NoneAssumption ==
    None \notin Int \cup {"dispatch", "wait", "kill"} \cup (Callers \X {"cli", "sup"})

VARIABLES
    file,       \* job -> content of <name>.status
    alive,      \* pids that run
    zombie,     \* pids that exited and whose parent has not reaped them
    cmd,        \* runners whose command runs
    call,       \* caller -> its program counter, arguments and result
    run,        \* runner -> its program counter, exit code and write buffer
    ended       \* history: job -> exit codes its commands really ended with

vars == <<file, alive, zombie, cmd, call, run, ended>>

-----------------------------------------------------------------------------
(* Processes.  A runner <<c, j>> executes run_job for j on behalf of c: in a
   detached supervisor when c dispatched it, in a thread of c when c waits. *)

Runners == Callers \X Jobs
Cli(c) == <<c, "cli">>
Sup(c) == <<c, "sup">>
Pids == Callers \X {"cli", "sup"}

PidOf(r) == IF call[r[1]].op = "wait" THEN Cli(r[1]) ELSE Sup(r[1])

(* Exit codes the launcher itself records: 128 + SIGTERM, command not found. *)
Killed == 143
NotFound == 127

(* A status file that was never written, or is between truncation and write,
   has no readable record. *)
Statuses == {"RUN", "DONE-OK", "DONE-FAIL"}
Record == [status : Statuses \cup {"absent", "torn"},
           pid : Pids \cup {None}, exit_code : Int \cup {None}]
Blank(why) == [status |-> why, pid |-> None, exit_code |-> None]

(* _read_record finds a record. *)
Readable(j) == file[j].status \in Statuses

(* os.kill(pid, 0) succeeds for a zombie. *)
PidAlive(p) == p \in alive \cup zombie

(* Mutant: the liveness of the recorded pid is not checked. *)
JobStateTrusting(j) == IF Readable(j) THEN file[j].status ELSE "UNKNOWN"

(* _job_state *)
JobState(j) ==
    IF ~Readable(j) THEN "UNKNOWN"
    ELSE IF file[j].status = "RUN" /\ ~PidAlive(file[j].pid) THEN "STALE"
    ELSE file[j].status

(* _write_record merges: a pid the writer does not pass keeps its value. *)
Merge(j, status, pid, code) ==
    [status |-> status, exit_code |-> code,
     pid |-> IF pid # None THEN pid ELSE file[j].pid]

-----------------------------------------------------------------------------
(* A program counter names the next step of the process; a write takes three:
   read and merge, truncate, write the merged record. *)

CallPcs == {"idle", "spawn", "record", "recordTrunc", "recordPut", "watch",
            "waiting", "signal", "mark", "markTrunc", "markPut", "ret", "gone"}
RunPcs == {"off", "start", "startTrunc", "startPut", "exec", "running",
           "finish", "finishTrunc", "finishPut", "end", "gone"}

CallRecord == [op : Ops \cup {None}, jobs : SUBSET Jobs, pc : CallPcs,
               pid : Pids \cup {None}, rc : Int \cup {None}, buf : Record]
RunRecord == [pc : RunPcs, rc : Int \cup {None}, buf : Record]

TypeOK ==
    /\ file \in [Jobs -> Record]
    /\ alive \subseteq Pids
    /\ zombie \subseteq Pids
    /\ cmd \subseteq Runners
    /\ call \in [Callers -> CallRecord]
    /\ run \in [Runners -> RunRecord]
    /\ ended \in [Jobs -> SUBSET Int]

Init ==
    /\ file = [j \in Jobs |-> Blank("absent")]
    /\ alive = {Cli(c) : c \in Callers}
    /\ zombie = {}
    /\ cmd = {}
    /\ call = [c \in Callers |-> [op |-> None, jobs |-> {}, pc |-> "idle",
                                  pid |-> None, rc |-> None, buf |-> Blank("absent")]]
    /\ run = [r \in Runners |-> [pc |-> "off", rc |-> None, buf |-> Blank("absent")]]
    /\ ended = [j \in Jobs |-> {}]

-----------------------------------------------------------------------------
(* dispatch_session *)

(* The double-run guard: refuse when the job is RUN. *)
DispatchGuard(c, j) ==
    /\ "dispatch" \in Ops
    /\ call[c].pc = "idle"
    /\ call' = [call EXCEPT ![c].op = "dispatch", ![c].jobs = {j},
                            ![c].pc = IF JobState(j) = "RUN" THEN "ret" ELSE "spawn",
                            ![c].rc = IF JobState(j) = "RUN" THEN 2 ELSE None]
    /\ UNCHANGED <<file, alive, zombie, cmd, run, ended>>

(* Backgrounding opted out, or already inside the job: the caller goes inline. *)
DispatchOptOut(c, j) ==
    /\ "dispatch" \in Ops
    /\ call[c].pc = "idle"
    /\ call' = [call EXCEPT ![c].op = "dispatch", ![c].jobs = {j},
                            ![c].pc = "ret", ![c].rc = -1]
    /\ UNCHANGED <<file, alive, zombie, cmd, run, ended>>

(* Popen of `fleet _run-job`, detached in a session of its own. *)
DispatchSpawn(c, j) ==
    /\ call[c].pc = "spawn"
    /\ call[c].jobs = {j}
    /\ alive' = alive \cup {Sup(c)}
    /\ run' = [run EXCEPT ![<<c, j>>].pc = "start"]
    /\ call' = [call EXCEPT ![c].pc = "record"]
    /\ UNCHANGED <<file, zombie, cmd, ended>>

(* The parent records RUN with the child's pid, after the child started. *)
DispatchRecord(c, j) ==
    /\ call[c].pc = "record"
    /\ call[c].jobs = {j}
    /\ call' = [call EXCEPT ![c].pc = "recordTrunc",
                            ![c].buf = Merge(j, "RUN", Sup(c), None)]
    /\ UNCHANGED <<file, alive, zombie, cmd, run, ended>>

(* Mutant: an unreadable record counts as a death. *)
DispatchWatchUnknown(c, j) ==
    /\ call[c].pc = "watch"
    /\ call[c].jobs = {j}
    /\ call' = [call EXCEPT ![c].pc = "ret",
                            ![c].rc = IF JobState(j) \in {"RUN", "DONE-OK"} THEN 0 ELSE 1]
    /\ UNCHANGED <<file, alive, zombie, cmd, run, ended>>

(* The early-death watch sees the job finish, or times out. *)
DispatchWatch(c, j) ==
    /\ call[c].pc = "watch"
    /\ call[c].jobs = {j}
    /\ \/ /\ JobState(j) \in {"DONE-FAIL", "STALE"}
          /\ LET code == file[j].exit_code
             IN  call' = [call EXCEPT ![c].pc = "ret",
                              ![c].rc = IF JobState(j) = "STALE" \/ code <= 0
                                        THEN 1 ELSE code]
       \/ /\ JobState(j) \notin {"DONE-FAIL", "STALE"}
          /\ call' = [call EXCEPT ![c].pc = "ret", ![c].rc = 0]
    /\ UNCHANGED <<file, alive, zombie, cmd, run, ended>>

-----------------------------------------------------------------------------
(* run_and_wait: run_job for every spec in a thread pool, without the guard.
   The aggregate is the greatest of the exit codes. *)

WaitStart(c, S) ==
    /\ "wait" \in Ops
    /\ call[c].pc = "idle"
    /\ call' = [call EXCEPT ![c].op = "wait", ![c].jobs = S, ![c].pc = "waiting"]
    /\ run' = [r \in Runners |-> IF r \in {c} \X S THEN [run[r] EXCEPT !.pc = "start"]
                                 ELSE run[r]]
    /\ UNCHANGED <<file, alive, zombie, cmd, ended>>

(* Mutant: the last result is returned, not the greatest. *)
WaitReturnLast(c) ==
    /\ call[c].pc = "waiting"
    /\ \A j \in call[c].jobs : run[<<c, j>>].pc = "end"
    /\ \E j \in call[c].jobs : call' = [call EXCEPT ![c].pc = "ret", ![c].rc = run[<<c, j>>].rc]
    /\ UNCHANGED <<file, alive, zombie, cmd, run, ended>>

WaitReturn(c) ==
    /\ call[c].pc = "waiting"
    /\ \A j \in call[c].jobs : run[<<c, j>>].pc = "end"
    /\ \E k \in call[c].jobs :
          /\ \A j \in call[c].jobs : run[<<c, j>>].rc <= run[<<c, k>>].rc
          /\ call' = [call EXCEPT ![c].pc = "ret", ![c].rc = run[<<c, k>>].rc]
    /\ UNCHANGED <<file, alive, zombie, cmd, run, ended>>

-----------------------------------------------------------------------------
(* run_job, in the process PidOf(r) *)

RunStart(r) ==
    /\ run[r].pc = "start"
    /\ run' = [run EXCEPT ![r].pc = "startTrunc",
                          ![r].buf = Merge(r[2], "RUN", PidOf(r), None)]
    /\ UNCHANGED <<file, alive, zombie, cmd, call, ended>>

RunExec(r) ==
    /\ run[r].pc = "exec"
    /\ cmd' = cmd \cup {r}
    /\ run' = [run EXCEPT ![r].pc = "running"]
    /\ UNCHANGED <<file, alive, zombie, call, ended>>

(* Mutant: no finally, so that a failed command is not recorded. *)
CommandEndNoFinally(r, code) ==
    /\ r \in cmd
    /\ cmd' = cmd \ {r}
    /\ ended' = [ended EXCEPT ![r[2]] = @ \cup {code}]
    /\ run' = IF run[r].pc = "running"
              THEN [run EXCEPT ![r].pc = IF code = 0 THEN "finish" ELSE "end", ![r].rc = code]
              ELSE run
    /\ UNCHANGED <<file, alive, zombie, call>>

(* Mutants: a missing executable is not a failure; a misspelt status. *)
DoneStatusOnly1(code) == IF code = 1 THEN "DONE-FAIL" ELSE "DONE-OK"
DoneStatusTypo(code) == IF code = 0 THEN "DONE" ELSE "DONE-FAIL"

(* The command ends; run_job sees its exit code unless run_job died first. *)
CommandEnd(r, code) ==
    /\ r \in cmd
    /\ cmd' = cmd \ {r}
    /\ ended' = [ended EXCEPT ![r[2]] = @ \cup {code}]
    /\ run' = IF run[r].pc = "running"
              THEN [run EXCEPT ![r].pc = "finish", ![r].rc = code]
              ELSE run
    /\ UNCHANGED <<file, alive, zombie, call>>

DoneStatus(code) == IF code = 0 THEN "DONE-OK" ELSE "DONE-FAIL"

(* The executable is missing: rc 127.  Other errors of Popen are not modelled. *)
RunNotFound(r) ==
    /\ run[r].pc = "exec"
    /\ run' = [run EXCEPT ![r].pc = "finish", ![r].rc = NotFound]
    /\ UNCHANGED <<file, alive, zombie, cmd, call, ended>>

RunFinish(r) ==
    /\ run[r].pc = "finish"
    /\ run' = [run EXCEPT ![r].pc = "finishTrunc",
                          ![r].buf = Merge(r[2], DoneStatus(run[r].rc), None, run[r].rc)]
    /\ UNCHANGED <<file, alive, zombie, cmd, call, ended>>

-----------------------------------------------------------------------------
(* Path.write_text: open with O_TRUNC, then write. *)

CallTruncate(c, j) ==
    /\ call[c].pc \in {"recordTrunc", "markTrunc"}
    /\ call[c].jobs = {j}
    /\ file' = [file EXCEPT ![j] = Blank("torn")]
    /\ call' = [call EXCEPT ![c].pc = IF @ = "recordTrunc" THEN "recordPut" ELSE "markPut"]
    /\ UNCHANGED <<alive, zombie, cmd, run, ended>>

CallPut(c, j) ==
    /\ call[c].pc \in {"recordPut", "markPut"}
    /\ call[c].jobs = {j}
    /\ file' = [file EXCEPT ![j] = call[c].buf]
    /\ call' = [call EXCEPT ![c].pc = IF @ = "recordPut" THEN "watch" ELSE "ret"]
    /\ UNCHANGED <<alive, zombie, cmd, run, ended>>

RunTruncate(r) ==
    /\ run[r].pc \in {"startTrunc", "finishTrunc"}
    /\ file' = [file EXCEPT ![r[2]] = Blank("torn")]
    /\ run' = [run EXCEPT ![r].pc = IF @ = "startTrunc" THEN "startPut" ELSE "finishPut"]
    /\ UNCHANGED <<alive, zombie, cmd, call, ended>>

RunPut(r) ==
    /\ run[r].pc \in {"startPut", "finishPut"}
    /\ file' = [file EXCEPT ![r[2]] = run[r].buf]
    /\ run' = [run EXCEPT ![r].pc = IF @ = "startPut" THEN "exec" ELSE "end"]
    /\ UNCHANGED <<alive, zombie, cmd, call, ended>>

-----------------------------------------------------------------------------
(* Death of processes *)

(* Every process of D dies.  A dead child stays a zombie while its parent
   runs, because the dispatching CLI never waits for its supervisor. *)
Die(D) ==
    /\ alive' = alive \ D
    /\ zombie' = {p \in zombie \cup (D \cap alive) : p[2] = "sup" /\ Cli(p[1]) \in alive \ D}

(* The threads of D are gone wherever they were. *)
Gone(D) ==
    run' = [r \in Runners |-> IF PidOf(r) \in D /\ run[r].pc \notin {"off", "end"}
                              THEN [run[r] EXCEPT !.pc = "gone"] ELSE run[r]]

CliExit(c) ==
    /\ call[c].pc = "ret"
    /\ Cli(c) \in alive
    /\ Die({Cli(c)})
    /\ UNCHANGED <<file, cmd, call, run, ended>>

SupervisorExit(r) ==
    /\ run[r].pc = "end"
    /\ PidOf(r) = Sup(r[1])
    /\ Sup(r[1]) \in alive
    /\ Die({Sup(r[1])})
    /\ UNCHANGED <<file, cmd, call, run, ended>>

(* SIGKILL, OOM or power loss: nothing is recorded and the command of a dead
   runner may go on as an orphan. *)
Crash(p) ==
    /\ p \in alive
    /\ p[2] = "cli" => call[p[1]].pc # "ret"
    /\ Die({p})
    /\ Gone({p})
    /\ call' = [c \in Callers |-> IF p = Cli(c) THEN [call[c] EXCEPT !.pc = "gone"]
                                  ELSE call[c]]
    /\ UNCHANGED <<file, cmd, ended>>

-----------------------------------------------------------------------------
(* sessions_kill *)

(* Only the recorded pid is looked at, not the recorded status. *)
KillRead(c, j) ==
    /\ "kill" \in Ops
    /\ call[c].pc = "idle"
    /\ call' = [call EXCEPT ![c].op = "kill", ![c].jobs = {j}, ![c].pid = file[j].pid,
                            ![c].pc = IF PidAlive(file[j].pid) THEN "signal" ELSE "ret"]
    /\ UNCHANGED <<file, alive, zombie, cmd, run, ended>>

(* killpg(SIGTERM) ends the process of the recorded pid; each command of its
   group ends or, handling SIGTERM, goes on. *)
KillSignal(c) ==
    /\ call[c].pc = "signal"
    /\ LET D == {call[c].pid} \cap alive
           group == {r \in cmd : PidOf(r) = call[c].pid}
       IN  /\ Die(D)
           /\ Gone(D)
           /\ \E deaf \in SUBSET group : cmd' = cmd \ (group \ deaf)
           /\ call' = [d \in Callers |->
                          IF d = c THEN [call[d] EXCEPT !.pc = "mark"]
                          ELSE IF Cli(d) \in D /\ call[d].pc # "ret"
                               THEN [call[d] EXCEPT !.pc = "gone"]
                               ELSE call[d]]
    /\ UNCHANGED <<file, ended>>

KillMark(c, j) ==
    /\ call[c].pc = "mark"
    /\ call[c].jobs = {j}
    /\ call' = [call EXCEPT ![c].pc = "markTrunc",
                            ![c].buf = Merge(j, "DONE-FAIL", None, Killed)]
    /\ UNCHANGED <<file, alive, zombie, cmd, run, ended>>

-----------------------------------------------------------------------------
(* The commands a caller may begin, and the steps of one that has begun. *)
Begin(c) ==
    \/ \E j \in Jobs : DispatchGuard(c, j) \/ DispatchOptOut(c, j) \/ KillRead(c, j)
    \/ \E S \in (SUBSET Jobs) \ {{}} : WaitStart(c, S)

Caller(c) ==
    \/ \E j \in Jobs :
          \/ DispatchSpawn(c, j) \/ DispatchRecord(c, j) \/ DispatchWatch(c, j)
          \/ KillMark(c, j) \/ CallTruncate(c, j) \/ CallPut(c, j)
    \/ WaitReturn(c) \/ KillSignal(c) \/ CliExit(c)

Runner(r) ==
    \/ RunStart(r) \/ RunExec(r) \/ RunNotFound(r) \/ RunFinish(r)
    \/ RunTruncate(r) \/ RunPut(r) \/ SupervisorExit(r)

Command(r) == \E code \in Codes : CommandEnd(r, code)

Next ==
    \/ \E c \in Callers : Begin(c) \/ Caller(c)
    \/ \E r \in Runners : Runner(r) \/ Command(r)
    \/ \E p \in Pids : Crash(p)

Spec == Init /\ [][Next]_vars

(* The operating system schedules every process and every command ends; no
   caller has to begin a command. *)
Fairness ==
    /\ \A c \in Callers : WF_vars(Caller(c))
    /\ \A r \in Runners : WF_vars(Runner(r)) /\ WF_vars(Command(r))

FairSpec == Spec /\ Fairness

-----------------------------------------------------------------------------
(* Properties *)

(* A job is only ever recorded as successful if its command really exited 0,
   whoever else dispatched, waited for, killed or crashed it meanwhile. *)
NoFabricatedSuccess ==
    \A j \in Jobs : Readable(j) =>
        (file[j].status = "DONE-OK" => 0 \in ended[j])

(* r is the only run of its job and nobody killed the job. *)
Sole(r) ==
    /\ \A q \in Runners : q[2] = r[2] /\ q # r => run[q].pc = "off"
    /\ \A c \in Callers : call[c].op = "kill" => r[2] \notin call[c].jobs

(* Without contention on the job, a finished record carries the exit code the
   command ended with: `status` may be late or STALE, never wrong.  With
   run_and_wait it is not late either: once the run has ended the record tells
   its exit code. *)
SoleRecordTrue ==
    \A r \in Runners : Sole(r) /\ run[r].pc # "off" =>
        /\ JobState(r[2]) \in {"DONE-OK", "DONE-FAIL"} => file[r[2]].exit_code = run[r].rc
        /\ call[r[1]].op = "wait" /\ run[r].pc = "end" =>
               JobState(r[2]) = DoneStatus(run[r].rc) /\ file[r[2]].exit_code = run[r].rc

(* Without contention, a dispatch that reports an error reports a real one:
   the run failed or its supervisor died. *)
DispatchErrorReal ==
    \A c \in Callers, j \in Jobs :
        /\ call[c].op = "dispatch" /\ call[c].pc = "ret" /\ call[c].rc \notin {-1, 0, 2}
        /\ call[c].jobs = {j} /\ Sole(<<c, j>>)
        => run[<<c, j>>].rc # 0

(* run_and_wait is the honest path: it returns only when none of its own
   commands runs any more, and no positive exit code among them is lost,
   whatever other callers did to the records. *)
WaitHonest ==
    \A c \in Callers : call[c].op = "wait" /\ call[c].pc = "ret" =>
        \A j \in call[c].jobs :
            /\ <<c, j>> \notin cmd
            /\ run[<<c, j>>].rc > 0 => call[c].rc > 0

(* status never stays RUN: the job finishes, or its crash shows as STALE. *)
RunSettles == \A j \in Jobs : (JobState(j) = "RUN") ~> (JobState(j) # "RUN")

(* "a job's recorded exit code is the TRUTH": once the only run of a job has
   ended and the command that started it has returned, the record tells its
   exit code. *)
RecordIsTruth ==
    \A r \in Runners :
        /\ Sole(r) /\ run[r].pc = "end" /\ call[r[1]].pc = "ret"
        => JobState(r[2]) = DoneStatus(run[r].rc) /\ file[r[2]].exit_code = run[r].rc

(* "Returns 2 if a job of this name is already running (double-run guard)":
   no two commands of one job run at the same time. *)
NoDoubleRun == \A q, r \in cmd : q[2] = r[2] => q = r

(* "aggregate must be non-zero when any job fails" *)
AggregateHonest ==
    \A c \in Callers : call[c].op = "wait" /\ call[c].pc = "ret" =>
        (call[c].rc = 0 => \A j \in call[c].jobs : run[<<c, j>>].rc = 0)

(* The early-death watch surfaces a job that died instead of reporting a
   launch that never ran: if the supervisor died before the watch ended, the
   dispatch does not return 0. *)
EarlyDeathSurfaced ==
    [][\A c \in Callers, j \in Jobs :
          /\ DispatchWatch(c, j)
          /\ run[<<c, j>>].pc = "gone"
          => call'[c].rc # 0]_vars
=============================================================================
