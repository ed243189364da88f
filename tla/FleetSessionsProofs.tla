-------------------------- MODULE FleetSessionsProofs --------------------------
(***************************************************************************)
(* Theorems about FleetSessions, for any number of callers and jobs and    *)
(* any exit codes.                                                         *)
(***************************************************************************)
EXTENDS FleetSessions, TLAPS

-----------------------------------------------------------------------------
(* Type correctness *)

(* A merged record is a record. *)
LEMMA MergeType ==
    ASSUME TypeOK, NEW j \in Jobs, NEW status \in Statuses,
           NEW pid \in Pids \cup {None}, NEW code \in Int \cup {None}
    PROVE  Merge(j, status, pid, code) \in Record
BY DEF TypeOK, Merge, Record

LEMMA BlankType == \A why \in {"absent", "torn"} : Blank(why) \in Record
BY DEF Blank, Record

LEMMA DoneStatusType == \A code : DoneStatus(code) \in Statuses
BY DEF DoneStatus, Statuses

LEMMA PidType == \A c \in Callers : Cli(c) \in Pids /\ Sup(c) \in Pids
BY DEF Cli, Sup, Pids

LEMMA RunnerType == \A r \in Runners : /\ r[1] \in Callers /\ r[2] \in Jobs
                                       /\ PidOf(r) \in Pids
BY PidType DEF Runners, PidOf

LEMMA PairRunner == \A c \in Callers, j \in Jobs : <<c, j>> \in Runners
BY DEF Runners

(* Every step keeps the types. *)
LEMMA TypeStep == TypeOK /\ [Next]_vars => TypeOK'
<1> SUFFICES ASSUME TypeOK, [Next]_vars PROVE TypeOK'
  OBVIOUS
<1> USE DEF TypeOK
<1>1. ASSUME NEW c \in Callers, NEW j \in Jobs, DispatchGuard(c, j) PROVE TypeOK'
  BY <1>1 DEF DispatchGuard, CallRecord, CallPcs
<1>2. ASSUME NEW c \in Callers, NEW j \in Jobs, DispatchOptOut(c, j) PROVE TypeOK'
  BY <1>2 DEF DispatchOptOut, CallRecord, CallPcs
<1>3. ASSUME NEW c \in Callers, NEW j \in Jobs, DispatchSpawn(c, j) PROVE TypeOK'
  BY <1>3, PidType, PairRunner DEF DispatchSpawn, CallRecord, CallPcs, RunRecord, RunPcs
<1>4. ASSUME NEW c \in Callers, NEW j \in Jobs, DispatchRecord(c, j) PROVE TypeOK'
  <2>1. Merge(j, "RUN", Sup(c), None) \in Record
    BY MergeType, PidType DEF Statuses
  <2>2. [call[c] EXCEPT !.pc = "recordTrunc", !.buf = Merge(j, "RUN", Sup(c), None)]
            \in CallRecord
    BY <2>1 DEF CallRecord, CallPcs
  <2>3. QED
    BY <1>4, <2>2 DEF DispatchRecord
<1>5. ASSUME NEW c \in Callers, NEW j \in Jobs, DispatchWatch(c, j) PROVE TypeOK'
  <2>1. file[j].exit_code \in Int \cup {None}
    BY DEF Record
  <2>2. QED
    BY <1>5, <2>1 DEF DispatchWatch, CallRecord, CallPcs
<1>6. ASSUME NEW c \in Callers, NEW j \in Jobs, KillRead(c, j) PROVE TypeOK'
  <2>1. file[j].pid \in Pids \cup {None}
    BY DEF Record
  <2>2. QED
    BY <1>6, <2>1 DEF KillRead, CallRecord, CallPcs
<1>7. ASSUME NEW c \in Callers, NEW j \in Jobs, KillMark(c, j) PROVE TypeOK'
  <2>1. Killed \in Int
    BY DEF Killed
  <2>2. Merge(j, "DONE-FAIL", None, Killed) \in Record
    BY <2>1, MergeType DEF Statuses
  <2>3. [call[c] EXCEPT !.pc = "markTrunc", !.buf = Merge(j, "DONE-FAIL", None, Killed)]
            \in CallRecord
    BY <2>2 DEF CallRecord, CallPcs
  <2>4. QED
    BY <1>7, <2>3 DEF KillMark
<1>8. ASSUME NEW c \in Callers, NEW j \in Jobs, CallTruncate(c, j) PROVE TypeOK'
  <2>1. call' \in [Callers -> CallRecord]
    BY <1>8 DEF CallTruncate, CallRecord, CallPcs
  <2>2. file' \in [Jobs -> Record]
    BY <1>8, BlankType DEF CallTruncate
  <2>3. QED
    BY <1>8, <2>1, <2>2 DEF CallTruncate
<1>9. ASSUME NEW c \in Callers, NEW j \in Jobs, CallPut(c, j) PROVE TypeOK'
  <2>1. \A pc \in CallPcs : [call[c] EXCEPT !.pc = pc] \in CallRecord
    BY DEF CallRecord
  <2>2. call' \in [Callers -> CallRecord]
    BY <1>9, <2>1 DEF CallPut, CallPcs
  <2>3. file' \in [Jobs -> Record]
    BY <1>9 DEF CallPut, CallRecord
  <2>4. QED
    BY <1>9, <2>2, <2>3 DEF CallPut
<1>10. ASSUME NEW c \in Callers, NEW S \in SUBSET Jobs, WaitStart(c, S) PROVE TypeOK'
  BY <1>10 DEF WaitStart, CallRecord, CallPcs, RunRecord, RunPcs
<1>11. ASSUME NEW c \in Callers, WaitReturn(c) PROVE TypeOK'
  <2>1. PICK k \in call[c].jobs :
            call' = [call EXCEPT ![c].pc = "ret", ![c].rc = run[<<c, k>>].rc]
    BY <1>11 DEF WaitReturn
  <2>2. run[<<c, k>>].rc \in Int \cup {None}
    BY PairRunner DEF CallRecord, RunRecord
  <2>3. [call[c] EXCEPT !.pc = "ret", !.rc = run[<<c, k>>].rc] \in CallRecord
    BY <2>2 DEF CallRecord, CallPcs
  <2>4. QED
    BY <1>11, <2>1, <2>3 DEF WaitReturn
<1>12. ASSUME NEW c \in Callers, KillSignal(c) PROVE TypeOK'
  <2>1. alive' \subseteq Pids /\ zombie' \subseteq Pids
    BY <1>12 DEF KillSignal, Die
  <2>2. run' \in [Runners -> RunRecord]
    BY <1>12 DEF KillSignal, Gone, RunRecord, RunPcs
  <2>3. call' \in [Callers -> CallRecord]
    BY <1>12 DEF KillSignal, CallRecord, CallPcs
  <2>4. QED
    BY <1>12, <2>1, <2>2, <2>3 DEF KillSignal
<1>13. ASSUME NEW c \in Callers, CliExit(c) PROVE TypeOK'
  BY <1>13 DEF CliExit, Die
<1>14. ASSUME NEW r \in Runners, RunStart(r) PROVE TypeOK'
  <2>1. Merge(r[2], "RUN", PidOf(r), None) \in Record
    BY MergeType, RunnerType DEF Statuses
  <2>2. [run[r] EXCEPT !.pc = "startTrunc",
              !.buf = Merge(r[2], "RUN", PidOf(r), None)] \in RunRecord
    BY <2>1 DEF RunRecord, RunPcs
  <2>3. QED
    BY <1>14, <2>2 DEF RunStart
<1>15. ASSUME NEW r \in Runners, RunExec(r) PROVE TypeOK'
  BY <1>15 DEF RunExec, RunRecord, RunPcs
<1>16. ASSUME NEW r \in Runners, RunNotFound(r) PROVE TypeOK'
  <2>1. NotFound \in Int
    BY DEF NotFound
  <2>2. QED
    BY <1>16, <2>1 DEF RunNotFound, RunRecord, RunPcs
<1>17. ASSUME NEW r \in Runners, RunFinish(r) PROVE TypeOK'
  <2>1. Merge(r[2], DoneStatus(run[r].rc), None, run[r].rc) \in Record
    BY MergeType, RunnerType, DoneStatusType DEF RunRecord
  <2>2. [run[r] EXCEPT !.pc = "finishTrunc",
              !.buf = Merge(r[2], DoneStatus(run[r].rc), None, run[r].rc)] \in RunRecord
    BY <2>1 DEF RunRecord, RunPcs
  <2>3. QED
    BY <1>17, <2>2 DEF RunFinish
<1>18. ASSUME NEW r \in Runners, RunTruncate(r) PROVE TypeOK'
  <2>1. \A pc \in RunPcs : [run[r] EXCEPT !.pc = pc] \in RunRecord
    BY DEF RunRecord
  <2>2. run' \in [Runners -> RunRecord]
    BY <1>18, <2>1 DEF RunTruncate, RunPcs
  <2>3. file' \in [Jobs -> Record]
    BY <1>18, BlankType, RunnerType DEF RunTruncate
  <2>4. QED
    BY <1>18, <2>2, <2>3 DEF RunTruncate
<1>19. ASSUME NEW r \in Runners, RunPut(r) PROVE TypeOK'
  BY <1>19, RunnerType DEF RunPut, RunRecord, RunPcs
<1>20. ASSUME NEW r \in Runners, SupervisorExit(r) PROVE TypeOK'
  BY <1>20 DEF SupervisorExit, Die
<1>21. ASSUME NEW r \in Runners, NEW code \in Codes, CommandEnd(r, code) PROVE TypeOK'
  BY <1>21, RunnerType, CodesAssumption DEF CommandEnd, RunRecord, RunPcs
<1>22. ASSUME NEW p \in Pids, Crash(p) PROVE TypeOK'
  <2>1. alive' \subseteq Pids /\ zombie' \subseteq Pids
    BY <1>22 DEF Crash, Die
  <2>2. run' \in [Runners -> RunRecord]
    BY <1>22 DEF Crash, Gone, RunRecord, RunPcs
  <2>3. call' \in [Callers -> CallRecord]
    BY <1>22 DEF Crash, CallRecord, CallPcs
  <2>4. QED
    BY <1>22, <2>1, <2>2, <2>3 DEF Crash
<1>23. CASE UNCHANGED vars
  BY <1>23 DEF vars
<1>24. QED
  BY <1>1, <1>2, <1>3, <1>4, <1>5, <1>6, <1>7, <1>8, <1>9, <1>10, <1>11, <1>12, <1>13,
     <1>14, <1>15, <1>16, <1>17, <1>18, <1>19, <1>20, <1>21, <1>22, <1>23
  DEF Next, Begin, Caller, Runner, Command

LEMMA TypeInit == Init => TypeOK
BY BlankType, PidType DEF Init, TypeOK, CallRecord, CallPcs, RunRecord, RunPcs

(* The status files, processes and program counters keep their types. *)
THEOREM TypeCorrect == Spec => []TypeOK
<1>1. QED
  BY TypeInit, TypeStep, PTL DEF Spec

-----------------------------------------------------------------------------
(* No fabricated success *)

(* A record that reports success was earned by a command of its job.  The
   invariant carries this through the write buffers: a buffer is put in the
   file long after it was filled, when other writers have been at work. *)
Earned(rec, j) == rec.status = "DONE-OK" => 0 \in ended[j]

SuccessInv ==
    /\ \A j \in Jobs : Earned(file[j], j)
    /\ \A c \in Callers : call[c].buf.status # "DONE-OK"
    /\ \A r \in Runners : Earned(run[r].buf, r[2])
    /\ \A r \in Runners : run[r].rc = 0 => 0 \in ended[r[2]]

LEMMA SuccessInit == Init => SuccessInv
BY RunnerType, NoneAssumption DEF Init, SuccessInv, Earned, Blank

(* What the callers' steps that leave the runners alone do to the buffers. *)
LEMMA SuccessCaller ==
    ASSUME TypeOK, SuccessInv, UNCHANGED <<run, ended>>,
           \A j \in Jobs : \/ file'[j] = file[j]
                           \/ file'[j].status = "torn"
                           \/ \E c \in Callers : file'[j] = call[c].buf,
           \A c \in Callers : \/ call'[c].buf = call[c].buf
                              \/ call'[c].buf.status \in {"RUN", "DONE-FAIL"}
    PROVE  SuccessInv'
BY DEF SuccessInv, Earned

(* Steps that change no file, no buffer and no exit code. *)
LEMMA SuccessIdle ==
    ASSUME TypeOK, SuccessInv, UNCHANGED <<file, ended>>,
           \A c \in Callers : call'[c].buf = call[c].buf,
           \A r \in Runners : run'[r].buf = run[r].buf /\ run'[r].rc = run[r].rc
    PROVE  SuccessInv'
BY DEF SuccessInv, Earned

LEMMA SuccessStep == TypeOK /\ SuccessInv /\ [Next]_vars => SuccessInv'
<1> SUFFICES ASSUME TypeOK, SuccessInv, [Next]_vars PROVE SuccessInv'
  OBVIOUS
<1>1. ASSUME NEW c \in Callers, Begin(c) PROVE SuccessInv'
  <2>1. ASSUME NEW j \in Jobs, DispatchGuard(c, j) \/ DispatchOptOut(c, j) \/ KillRead(c, j)
        PROVE  SuccessInv'
    BY <2>1, SuccessIdle DEF DispatchGuard, DispatchOptOut, KillRead, TypeOK, CallRecord
  <2>2. ASSUME NEW S \in SUBSET Jobs, WaitStart(c, S) PROVE SuccessInv'
    BY <2>2, SuccessIdle DEF WaitStart, TypeOK, CallRecord, RunRecord
  <2>3. QED
    BY <1>1, <2>1, <2>2 DEF Begin
<1>2. ASSUME NEW c \in Callers, Caller(c) PROVE SuccessInv'
  <2>1. ASSUME NEW j \in Jobs, DispatchSpawn(c, j) PROVE SuccessInv'
    BY <2>1, SuccessIdle, PairRunner DEF DispatchSpawn, TypeOK, CallRecord, RunRecord
  <2>2. ASSUME NEW j \in Jobs, DispatchRecord(c, j) \/ KillMark(c, j) PROVE SuccessInv'
    BY <2>2, SuccessCaller DEF DispatchRecord, KillMark, Merge, TypeOK, CallRecord
  <2>3. ASSUME NEW j \in Jobs, DispatchWatch(c, j) PROVE SuccessInv'
    BY <2>3, SuccessIdle DEF DispatchWatch, TypeOK, CallRecord
  <2>4. ASSUME NEW j \in Jobs, CallTruncate(c, j) PROVE SuccessInv'
    BY <2>4, SuccessCaller DEF CallTruncate, Blank, TypeOK, CallRecord
  <2>5. ASSUME NEW j \in Jobs, CallPut(c, j) PROVE SuccessInv'
    BY <2>5, SuccessCaller DEF CallPut, TypeOK, CallRecord
  <2>6. CASE WaitReturn(c)
    BY <2>6, SuccessIdle DEF WaitReturn, TypeOK, CallRecord
  <2>7. CASE KillSignal(c)
    BY <2>7, SuccessIdle DEF KillSignal, Gone, TypeOK, CallRecord, RunRecord
  <2>8. CASE CliExit(c)
    BY <2>8, SuccessIdle DEF CliExit
  <2>9. QED
    BY <1>2, <2>1, <2>2, <2>3, <2>4, <2>5, <2>6, <2>7, <2>8 DEF Caller
<1>3. ASSUME NEW r \in Runners, Runner(r) PROVE SuccessInv'
  <2>1. CASE RunStart(r)
    BY <2>1 DEF RunStart, Merge, SuccessInv, Earned, TypeOK, RunRecord
  <2>2. CASE RunExec(r) \/ SupervisorExit(r)
    BY <2>2, SuccessIdle DEF RunExec, SupervisorExit, TypeOK, RunRecord
  <2>3. CASE RunNotFound(r)
    <3>1. NotFound # 0
      BY DEF NotFound
    <3>2. QED
      BY <2>3, <3>1 DEF RunNotFound, SuccessInv, Earned, TypeOK, RunRecord
  <2>4. CASE RunFinish(r)
    BY <2>4 DEF RunFinish, Merge, DoneStatus, SuccessInv, Earned, TypeOK, RunRecord
  <2>5. CASE RunTruncate(r)
    BY <2>5, RunnerType DEF RunTruncate, Blank, SuccessInv, Earned, TypeOK, RunRecord
  <2>6. CASE RunPut(r)
    BY <2>6, RunnerType DEF RunPut, SuccessInv, Earned, TypeOK, RunRecord
  <2>7. QED
    BY <1>3, <2>1, <2>2, <2>3, <2>4, <2>5, <2>6 DEF Runner
<1>4. ASSUME NEW r \in Runners, NEW code \in Codes, CommandEnd(r, code) PROVE SuccessInv'
  BY <1>4, RunnerType DEF CommandEnd, SuccessInv, Earned, TypeOK, RunRecord
<1>5. ASSUME NEW p \in Pids, Crash(p) PROVE SuccessInv'
  BY <1>5, SuccessIdle DEF Crash, Gone, TypeOK, CallRecord, RunRecord
<1>6. CASE UNCHANGED vars
  BY <1>6 DEF vars, SuccessInv, Earned
<1>7. QED
  BY <1>1, <1>2, <1>3, <1>4, <1>5, <1>6 DEF Next, Command

(* Whatever callers, supervisors, kills and crashes interleave on a status file,
   a job is recorded DONE-OK only if one of its commands exited 0. *)
THEOREM SuccessIsEarned == Spec => []NoFabricatedSuccess
<1>1. SuccessInv => NoFabricatedSuccess
  BY DEF SuccessInv, Earned, NoFabricatedSuccess
<1>2. QED
  BY <1>1, SuccessInit, SuccessStep, TypeCorrect, PTL DEF Spec

-----------------------------------------------------------------------------
(* run_and_wait waits *)

Finished == {"finish", "finishTrunc", "finishPut", "end"}

(* A caller that has not spawned anything has no runner; a waiting caller does
   nothing else until it returns; a command runs only under a runner that
   waits for it or has died; a finished runner has an exit code; and a returned
   run_and_wait saw all of its runners end. *)
WaitInv ==
    /\ \A c \in Callers, j \in Jobs :
          call[c].pc \in {"idle", "spawn"} => run[<<c, j>>].pc = "off"
    /\ \A c \in Callers : call[c].op = "wait" => call[c].pc \in {"waiting", "ret", "gone"}
    /\ \A r \in cmd : run[r].pc \in {"running", "gone"}
    /\ \A r \in Runners : run[r].pc \in Finished => run[r].rc \in Int
    /\ \A c \in Callers : call[c].op = "wait" /\ call[c].pc = "ret" =>
          \A j \in call[c].jobs : /\ run[<<c, j>>].pc = "end"
                                  /\ call[c].rc \in Int
                                  /\ run[<<c, j>>].rc <= call[c].rc

LEMMA WaitInit == Init => WaitInv
BY PairRunner, NoneAssumption DEF Init, WaitInv, Finished

(* Steps that leave the runners and the returned waits alone. *)
LEMMA WaitIdle ==
    ASSUME TypeOK, WaitInv, UNCHANGED <<run, cmd>>,
           \A c \in Callers :
              \/ call'[c] = call[c]
              \/ /\ call'[c].pc \notin {"idle", "spawn"} \/ call[c].pc \in {"idle", "spawn"}
                 /\ call'[c].op # "wait"
    PROVE  WaitInv'
<1>1. \A c \in Callers : call'[c].pc \in {"idle", "spawn"} => call[c].pc \in {"idle", "spawn"}
  OBVIOUS
<1>2. \A c \in Callers : call'[c].op = "wait" => call'[c] = call[c]
  OBVIOUS
<1>3. QED
  BY <1>1, <1>2 DEF WaitInv, Finished

(* Steps of one runner that has been started and is not yet finished. *)
LEMMA WaitRunner ==
    ASSUME TypeOK, WaitInv, NEW r \in Runners, run[r].pc \notin {"off", "end", "gone"},
           UNCHANGED call, cmd' \subseteq cmd \cup {r},
           \A q \in Runners \ {r} : run'[q] = run[q],
           run'[r].pc # "off",
           r \in cmd' => run'[r].pc \in {"running", "gone"},
           run'[r].pc \in Finished => run'[r].rc \in Int
    PROVE  WaitInv'
BY PairRunner DEF WaitInv, Finished, TypeOK, CallRecord

(* Deaths: a runner that is neither off nor ended may be gone, and so may a
   caller that has not returned. *)
LEMMA WaitDeath ==
    ASSUME TypeOK, WaitInv, NEW D, Gone(D), cmd' \subseteq cmd,
           \A c \in Callers : \/ call'[c] = call[c]
                              \/ call'[c].pc = "gone"
                              \/ call'[c].pc = "mark" /\ call'[c].op # "wait"
    PROVE  WaitInv'
<1>1. \A r \in Runners : \/ run'[r] = run[r]
                         \/ /\ run[r].pc \notin {"off", "end"}
                            /\ run'[r].pc = "gone"
  BY DEF Gone, TypeOK, RunRecord
<1>2. QED
  BY <1>1, PairRunner DEF WaitInv, Finished, TypeOK, CallRecord

LEMMA WaitStep == TypeOK /\ WaitInv /\ [Next]_vars => WaitInv'
<1> SUFFICES ASSUME TypeOK, WaitInv, [Next]_vars PROVE WaitInv'
  OBVIOUS
<1>1. ASSUME NEW c \in Callers, Begin(c) PROVE WaitInv'
  <2>1. ASSUME NEW j \in Jobs, DispatchGuard(c, j) \/ DispatchOptOut(c, j) \/ KillRead(c, j)
        PROVE  WaitInv'
    BY <2>1, WaitIdle DEF DispatchGuard, DispatchOptOut, KillRead, TypeOK, CallRecord
  <2>2. ASSUME NEW S \in SUBSET Jobs, WaitStart(c, S) PROVE WaitInv'
    <3>1. \A r \in Runners : r \in {c} \X S => run[r].pc = "off" /\ run'[r].pc = "start"
      BY <2>2 DEF WaitStart, WaitInv, TypeOK, RunRecord
    <3>2. \A r \in Runners : r \notin {c} \X S => run'[r] = run[r]
      BY <2>2 DEF WaitStart
    <3>3. \A d \in Callers, j \in Jobs : d # c => <<d, j>> \notin {c} \X S
      OBVIOUS
    <3>4. QED
      BY <2>2, <3>1, <3>2, <3>3, PairRunner
      DEF WaitStart, WaitInv, Finished, TypeOK, CallRecord
  <2>3. QED
    BY <1>1, <2>1, <2>2 DEF Begin
<1>2. ASSUME NEW c \in Callers, Caller(c) PROVE WaitInv'
  <2>1. ASSUME NEW j \in Jobs, DispatchSpawn(c, j) PROVE WaitInv'
    <3>1. run[<<c, j>>].pc = "off" /\ <<c, j>> \in Runners
      BY <2>1, PairRunner DEF DispatchSpawn, WaitInv
    <3>2. /\ \A r \in Runners : r # <<c, j>> => run'[r] = run[r]
          /\ run'[<<c, j>>].pc = "start"
      BY <2>1, <3>1 DEF DispatchSpawn, TypeOK, RunRecord
    <3>3. /\ call'[c].pc = "record"
          /\ \A d \in Callers : d # c => call'[d] = call[d]
      BY <2>1 DEF DispatchSpawn, TypeOK, CallRecord
    <3>4. QED
      BY <2>1, <3>1, <3>2, <3>3, PairRunner DEF DispatchSpawn, WaitInv, Finished, TypeOK, CallRecord
  <2>2. ASSUME NEW j \in Jobs,
               DispatchRecord(c, j) \/ KillMark(c, j) \/ CallTruncate(c, j)
        PROVE  WaitInv'
    BY <2>2, WaitIdle DEF DispatchRecord, KillMark, CallTruncate, WaitInv, TypeOK, CallRecord
  <2>3. ASSUME NEW j \in Jobs, DispatchWatch(c, j) \/ CallPut(c, j) PROVE WaitInv'
    BY <2>3, WaitIdle DEF DispatchWatch, CallPut, WaitInv, TypeOK, CallRecord
  <2>4. CASE WaitReturn(c)
    <3>1. PICK k \in call[c].jobs :
             /\ \A j \in call[c].jobs : run[<<c, j>>].rc <= run[<<c, k>>].rc
             /\ call' = [call EXCEPT ![c].pc = "ret", ![c].rc = run[<<c, k>>].rc]
      BY <2>4 DEF WaitReturn
    <3>2. run[<<c, k>>].rc \in Int
      BY <2>4, PairRunner DEF WaitReturn, WaitInv, Finished, TypeOK, CallRecord
    <3>3. /\ call'[c].pc = "ret" /\ call'[c].rc = run[<<c, k>>].rc
          /\ call'[c].jobs = call[c].jobs
          /\ \A d \in Callers : d # c => call'[d] = call[d]
      BY <3>1 DEF TypeOK, CallRecord
    <3>4. QED
      BY <2>4, <3>1, <3>2, <3>3 DEF WaitReturn, WaitInv, Finished, TypeOK, CallRecord
  <2>5. CASE KillSignal(c)
    <3>1. /\ Gone({call[c].pid} \cap alive)
          /\ cmd' \subseteq cmd
          /\ \A d \in Callers : \/ call'[d] = call[d]
                                \/ call'[d].pc = "gone"
                                \/ call'[d].pc = "mark" /\ call'[d].op # "wait"
      BY <2>5 DEF KillSignal, WaitInv, TypeOK, CallRecord
    <3>2. QED
      BY <3>1, WaitDeath
  <2>6. CASE CliExit(c)
    BY <2>6, WaitIdle DEF CliExit
  <2>7. QED
    BY <1>2, <2>1, <2>2, <2>3, <2>4, <2>5, <2>6 DEF Caller
<1>3. ASSUME NEW r \in Runners, Runner(r) PROVE WaitInv'
  <2>1. CASE RunStart(r)
    <3>1. /\ \A q \in Runners \ {r} : run'[q] = run[q]
          /\ run'[r].pc = "startTrunc"
      BY <2>1 DEF RunStart, TypeOK, RunRecord
    <3>2. QED
      BY <2>1, <3>1, WaitRunner DEF RunStart, WaitInv, Finished
  <2>2. CASE RunExec(r)
    BY <2>2, WaitRunner DEF RunExec, WaitInv, Finished, TypeOK, RunRecord
  <2>3. CASE RunNotFound(r)
    <3>1. NotFound \in Int
      BY DEF NotFound
    <3>2. /\ \A q \in Runners \ {r} : run'[q] = run[q]
          /\ run'[r].pc = "finish" /\ run'[r].rc = NotFound
      BY <2>3 DEF RunNotFound, TypeOK, RunRecord
    <3>3. QED
      BY <2>3, <3>1, <3>2, WaitRunner DEF RunNotFound, WaitInv
  <2>4. CASE RunFinish(r)
    <3>1. /\ \A q \in Runners \ {r} : run'[q] = run[q]
          /\ run'[r].pc = "finishTrunc" /\ run'[r].rc = run[r].rc
      BY <2>4 DEF RunFinish, TypeOK, RunRecord
    <3>2. QED
      BY <2>4, <3>1, WaitRunner DEF RunFinish, WaitInv, Finished
  <2>5. CASE RunTruncate(r)
    BY <2>5, WaitRunner DEF RunTruncate, WaitInv, Finished, TypeOK, RunRecord
  <2>6. CASE RunPut(r)
    BY <2>6, WaitRunner DEF RunPut, WaitInv, Finished, TypeOK, RunRecord
  <2>7. CASE SupervisorExit(r)
    BY <2>7, WaitIdle DEF SupervisorExit
  <2>8. QED
    BY <1>3, <2>1, <2>2, <2>3, <2>4, <2>5, <2>6, <2>7 DEF Runner
<1>4. ASSUME NEW r \in Runners, NEW code \in Codes, CommandEnd(r, code) PROVE WaitInv'
  <2>1. CASE run[r].pc = "running"
    <3>1. /\ \A q \in Runners \ {r} : run'[q] = run[q]
          /\ run'[r].pc = "finish" /\ run'[r].rc = code
      BY <1>4, <2>1 DEF CommandEnd, TypeOK, RunRecord
    <3>2. code \in Int
      BY CodesAssumption
    <3>3. QED
      BY <1>4, <2>1, <3>1, <3>2, WaitRunner DEF CommandEnd
  <2>2. CASE run[r].pc # "running"
    BY <1>4, <2>2 DEF CommandEnd, WaitInv, Finished
  <2>3. QED
    BY <2>1, <2>2
<1>5. ASSUME NEW p \in Pids, Crash(p) PROVE WaitInv'
  <2>1. /\ Gone({p}) /\ cmd' \subseteq cmd
        /\ \A c \in Callers : call'[c] = call[c] \/ call'[c].pc = "gone"
    BY <1>5 DEF Crash, TypeOK, CallRecord
  <2>2. QED
    BY <2>1, WaitDeath
<1>6. CASE UNCHANGED vars
  BY <1>6, WaitIdle DEF vars
<1>7. QED
  BY <1>1, <1>2, <1>3, <1>4, <1>5, <1>6 DEF Next, Command

(* run_and_wait returns only when none of its own commands runs any more, and a
   positive exit code among them makes its own exit code positive, whatever
   other callers did to the records meanwhile. *)
THEOREM WaitIsHonest == Spec => []WaitHonest
<1>1. TypeOK /\ WaitInv => WaitHonest
  BY PairRunner DEF TypeOK, CallRecord, WaitInv, Finished, WaitHonest
<1>2. QED
  BY <1>1, WaitInit, WaitStep, TypeCorrect, PTL DEF Spec

-----------------------------------------------------------------------------
(* Records without contention *)

Writing == {"record", "recordTrunc", "recordPut", "watch"}
Killing == {"signal", "mark", "markTrunc", "markPut"}

(* The command of a caller fits where it is; a dispatch that has spawned its
   supervisor has a run. *)
Phases ==
    \A c \in Callers :
        /\ call[c].pc = "idle" => call[c].op = None
        /\ call[c].pc \in {"spawn"} \cup Writing => call[c].op = "dispatch"
        /\ call[c].pc = "waiting" => call[c].op = "wait"
        /\ call[c].pc \in Killing => call[c].op = "kill"
        /\ call[c].pc \in Writing =>
              \A j \in Jobs : call[c].jobs = {j} => run[<<c, j>>].pc # "off"

(* What is about to be written. *)
Written ==
    /\ \A c \in Callers : call[c].pc \in {"recordTrunc", "recordPut"} =>
          call[c].buf.status = "RUN" /\ call[c].buf.pid = Sup(c)
    /\ \A r \in Runners :
          /\ run[r].pc \in {"startTrunc", "startPut"} =>
                run[r].buf.status = "RUN" /\ run[r].buf.pid = PidOf(r)
          /\ run[r].pc \in {"finishTrunc", "finishPut"} =>
                /\ run[r].buf.status = DoneStatus(run[r].rc)
                /\ run[r].buf.exit_code = run[r].rc

(* A CLI that is at work is alive, and while it is, so is its supervisor, or it
   is a zombie, which looks alive. *)
Living ==
    \A c \in Callers :
        /\ call[c].op # "kill" /\ call[c].pc \notin {"ret", "gone"} => Cli(c) \in alive
        /\ \A j \in Jobs :
              /\ run[<<c, j>>].pc # "off" /\ call[c].op = "dispatch" /\ Cli(c) \in alive
              => Sup(c) \in alive \cup zombie

(* The record of a job with one run and no killer. *)
Done == {"DONE-OK", "DONE-FAIL"}
RecordOf(r) ==
    /\ run[r].pc = "off" => file[r[2]].status \notin Statuses
    /\ file[r[2]].status = "RUN" => file[r[2]].pid = PidOf(r)
    /\ file[r[2]].status \in Done =>
          /\ run[r].pc = "end"
          /\ file[r[2]].status = DoneStatus(run[r].rc) /\ file[r[2]].exit_code = run[r].rc
    /\ call[r[1]].op = "wait" /\ run[r].pc = "end" => file[r[2]].status \in Done
SoleRecords == \A r \in Runners : Sole(r) => RecordOf(r)

(* An error that a dispatch reported is that of a run that has ended. *)
SoleErrors ==
    \A c \in Callers, j \in Jobs :
        /\ call[c].op = "dispatch" /\ call[c].pc = "ret" /\ call[c].rc \notin {-1, 0, 2}
        /\ call[c].jobs = {j} /\ Sole(<<c, j>>)
        => run[<<c, j>>].pc = "end" /\ run[<<c, j>>].rc # 0

SoleInv == Phases /\ Written /\ Living /\ SoleRecords /\ SoleErrors

(* Runs that were started stay started and runs that ended stay ended; the
   command of a caller is fixed when it begins. *)
LEMMA Forward ==
    ASSUME TypeOK, WaitInv, [Next]_vars
    PROVE  /\ \A q \in Runners : run'[q].pc = "off" => run[q].pc = "off"
           /\ \A q \in Runners : run[q].pc = "end" =>
                 run'[q].pc = "end" /\ run'[q].rc = run[q].rc
           /\ \A c \in Callers : call[c].pc # "idle" =>
                 /\ call'[c].pc # "idle"
                 /\ call'[c].op = call[c].op /\ call'[c].jobs = call[c].jobs
<1> DEFINE Runs == /\ \A q \in Runners : run'[q].pc = "off" => run[q].pc = "off"
                   /\ \A q \in Runners : run[q].pc = "end" =>
                         run'[q].pc = "end" /\ run'[q].rc = run[q].rc
           Calls == \A c \in Callers : call[c].pc # "idle" =>
                       /\ call'[c].pc # "idle"
                       /\ call'[c].op = call[c].op /\ call'[c].jobs = call[c].jobs
<1> SUFFICES Runs /\ Calls
  OBVIOUS
<1>1. ASSUME NEW c \in Callers, Begin(c) PROVE Runs /\ Calls
  <2>1. ASSUME NEW j \in Jobs, DispatchGuard(c, j) \/ DispatchOptOut(c, j) \/ KillRead(c, j)
        PROVE  Runs /\ Calls
    BY <2>1 DEF DispatchGuard, DispatchOptOut, KillRead, TypeOK, CallRecord
  <2>2. ASSUME NEW S \in SUBSET Jobs, WaitStart(c, S) PROVE Runs /\ Calls
    <3>1. \A r \in Runners : r \in {c} \X S => run[r].pc = "off" /\ run'[r].pc = "start"
      BY <2>2 DEF WaitStart, WaitInv, TypeOK, RunRecord
    <3>2. \A r \in Runners : r \notin {c} \X S => run'[r] = run[r]
      BY <2>2 DEF WaitStart
    <3>3. Calls
      BY <2>2 DEF WaitStart, TypeOK, CallRecord
    <3>4. QED
      BY <3>1, <3>2, <3>3
  <2>3. QED
    BY <1>1, <2>1, <2>2 DEF Begin
<1>2. ASSUME NEW c \in Callers, Caller(c) PROVE Runs /\ Calls
  <2>1. ASSUME NEW j \in Jobs, DispatchSpawn(c, j) PROVE Runs /\ Calls
    <3>1. run[<<c, j>>].pc = "off" /\ <<c, j>> \in Runners
      BY <2>1, PairRunner DEF DispatchSpawn, WaitInv
    <3>2. QED
      BY <2>1, <3>1 DEF DispatchSpawn, TypeOK, RunRecord, CallRecord
  <2>2. ASSUME NEW j \in Jobs,
               DispatchRecord(c, j) \/ KillMark(c, j) \/ CallTruncate(c, j)
        PROVE  Runs /\ Calls
    BY <2>2 DEF DispatchRecord, KillMark, CallTruncate, TypeOK, CallRecord
  <2>3. ASSUME NEW j \in Jobs, DispatchWatch(c, j) \/ CallPut(c, j) PROVE Runs /\ Calls
    BY <2>3 DEF DispatchWatch, CallPut, TypeOK, CallRecord
  <2>4. CASE WaitReturn(c)
    BY <2>4 DEF WaitReturn, TypeOK, CallRecord
  <2>5. CASE KillSignal(c)
    BY <2>5 DEF KillSignal, Gone, TypeOK, CallRecord, RunRecord
  <2>6. CASE CliExit(c)
    BY <2>6 DEF CliExit
  <2>7. QED
    BY <1>2, <2>1, <2>2, <2>3, <2>4, <2>5, <2>6 DEF Caller
<1>3. ASSUME NEW r \in Runners, Runner(r) PROVE Runs /\ Calls
  <2>1. CASE RunStart(r)
    BY <2>1 DEF RunStart, TypeOK, RunRecord
  <2>2. CASE RunExec(r) \/ RunNotFound(r) \/ SupervisorExit(r)
    BY <2>2 DEF RunExec, RunNotFound, SupervisorExit, TypeOK, RunRecord
  <2>3. CASE RunFinish(r)
    BY <2>3 DEF RunFinish, TypeOK, RunRecord
  <2>4. CASE RunTruncate(r) \/ RunPut(r)
    BY <2>4 DEF RunTruncate, RunPut, TypeOK, RunRecord
  <2>5. QED
    BY <1>3, <2>1, <2>2, <2>3, <2>4 DEF Runner
<1>4. ASSUME NEW r \in Runners, NEW code \in Codes, CommandEnd(r, code) PROVE Runs /\ Calls
  BY <1>4 DEF CommandEnd, TypeOK, RunRecord
<1>5. ASSUME NEW p \in Pids, Crash(p) PROVE Runs /\ Calls
  BY <1>5 DEF Crash, Gone, TypeOK, CallRecord, RunRecord
<1>6. CASE UNCHANGED vars
  BY <1>6 DEF vars
<1>7. QED
  BY <1>1, <1>2, <1>3, <1>4, <1>5, <1>6 DEF Next, Command

(* A job whose run is sole after a step had it sole before. *)
LEMMA SoleBefore ==
    ASSUME TypeOK, WaitInv, Phases, [Next]_vars, NEW r \in Runners, Sole(r)'
    PROVE  Sole(r)
<1>1. \A c \in Callers : call[c].op = "kill" => call[c].pc # "idle"
  BY NoneAssumption DEF Phases
<1>2. QED
  BY <1>1, Forward DEF Sole

(* The process of a run that was started does not change. *)
LEMMA PidStays ==
    ASSUME TypeOK, WaitInv, [Next]_vars, NEW r \in Runners, run[r].pc # "off"
    PROVE  PidOf(r)' = PidOf(r) /\ call'[r[1]].op = call[r[1]].op
<1>1. r = <<r[1], r[2]>> /\ r[1] \in Callers /\ r[2] \in Jobs
  BY DEF Runners
<1>2. call[r[1]].pc # "idle"
  BY <1>1 DEF WaitInv
<1>3. QED
  BY <1>1, <1>2, Forward DEF PidOf

LEMMA PhasesStep ==
    ASSUME TypeOK, WaitInv, Phases, [Next]_vars
    PROVE  Phases'
<1> DEFINE Fits(c) ==
              /\ call'[c].pc = "idle" => call'[c].op = None
              /\ call'[c].pc \in {"spawn"} \cup Writing => call'[c].op = "dispatch"
              /\ call'[c].pc = "waiting" => call'[c].op = "wait"
              /\ call'[c].pc \in Killing => call'[c].op = "kill"
           Spawned(c) ==
              call'[c].pc \in Writing =>
                 \A j \in Jobs : call'[c].jobs = {j} => run'[<<c, j>>].pc # "off"
<1>1. ASSUME NEW c \in Callers, call'[c] = call[c] PROVE Fits(c) /\ Spawned(c)
  BY <1>1, Forward, PairRunner DEF Phases
<1>2. ASSUME NEW c \in Callers, call'[c].pc = "gone" PROVE Fits(c) /\ Spawned(c)
  BY <1>2 DEF Writing, Killing
<1>3. ASSUME NEW c \in Callers, Begin(c)
      PROVE  \A d \in Callers : Fits(d) /\ Spawned(d)
  <2>1. ASSUME NEW j \in Jobs, DispatchGuard(c, j) \/ DispatchOptOut(c, j) \/ KillRead(c, j)
        PROVE  /\ Fits(c) /\ Spawned(c)
               /\ \A d \in Callers \ {c} : call'[d] = call[d]
    BY <2>1 DEF DispatchGuard, DispatchOptOut, KillRead, Writing, Killing, TypeOK, CallRecord
  <2>2. ASSUME NEW S \in SUBSET Jobs, WaitStart(c, S)
        PROVE  /\ Fits(c) /\ Spawned(c)
               /\ \A d \in Callers \ {c} : call'[d] = call[d]
    BY <2>2 DEF WaitStart, Writing, Killing, TypeOK, CallRecord
  <2>3. QED
    BY <1>1, <1>3, <2>1, <2>2 DEF Begin
<1>4. ASSUME NEW c \in Callers, Caller(c)
      PROVE  \A d \in Callers : Fits(d) /\ Spawned(d)
  <2>1. ASSUME NEW j \in Jobs, DispatchSpawn(c, j)
        PROVE  /\ Fits(c) /\ Spawned(c)
               /\ \A d \in Callers \ {c} : call'[d] = call[d]
    <3>1. /\ run'[<<c, j>>].pc = "start"
          /\ call'[c].pc = "record" /\ call'[c].op = call[c].op /\ call'[c].jobs = {j}
          /\ \A d \in Callers \ {c} : call'[d] = call[d]
      BY <2>1, PairRunner DEF DispatchSpawn, TypeOK, CallRecord, RunRecord
    <3>2. \A i \in Jobs : {i} = {j} => i = j
      OBVIOUS
    <3>3. call[c].op = "dispatch"
      BY <2>1 DEF DispatchSpawn, Phases
    <3>4. QED
      BY <3>1, <3>2, <3>3 DEF Writing, Killing
  <2>2. ASSUME NEW j \in Jobs,
               \/ DispatchRecord(c, j) \/ KillMark(c, j)
               \/ CallTruncate(c, j) \/ CallPut(c, j)
        PROVE  /\ Fits(c) /\ Spawned(c)
               /\ \A d \in Callers \ {c} : call'[d] = call[d]
    <3>1. /\ call'[c].op = call[c].op /\ call'[c].jobs = call[c].jobs
          /\ UNCHANGED run
          /\ \A d \in Callers \ {c} : call'[d] = call[d]
      BY <2>2 DEF DispatchRecord, KillMark, CallTruncate, CallPut, TypeOK, CallRecord
    <3>2. CASE DispatchRecord(c, j) \/ KillMark(c, j)
      <4>1. \/ call[c].pc = "record" /\ call'[c].pc = "recordTrunc"
            \/ call[c].pc = "mark" /\ call'[c].pc = "markTrunc"
        BY <3>2 DEF DispatchRecord, KillMark, TypeOK, CallRecord
      <4>2. QED
        BY <3>1, <4>1 DEF Phases, Writing, Killing
    <3>3. CASE CallTruncate(c, j)
      <4>1. \/ call[c].pc = "recordTrunc" /\ call'[c].pc = "recordPut"
            \/ call[c].pc = "markTrunc" /\ call'[c].pc = "markPut"
        BY <3>3 DEF CallTruncate, TypeOK, CallRecord
      <4>2. QED
        BY <3>1, <4>1 DEF Phases, Writing, Killing
    <3>4. CASE CallPut(c, j)
      <4>1. \/ call[c].pc = "recordPut" /\ call'[c].pc = "watch"
            \/ call[c].pc = "markPut" /\ call'[c].pc = "ret"
        BY <3>4 DEF CallPut, TypeOK, CallRecord
      <4>2. QED
        BY <3>1, <4>1 DEF Phases, Writing, Killing
    <3>5. QED
      BY <2>2, <3>2, <3>3, <3>4
  <2>3. ASSUME NEW j \in Jobs, DispatchWatch(c, j)
        PROVE  /\ Fits(c) /\ Spawned(c)
               /\ \A d \in Callers \ {c} : call'[d] = call[d]
    BY <2>3 DEF DispatchWatch, Writing, Killing, TypeOK, CallRecord
  <2>4. ASSUME WaitReturn(c)
        PROVE  /\ Fits(c) /\ Spawned(c)
               /\ \A d \in Callers \ {c} : call'[d] = call[d]
    BY <2>4 DEF WaitReturn, Writing, Killing, TypeOK, CallRecord
  <2>5. ASSUME KillSignal(c)
        PROVE  /\ Fits(c) /\ Spawned(c)
               /\ \A d \in Callers \ {c} : call'[d] = call[d] \/ call'[d].pc = "gone"
    <3>1. /\ call'[c].pc = "mark" /\ call'[c].op = call[c].op /\ call[c].pc = "signal"
          /\ \A d \in Callers \ {c} : call'[d] = call[d] \/ call'[d].pc = "gone"
      BY <2>5 DEF KillSignal, TypeOK, CallRecord
    <3>2. QED
      BY <3>1 DEF Phases, Writing, Killing
  <2>6. ASSUME CliExit(c) PROVE \A d \in Callers : call'[d] = call[d]
    BY <2>6 DEF CliExit
  <2>7. QED
    BY <1>1, <1>2, <1>4, <2>1, <2>2, <2>3, <2>4, <2>5, <2>6 DEF Caller
<1>5. ASSUME NEW r \in Runners, Runner(r) \/ Command(r)
      PROVE  \A d \in Callers : Fits(d) /\ Spawned(d)
  <2>1. UNCHANGED call
    BY <1>5 DEF Runner, Command, RunStart, RunExec, RunNotFound, RunFinish, RunTruncate,
                RunPut, SupervisorExit, CommandEnd
  <2>2. QED
    BY <1>1, <2>1
<1>6. ASSUME NEW p \in Pids, Crash(p)
      PROVE  \A d \in Callers : Fits(d) /\ Spawned(d)
  <2>1. \A d \in Callers : call'[d] = call[d] \/ call'[d].pc = "gone"
    BY <1>6 DEF Crash, TypeOK, CallRecord
  <2>2. QED
    BY <1>1, <1>2, <2>1
<1>7. ASSUME UNCHANGED vars
      PROVE  \A d \in Callers : Fits(d) /\ Spawned(d)
  BY <1>1, <1>7 DEF vars
<1>8. \A d \in Callers : Fits(d) /\ Spawned(d)
  BY <1>3, <1>4, <1>5, <1>6, <1>7 DEF Next
<1>9. QED
  BY <1>8 DEF Phases

(* The buffer of a caller is filled by the step that reads the record, and kept
   until it is written. *)
LEMMA WrittenCalls ==
    ASSUME TypeOK, WaitInv, Phases, Written, [Next]_vars,
           NEW c \in Callers, call'[c].pc \in {"recordTrunc", "recordPut"}
    PROVE  call'[c].buf.status = "RUN" /\ call'[c].buf.pid = Sup(c)
<1> DEFINE Kept(d) == /\ call'[d].buf = call[d].buf
                      /\ call[d].pc \in {"recordTrunc", "recordPut"}
           Other(d) == call'[d].pc \notin {"recordTrunc", "recordPut"}
<1>1. ASSUME NEW d \in Callers, Begin(d)
      PROVE  \A e \in Callers : call'[e] = call[e] \/ Other(e)
  <2>1. ASSUME NEW j \in Jobs, DispatchGuard(d, j) \/ DispatchOptOut(d, j) \/ KillRead(d, j)
        PROVE  \A e \in Callers : call'[e] = call[e] \/ Other(e)
    BY <2>1 DEF DispatchGuard, DispatchOptOut, KillRead, TypeOK, CallRecord
  <2>2. ASSUME NEW S \in SUBSET Jobs, WaitStart(d, S)
        PROVE  \A e \in Callers : call'[e] = call[e] \/ Other(e)
    BY <2>2 DEF WaitStart, TypeOK, CallRecord
  <2>3. QED
    BY <1>1, <2>1, <2>2 DEF Begin
<1>2. ASSUME NEW d \in Callers, NEW j \in Jobs, DispatchRecord(d, j)
      PROVE  /\ call'[d].buf.status = "RUN" /\ call'[d].buf.pid = Sup(d)
             /\ \A e \in Callers \ {d} : call'[e] = call[e]
  <2>1. Sup(d) # None
    BY NoneAssumption DEF Sup
  <2>2. QED
    BY <1>2, <2>1 DEF DispatchRecord, Merge, TypeOK, CallRecord
<1>3. ASSUME NEW d \in Callers, NEW j \in Jobs, CallTruncate(d, j) \/ CallPut(d, j)
      PROVE  \A e \in Callers : call'[e] = call[e] \/ Kept(e) \/ Other(e)
  BY <1>3 DEF CallTruncate, CallPut, TypeOK, CallRecord
<1>4. ASSUME NEW d \in Callers, NEW j \in Jobs,
             DispatchSpawn(d, j) \/ DispatchWatch(d, j) \/ KillMark(d, j)
      PROVE  \A e \in Callers : call'[e] = call[e] \/ Other(e)
  BY <1>4 DEF DispatchSpawn, DispatchWatch, KillMark, TypeOK, CallRecord
<1>5. ASSUME NEW d \in Callers, WaitReturn(d) \/ KillSignal(d) \/ CliExit(d)
      PROVE  \A e \in Callers : call'[e] = call[e] \/ Other(e)
  <2>1. CASE WaitReturn(d)
    BY <2>1 DEF WaitReturn, TypeOK, CallRecord
  <2>2. CASE KillSignal(d)
    BY <2>2 DEF KillSignal, TypeOK, CallRecord
  <2>3. CASE CliExit(d)
    BY <2>3 DEF CliExit
  <2>4. QED
    BY <1>5, <2>1, <2>2, <2>3
<1>6. ASSUME NEW r \in Runners, Runner(r) \/ Command(r)
      PROVE  UNCHANGED call
  BY <1>6 DEF Runner, Command, RunStart, RunExec, RunNotFound, RunFinish, RunTruncate,
              RunPut, SupervisorExit, CommandEnd
<1>7. ASSUME NEW p \in Pids, Crash(p)
      PROVE  \A e \in Callers : call'[e] = call[e] \/ Other(e)
  BY <1>7 DEF Crash, TypeOK, CallRecord
<1>8. \/ call'[c] = call[c] \/ Kept(c) \/ Other(c)
      \/ call'[c].buf.status = "RUN" /\ call'[c].buf.pid = Sup(c)
  BY <1>1, <1>2, <1>3, <1>4, <1>5, <1>6, <1>7 DEF Next, Caller, vars
<1>9. QED
  BY <1>8 DEF Written

LEMMA WrittenRuns ==
    ASSUME TypeOK, WaitInv, Written, [Next]_vars, NEW r \in Runners
    PROVE  /\ run'[r].pc \in {"startTrunc", "startPut"} =>
                 run'[r].buf.status = "RUN" /\ run'[r].buf.pid = PidOf(r)'
           /\ run'[r].pc \in {"finishTrunc", "finishPut"} =>
                 /\ run'[r].buf.status = DoneStatus(run'[r].rc)
                 /\ run'[r].buf.exit_code = run'[r].rc
<1> DEFINE First == {"startTrunc", "startPut"}
           Last == {"finishTrunc", "finishPut"}
           Kept(q) == /\ run'[q].buf = run[q].buf /\ run'[q].rc = run[q].rc
                      /\ \/ run[q].pc \in First /\ run'[q].pc \in First
                         \/ run[q].pc \in Last /\ run'[q].pc \in Last
           Other(q) == run'[q].pc \notin First \cup Last
           Begun(q) == /\ run[q].pc = "start" /\ run'[q].pc \in First
                       /\ run'[q].buf.status = "RUN" /\ run'[q].buf.pid = PidOf(q)
           Over(q) == /\ run'[q].pc \in Last
                      /\ run'[q].buf.status = DoneStatus(run'[q].rc)
                      /\ run'[q].buf.exit_code = run'[q].rc
<1>1. ASSUME NEW c \in Callers, Begin(c)
      PROVE  \A q \in Runners : run'[q] = run[q] \/ Other(q)
  <2>1. ASSUME NEW S \in SUBSET Jobs, WaitStart(c, S)
        PROVE  \A q \in Runners : run'[q] = run[q] \/ Other(q)
    BY <2>1 DEF WaitStart, TypeOK, RunRecord
  <2>2. QED
    BY <1>1, <2>1 DEF Begin, DispatchGuard, DispatchOptOut, KillRead
<1>2. ASSUME NEW c \in Callers, Caller(c)
      PROVE  \A q \in Runners : run'[q] = run[q] \/ Other(q)
  <2>1. ASSUME NEW j \in Jobs, DispatchSpawn(c, j)
        PROVE  \A q \in Runners : run'[q] = run[q] \/ Other(q)
    BY <2>1 DEF DispatchSpawn, TypeOK, RunRecord
  <2>2. ASSUME KillSignal(c)
        PROVE  \A q \in Runners : run'[q] = run[q] \/ Other(q)
    BY <2>2 DEF KillSignal, Gone, TypeOK, RunRecord
  <2>3. QED
    BY <1>2, <2>1, <2>2 DEF Caller, DispatchRecord, DispatchWatch, KillMark, CallTruncate,
                            CallPut, WaitReturn, CliExit
<1>3. ASSUME NEW q \in Runners, RunStart(q)
      PROVE  Begun(q) /\ \A o \in Runners \ {q} : run'[o] = run[o]
  <2>1. PidOf(q) # None
    BY NoneAssumption, RunnerType DEF Pids
  <2>2. QED
    BY <1>3, <2>1 DEF RunStart, Merge, TypeOK, RunRecord
<1>4. ASSUME NEW q \in Runners, RunFinish(q)
      PROVE  Over(q) /\ \A o \in Runners \ {q} : run'[o] = run[o]
  BY <1>4 DEF RunFinish, Merge, TypeOK, RunRecord
<1>5. ASSUME NEW q \in Runners,
             RunExec(q) \/ RunNotFound(q) \/ SupervisorExit(q) \/ Command(q)
      PROVE  \A o \in Runners : run'[o] = run[o] \/ Other(o)
  BY <1>5 DEF RunExec, RunNotFound, SupervisorExit, Command, CommandEnd, TypeOK, RunRecord
<1>6. ASSUME NEW q \in Runners, RunTruncate(q) \/ RunPut(q)
      PROVE  \A o \in Runners : run'[o] = run[o] \/ Kept(o) \/ Other(o)
  BY <1>6 DEF RunTruncate, RunPut, TypeOK, RunRecord
<1>7. ASSUME NEW p \in Pids, Crash(p)
      PROVE  \A q \in Runners : run'[q] = run[q] \/ Other(q)
  BY <1>7 DEF Crash, Gone, TypeOK, RunRecord
<1>8. run'[r] = run[r] \/ Kept(r) \/ Other(r) \/ Begun(r) \/ Over(r)
  BY <1>1, <1>2, <1>3, <1>4, <1>5, <1>6, <1>7 DEF Next, Runner, vars
<1>9. run[r].pc # "off" => PidOf(r)' = PidOf(r)
  BY PidStays
<1>10. CASE Begun(r)
  BY <1>9, <1>10
<1>11. CASE Over(r)
  BY <1>11
<1>12. CASE run'[r] = run[r] \/ Kept(r)
  BY <1>9, <1>12 DEF Written
<1>13. QED
  BY <1>8, <1>10, <1>11, <1>12

LEMMA WrittenStep ==
    ASSUME TypeOK, WaitInv, Phases, Written, [Next]_vars
    PROVE  Written'
BY WrittenCalls, WrittenRuns DEF Written

(* A caller that returned, or died, stays as it is; a new error of a dispatch
   comes from its early-death watch. *)
LEMMA CallsSettle ==
    ASSUME TypeOK, WaitInv, Phases, [Next]_vars, NEW c \in Callers
    PROVE  /\ call[c].pc \in {"ret", "gone"} =>
                 call'[c] = call[c] \/ (call[c].pc = "gone" /\ call'[c].pc = "gone")
           /\ /\ call'[c].op = "dispatch" /\ call'[c].pc = "ret"
              /\ call'[c].rc \notin {-1, 0, 2}
              => call'[c] = call[c] \/ \E j \in Jobs : DispatchWatch(c, j)
<1> DEFINE Watched(e) == \E j \in Jobs : DispatchWatch(e, j)
           NoError(e) == \/ call'[e].op # "dispatch" \/ call'[e].pc # "ret"
                         \/ call'[e].rc \in {-1, 0, 2}
           Good(e) == \/ call'[e] = call[e]
                      \/ /\ call[e].pc \notin {"ret", "gone"}
                         /\ NoError(e) \/ Watched(e)
                      \/ call[e].pc = "gone" /\ call'[e].pc = "gone"
<1>1. ASSUME NEW d \in Callers, Begin(d) PROVE \A e \in Callers : Good(e)
  <2>1. ASSUME NEW j \in Jobs, DispatchGuard(d, j) \/ DispatchOptOut(d, j) \/ KillRead(d, j)
        PROVE  \A e \in Callers : Good(e)
    <3>1. /\ call[d].pc = "idle"
          /\ \A e \in Callers \ {d} : call'[e] = call[e]
      BY <2>1 DEF DispatchGuard, DispatchOptOut, KillRead, TypeOK, CallRecord
    <3>2. NoError(d)
      BY <2>1 DEF DispatchGuard, DispatchOptOut, KillRead, TypeOK, CallRecord
    <3>3. QED
      BY <3>1, <3>2
  <2>2. ASSUME NEW S \in SUBSET Jobs, WaitStart(d, S)
        PROVE  \A e \in Callers : Good(e)
    BY <2>2 DEF WaitStart, TypeOK, CallRecord
  <2>3. QED
    BY <1>1, <2>1, <2>2 DEF Begin
<1>2. ASSUME NEW d \in Callers, Caller(d) PROVE \A e \in Callers : Good(e)
  <2>1. ASSUME NEW j \in Jobs,
               DispatchSpawn(d, j) \/ DispatchRecord(d, j) \/ KillMark(d, j)
               \/ CallTruncate(d, j)
        PROVE  \A e \in Callers : Good(e)
    BY <2>1 DEF DispatchSpawn, DispatchRecord, KillMark, CallTruncate, TypeOK, CallRecord
  <2>2. ASSUME NEW j \in Jobs, DispatchWatch(d, j) PROVE \A e \in Callers : Good(e)
    <3>1. /\ call[d].pc = "watch"
          /\ \A e \in Callers \ {d} : call'[e] = call[e]
      BY <2>2 DEF DispatchWatch, TypeOK, CallRecord
    <3>2. QED
      BY <2>2, <3>1
  <2>3. ASSUME NEW j \in Jobs, CallPut(d, j) PROVE \A e \in Callers : Good(e)
    <3>1. /\ call'[d].op = call[d].op
          /\ \A e \in Callers \ {d} : call'[e] = call[e]
          /\ \/ call[d].pc = "recordPut" /\ call'[d].pc = "watch"
             \/ call[d].pc = "markPut" /\ call'[d].pc = "ret"
      BY <2>3 DEF CallPut, TypeOK, CallRecord
    <3>2. call[d].pc = "markPut" => call[d].op = "kill"
      BY DEF Phases, Killing
    <3>3. QED
      BY <3>1, <3>2
  <2>4. ASSUME WaitReturn(d) PROVE \A e \in Callers : Good(e)
    <3>1. /\ call'[d].op = call[d].op /\ call[d].pc = "waiting"
          /\ \A e \in Callers \ {d} : call'[e] = call[e]
      BY <2>4 DEF WaitReturn, TypeOK, CallRecord
    <3>2. call[d].op # "dispatch"
      BY <3>1 DEF Phases
    <3>3. QED
      BY <3>1, <3>2
  <2>5. ASSUME KillSignal(d) PROVE \A e \in Callers : Good(e)
    <3>1. /\ call[d].pc = "signal" /\ call'[d].pc = "mark"
          /\ \A e \in Callers \ {d} : \/ call'[e] = call[e]
                                      \/ call[e].pc # "ret" /\ call'[e].pc = "gone"
      BY <2>5 DEF KillSignal, TypeOK, CallRecord
    <3>2. QED
      BY <3>1
  <2>6. ASSUME CliExit(d) PROVE \A e \in Callers : Good(e)
    BY <2>6 DEF CliExit
  <2>7. QED
    BY <1>2, <2>1, <2>2, <2>3, <2>4, <2>5, <2>6 DEF Caller
<1>3. ASSUME NEW r \in Runners, Runner(r) \/ Command(r) PROVE UNCHANGED call
  BY <1>3 DEF Runner, Command, RunStart, RunExec, RunNotFound, RunFinish, RunTruncate,
              RunPut, SupervisorExit, CommandEnd
<1>4. ASSUME NEW p \in Pids, Crash(p) PROVE \A e \in Callers : Good(e)
  <2>1. \A e \in Callers : Cli(e)[1] = e /\ Cli(e)[2] = "cli"
    BY DEF Cli
  <2>2. \A e \in Callers : \/ call'[e] = call[e]
                           \/ call[e].pc # "ret" /\ call'[e].pc = "gone"
    BY <1>4, <2>1 DEF Crash, TypeOK, CallRecord
  <2>3. QED
    BY <2>2
<1>5. Good(c)
  BY <1>1, <1>2, <1>3, <1>4 DEF Next, vars
<1>6. QED
  BY <1>5

(* Deaths leave a supervisor alive or a zombie as long as its CLI is alive. *)
LEMMA DieKeeps ==
    ASSUME NEW D, Die(D), NEW c \in Callers, Cli(c) \in alive', Sup(c) \in alive \cup zombie
    PROVE  Sup(c) \in alive' \cup zombie'
<1>1. Sup(c)[2] = "sup" /\ Sup(c)[1] = c
  BY DEF Sup
<1>2. Cli(c) \in alive \ D
  BY DEF Die
<1>3. CASE Sup(c) \in alive \ D
  BY <1>3 DEF Die
<1>4. CASE Sup(c) \in zombie \cup (D \cap alive)
  BY <1>1, <1>2, <1>4 DEF Die
<1>5. QED
  BY <1>3, <1>4

(* No CLI is born, and a supervisor that looks alive does so until its CLI has
   died. *)
LEMMA Births ==
    ASSUME TypeOK, WaitInv, [Next]_vars, NEW c \in Callers, Cli(c) \in alive'
    PROVE  /\ Cli(c) \in alive
           /\ Sup(c) \in alive \cup zombie => Sup(c) \in alive' \cup zombie'
<1>1. ASSUME NEW D, Die(D)
      PROVE  /\ Cli(c) \in alive
             /\ Sup(c) \in alive \cup zombie => Sup(c) \in alive' \cup zombie'
  BY <1>1, DieKeeps DEF Die
<1>2. ASSUME NEW d \in Callers, alive' = alive \cup {Sup(d)}, zombie' = zombie
      PROVE  /\ Cli(c) \in alive
             /\ Sup(c) \in alive \cup zombie => Sup(c) \in alive' \cup zombie'
  BY <1>2 DEF Cli, Sup
<1>3. \/ UNCHANGED <<alive, zombie>>
      \/ \E d \in Callers : alive' = alive \cup {Sup(d)} /\ zombie' = zombie
      \/ \E D : Die(D)
  <2>1. ASSUME NEW d \in Callers, Begin(d) PROVE UNCHANGED <<alive, zombie>>
    BY <2>1 DEF Begin, DispatchGuard, DispatchOptOut, KillRead, WaitStart
  <2>2. ASSUME NEW d \in Callers, Caller(d)
        PROVE  \/ UNCHANGED <<alive, zombie>>
               \/ alive' = alive \cup {Sup(d)} /\ zombie' = zombie
               \/ \E D : Die(D)
    <3>1. CASE WaitReturn(d) \/ KillSignal(d) \/ CliExit(d)
      BY <3>1 DEF WaitReturn, KillSignal, CliExit
    <3>2. ASSUME NEW j \in Jobs, DispatchSpawn(d, j)
          PROVE  alive' = alive \cup {Sup(d)} /\ zombie' = zombie
      BY <3>2 DEF DispatchSpawn
    <3>3. QED
      BY <2>2, <3>1, <3>2 DEF Caller, DispatchRecord, DispatchWatch, KillMark,
                              CallTruncate, CallPut
  <2>3. ASSUME NEW r \in Runners, Runner(r) \/ Command(r)
        PROVE  UNCHANGED <<alive, zombie>> \/ \E D : Die(D)
    BY <2>3 DEF Runner, Command, RunStart, RunExec, RunNotFound, RunFinish, RunTruncate,
                RunPut, SupervisorExit, CommandEnd
  <2>4. ASSUME NEW p \in Pids, Crash(p) PROVE \E D : Die(D)
    BY <2>4 DEF Crash
  <2>5. QED
    BY <2>1, <2>2, <2>3, <2>4 DEF Next, vars
<1>4. QED
  BY <1>1, <1>2, <1>3

(* A CLI dies only when it has returned, or is gone with it, unless it kills. *)
LEMMA CliDeaths ==
    ASSUME TypeOK, WaitInv, Phases, [Next]_vars,
           NEW c \in Callers, Cli(c) \in alive, Cli(c) \notin alive'
    PROVE  call'[c].pc \in {"ret", "gone"} \/ call'[c].op = "kill"
<1>1. ASSUME NEW d \in Callers, Begin(d) PROVE alive' = alive
  BY <1>1 DEF Begin, DispatchGuard, DispatchOptOut, KillRead, WaitStart
<1>2. ASSUME NEW d \in Callers, CliExit(d)
      PROVE  call'[c].pc \in {"ret", "gone"}
  <2>1. Cli(c) = Cli(d)
    BY <1>2 DEF CliExit, Die
  <2>2. c = d
    BY <2>1 DEF Cli
  <2>3. QED
    BY <1>2, <2>2 DEF CliExit
<1>3. ASSUME NEW d \in Callers, KillSignal(d)
      PROVE  call'[c].pc \in {"ret", "gone"} \/ call'[c].op = "kill"
  <2>1. Cli(c) \in {call[d].pid} \cap alive
    BY <1>3 DEF KillSignal, Die
  <2>2. c # d => call'[c].pc \in {"ret", "gone"}
    BY <1>3, <2>1 DEF KillSignal, TypeOK, CallRecord
  <2>3. call'[d].op = call[d].op
    BY <1>3 DEF KillSignal, TypeOK, CallRecord
  <2>4. call[d].op = "kill"
    BY <1>3 DEF KillSignal, Phases, Killing
  <2>5. QED
    BY <2>2, <2>3, <2>4
<1>4. ASSUME NEW d \in Callers, Caller(d)
      PROVE  \/ CliExit(d) \/ KillSignal(d) \/ alive \subseteq alive'
  BY <1>4 DEF Caller, DispatchSpawn, DispatchRecord, DispatchWatch, KillMark, CallTruncate,
              CallPut, WaitReturn
<1>5. ASSUME NEW r \in Runners, Runner(r) \/ Command(r)
      PROVE  Cli(c) \in alive'
  <2>1. CASE SupervisorExit(r)
    BY <2>1 DEF SupervisorExit, Die, Cli, Sup
  <2>2. QED
    BY <1>5, <2>1 DEF Runner, Command, RunStart, RunExec, RunNotFound, RunFinish,
                      RunTruncate, RunPut, CommandEnd
<1>6. ASSUME NEW p \in Pids, Crash(p) PROVE call'[c].pc = "gone"
  <2>1. Cli(c) = p
    BY <1>6 DEF Crash, Die
  <2>2. QED
    BY <1>6, <2>1 DEF Crash, TypeOK, CallRecord
<1>7. QED
  BY <1>1, <1>2, <1>3, <1>4, <1>5, <1>6 DEF Next, vars

(* Runs are started by their supervisor or by a waiting CLI. *)
LEMMA Starts ==
    ASSUME TypeOK, WaitInv, [Next]_vars,
           NEW r \in Runners, run[r].pc = "off", run'[r].pc # "off"
    PROVE  call'[r[1]].op = "wait" \/ Sup(r[1]) \in alive'
<1>1. ASSUME NEW c \in Callers, NEW S \in SUBSET Jobs, WaitStart(c, S)
      PROVE  call'[r[1]].op = "wait"
  <2>1. r \in {c} \X S
    BY <1>1 DEF WaitStart, TypeOK
  <2>2. r[1] = c
    BY <2>1
  <2>3. QED
    BY <1>1, <2>2 DEF WaitStart, TypeOK, CallRecord
<1>2. ASSUME NEW c \in Callers, NEW j \in Jobs, DispatchSpawn(c, j)
      PROVE  Sup(r[1]) \in alive'
  <2>1. r = <<c, j>>
    BY <1>2 DEF DispatchSpawn, TypeOK
  <2>2. QED
    BY <1>2, <2>1 DEF DispatchSpawn
<1>3. ASSUME NEW c \in Callers, Begin(c)
      PROVE  \/ run' = run
             \/ \E S \in SUBSET Jobs : WaitStart(c, S)
  BY <1>3 DEF Begin, DispatchGuard, DispatchOptOut, KillRead
<1>4. ASSUME NEW c \in Callers, Caller(c)
      PROVE  \/ run' = run
             \/ \E j \in Jobs : DispatchSpawn(c, j)
             \/ run'[r] = run[r]
  <2>1. CASE KillSignal(c)
    BY <2>1 DEF KillSignal, Gone
  <2>2. QED
    BY <1>4, <2>1 DEF Caller, DispatchRecord, DispatchWatch, KillMark, CallTruncate,
                      CallPut, WaitReturn, CliExit
<1>5. ASSUME NEW q \in Runners, Runner(q) PROVE run'[r] = run[r]
  BY <1>5 DEF Runner, RunStart, RunExec, RunNotFound, RunFinish, RunTruncate, RunPut,
              SupervisorExit, TypeOK
<1>6. ASSUME NEW q \in Runners, Command(q) PROVE run'[r] = run[r]
  BY <1>6 DEF Command, CommandEnd, TypeOK
<1>7. ASSUME NEW p \in Pids, Crash(p) PROVE run'[r] = run[r]
  BY <1>7 DEF Crash, Gone
<1>8. QED
  BY <1>1, <1>2, <1>3, <1>4, <1>5, <1>6, <1>7 DEF Next, vars

LEMMA LivingStep ==
    ASSUME TypeOK, WaitInv, Phases, Living, [Next]_vars
    PROVE  Living'
<1>1. ASSUME NEW c \in Callers,
             call'[c].op # "kill", call'[c].pc \notin {"ret", "gone"}
      PROVE  Cli(c) \in alive'
  <2>1. call[c].op # "kill"
    BY <1>1, Forward, NoneAssumption DEF Phases
  <2>2. call[c].pc \notin {"ret", "gone"}
    BY <1>1, CallsSettle
  <2>3. Cli(c) \in alive
    BY <2>1, <2>2 DEF Living
  <2>4. QED
    BY <1>1, <2>3, CliDeaths
<1>2. ASSUME NEW c \in Callers, NEW j \in Jobs,
             run'[<<c, j>>].pc # "off", call'[c].op = "dispatch", Cli(c) \in alive'
      PROVE  Sup(c) \in alive' \cup zombie'
  <2> DEFINE r == <<c, j>>
  <2>1. r \in Runners /\ r[1] = c
    BY PairRunner
  <2>2. CASE run[r].pc = "off"
    BY <1>2, <2>1, <2>2, Starts
  <2>3. CASE run[r].pc # "off"
    <3>1. call[c].op = "dispatch"
      BY <1>2, <2>1, <2>3, PidStays
    <3>2. Cli(c) \in alive
      BY <1>2, Births
    <3>3. Sup(c) \in alive \cup zombie
      BY <2>3, <3>1, <3>2 DEF Living
    <3>4. QED
      BY <1>2, <3>3, Births
  <2>4. QED
    BY <2>2, <2>3
<1>3. QED
  BY <1>1, <1>2 DEF Living, Cli, Sup

(* A step that leaves the record and the end of a run as they are. *)
LEMMA RecordKept ==
    ASSUME TypeOK, WaitInv, [Next]_vars, NEW r \in Runners, RecordOf(r),
           file'[r[2]] = file[r[2]],
           run'[r].pc = "end" => run[r].pc = "end"
    PROVE  RecordOf(r)'
<1>1. run'[r].pc = "off" => run[r].pc = "off"
  BY Forward
<1>2. run[r].pc = "end" => run'[r].pc = "end" /\ run'[r].rc = run[r].rc
  BY Forward
<1>3. run[r].pc # "off" => PidOf(r)' = PidOf(r) /\ call'[r[1]].op = call[r[1]].op
  BY PidStays
<1>4. run'[r].pc = "off" => file'[r[2]].status \notin Statuses
  BY <1>1 DEF RecordOf
<1>5. file'[r[2]].status = "RUN" => file'[r[2]].pid = PidOf(r)'
  BY <1>3 DEF RecordOf, Statuses
<1>6. file'[r[2]].status \in Done =>
          /\ run'[r].pc = "end"
          /\ file'[r[2]].status = DoneStatus(run'[r].rc)
          /\ file'[r[2]].exit_code = run'[r].rc
  BY <1>2 DEF RecordOf
<1>7. call'[r[1]].op = "wait" /\ run'[r].pc = "end" => file'[r[2]].status \in Done
  BY <1>3 DEF RecordOf
<1>8. QED
  BY <1>4, <1>5, <1>6, <1>7 DEF RecordOf, DoneStatus

(* Only the sole run of a job, and the caller that dispatched it, write its
   record. *)
LEMMA RecordStep ==
    ASSUME TypeOK, WaitInv, Phases, Written, [Next]_vars,
           NEW r \in Runners, Sole(r), RecordOf(r)
    PROVE  RecordOf(r)'
<1> DEFINE Quiet == /\ file'[r[2]] = file[r[2]]
                    /\ run'[r].pc = "end" => run[r].pc = "end"
<1>r. r[1] \in Callers /\ r[2] \in Jobs /\ r = <<r[1], r[2]>>
  BY DEF Runners
<1>1. ASSUME NEW c \in Callers, Begin(c) PROVE Quiet
  <2>1. ASSUME NEW S \in SUBSET Jobs, WaitStart(c, S) PROVE Quiet
    BY <2>1 DEF WaitStart, TypeOK, RunRecord
  <2>2. QED
    BY <1>1, <2>1 DEF Begin, DispatchGuard, DispatchOptOut, KillRead
<1>2. ASSUME NEW c \in Callers, NEW j \in Jobs, CallTruncate(c, j) \/ CallPut(c, j)
      PROVE  RecordOf(r)'
  <2>1. UNCHANGED run /\ \A k \in Jobs \ {j} : file'[k] = file[k]
    BY <1>2 DEF CallTruncate, CallPut, TypeOK
  <2>2. CASE j # r[2]
    BY <1>r, <2>1, <2>2, RecordKept
  <2>3. CASE j = r[2]
    <3>1. call[c].jobs = {j}
      BY <1>2 DEF CallTruncate, CallPut
    <3>2. call[c].op # "kill"
      BY <2>3, <3>1 DEF Sole
    <3>3. call[c].pc \in {"recordTrunc", "recordPut"}
      BY <1>2, <3>2 DEF CallTruncate, CallPut, Phases, Killing
    <3>4. run[<<c, j>>].pc # "off" /\ call[c].op = "dispatch"
      BY <3>1, <3>3 DEF Phases, Writing
    <3>5. r = <<c, j>> /\ r[1] = c
      BY <1>r, <2>3, <3>4, PairRunner DEF Sole
    <3>6. /\ run'[r].pc # "off" /\ call'[r[1]].op # "wait"
          /\ PidOf(r)' = Sup(c)
      BY <2>1, <3>4, <3>5, PidStays DEF PidOf
    <3>7. CASE CallTruncate(c, j)
      <4>1. file'[r[2]] = Blank("torn")
        BY <1>r, <2>3, <3>7 DEF CallTruncate, TypeOK
      <4>2. QED
        BY <3>6, <4>1 DEF RecordOf, Blank, Done
    <3>8. CASE CallPut(c, j)
      <4>1. file'[r[2]] = call[c].buf
        BY <1>r, <2>3, <3>8 DEF CallPut, TypeOK
      <4>2. file'[r[2]].status = "RUN" /\ file'[r[2]].pid = Sup(c)
        BY <3>3, <4>1 DEF Written
      <4>3. QED
        BY <3>6, <4>2 DEF RecordOf, Done
    <3>9. QED
      BY <1>2, <3>7, <3>8
  <2>4. QED
    BY <2>2, <2>3
<1>3. ASSUME NEW c \in Callers, Caller(c),
             ~ \E j \in Jobs : CallTruncate(c, j) \/ CallPut(c, j)
      PROVE  Quiet
  <2>1. ASSUME NEW j \in Jobs, DispatchSpawn(c, j) PROVE Quiet
    BY <2>1 DEF DispatchSpawn, TypeOK, RunRecord
  <2>2. CASE KillSignal(c)
    BY <2>2 DEF KillSignal, Gone, TypeOK, RunRecord
  <2>3. QED
    BY <1>3, <2>1, <2>2 DEF Caller, DispatchRecord, DispatchWatch, KillMark, WaitReturn,
                            CliExit
<1>4. ASSUME NEW q \in Runners, RunTruncate(q) \/ RunPut(q) PROVE RecordOf(r)'
  <2>1. /\ \A o \in Runners \ {q} : run'[o] = run[o]
        /\ \A k \in Jobs \ {q[2]} : file'[k] = file[k]
    BY <1>4, RunnerType DEF RunTruncate, RunPut, TypeOK
  <2>2. run[q].pc # "off"
    BY <1>4 DEF RunTruncate, RunPut
  <2>3. CASE q # r
    <3>1. q[2] # r[2]
      BY <2>2, <2>3 DEF Sole
    <3>2. QED
      BY <1>r, <2>1, <2>3, <3>1, RecordKept
  <2>4. CASE q = r
    <3>1. PidOf(r)' = PidOf(r)
      BY <2>2, <2>4, PidStays
    <3>2. CASE RunTruncate(r)
      <4>1. /\ file'[r[2]] = Blank("torn")
            /\ run'[r].pc \in {"startPut", "finishPut"}
        BY <1>r, <3>2 DEF RunTruncate, TypeOK, RunRecord
      <4>2. QED
        BY <4>1 DEF RecordOf, Blank, Done, Statuses
    <3>3. CASE RunPut(r) /\ run[r].pc = "startPut"
      <4>1. /\ file'[r[2]] = run[r].buf
            /\ run'[r].pc = "exec"
        BY <1>r, <3>3 DEF RunPut, TypeOK, RunRecord
      <4>2. file'[r[2]].status = "RUN" /\ file'[r[2]].pid = PidOf(r)
        BY <3>3, <4>1 DEF Written
      <4>3. QED
        BY <3>1, <4>1, <4>2 DEF RecordOf, Done
    <3>4. CASE RunPut(r) /\ run[r].pc = "finishPut"
      <4>1. /\ file'[r[2]] = run[r].buf
            /\ run'[r].pc = "end" /\ run'[r].rc = run[r].rc
        BY <1>r, <3>4 DEF RunPut, TypeOK, RunRecord
      <4>2. /\ file'[r[2]].status = DoneStatus(run'[r].rc)
            /\ file'[r[2]].exit_code = run'[r].rc
        BY <3>4, <4>1 DEF Written
      <4>3. file'[r[2]].status \in {"DONE-OK", "DONE-FAIL"}
        BY <4>2 DEF DoneStatus
      <4>4. QED
        BY <4>1, <4>2, <4>3 DEF RecordOf, Done
    <3>5. QED
      BY <1>4, <2>4, <3>2, <3>3, <3>4 DEF RunPut
  <2>5. QED
    BY <2>3, <2>4
<1>5. ASSUME NEW q \in Runners, RunStart(q) \/ RunFinish(q) PROVE Quiet
  BY <1>5 DEF RunStart, RunFinish, TypeOK, RunRecord
<1>6. ASSUME NEW q \in Runners, RunExec(q) \/ RunNotFound(q) \/ SupervisorExit(q) PROVE Quiet
  BY <1>6 DEF RunExec, RunNotFound, SupervisorExit, TypeOK, RunRecord
<1>7. ASSUME NEW q \in Runners, Command(q) PROVE Quiet
  BY <1>7 DEF Command, CommandEnd, TypeOK, RunRecord
<1>8. ASSUME NEW p \in Pids, Crash(p) PROVE Quiet
  BY <1>8 DEF Crash, Gone, TypeOK, RunRecord
<1>9. ASSUME UNCHANGED vars PROVE Quiet
  BY <1>9 DEF vars
<1>10. RecordOf(r)' \/ Quiet
  BY <1>1, <1>2, <1>3, <1>4, <1>5, <1>6, <1>7, <1>8, <1>9 DEF Next, Runner
<1>11. QED
  BY <1>10, RecordKept

(* The watch of a dispatch without contention reports the exit code of a run
   that failed: the supervisor it looks for is alive or a zombie. *)
LEMMA WatchTrue ==
    ASSUME TypeOK, Phases, Living, SoleRecords,
           NEW c \in Callers, NEW j \in Jobs, DispatchWatch(c, j),
           Sole(<<c, j>>), call'[c].rc # 0
    PROVE  run[<<c, j>>].pc = "end" /\ run[<<c, j>>].rc # 0
<1> DEFINE r == <<c, j>>
<1>1. r \in Runners /\ r[1] = c /\ r[2] = j
  BY PairRunner
<1>2. call[c].op = "dispatch" /\ run[r].pc # "off"
  BY DEF DispatchWatch, Phases, Writing
<1>3. RecordOf(r)
  BY <1>1 DEF SoleRecords
<1>4. Cli(c) \in alive
  BY <1>2 DEF DispatchWatch, Living
<1>5. Sup(c) \in alive \cup zombie
  BY <1>2, <1>4 DEF Living
<1>6. JobState(j) # "STALE"
  <2>1. file[j].status = "RUN" => file[j].pid = Sup(c)
    BY <1>1, <1>2, <1>3 DEF RecordOf, PidOf
  <2>2. QED
    BY <1>5, <2>1 DEF JobState, PidAlive, Readable, Statuses
<1>7. JobState(j) = "DONE-FAIL"
  BY <1>6 DEF DispatchWatch, TypeOK, CallRecord
<1>8. file[j].status = "DONE-FAIL"
  BY <1>7 DEF JobState
<1>9. run[r].pc = "end" /\ DoneStatus(run[r].rc) = "DONE-FAIL"
  BY <1>1, <1>3, <1>8 DEF RecordOf, Done
<1>10. QED
  BY <1>9 DEF DoneStatus

LEMMA SoleErrorsStep ==
    ASSUME TypeOK, WaitInv, SoleInv, [Next]_vars
    PROVE  SoleErrors'
<1> USE DEF SoleInv
<1> SUFFICES ASSUME NEW c \in Callers, NEW j \in Jobs,
                    call'[c].op = "dispatch", call'[c].pc = "ret",
                    call'[c].rc \notin {-1, 0, 2},
                    call'[c].jobs = {j}, Sole(<<c, j>>)'
             PROVE  run'[<<c, j>>].pc = "end" /\ run'[<<c, j>>].rc # 0
  BY DEF SoleErrors
<1>1. <<c, j>> \in Runners
  BY PairRunner
<1>2. Sole(<<c, j>>)
  BY <1>1, SoleBefore
<1>3. run[<<c, j>>].pc = "end" /\ run[<<c, j>>].rc # 0
  <2>1. CASE call'[c] = call[c]
    BY <1>2, <2>1 DEF SoleErrors
  <2>2. ASSUME NEW i \in Jobs, DispatchWatch(c, i)
        PROVE  run[<<c, j>>].pc = "end" /\ run[<<c, j>>].rc # 0
    <3>1. call[c].jobs = {i} /\ call'[c].jobs = call[c].jobs
      BY <2>2 DEF DispatchWatch, TypeOK, CallRecord
    <3>2. i = j
      BY <3>1
    <3>3. QED
      BY <1>2, <2>2, <3>2, WatchTrue
  <2>3. QED
    BY <2>1, <2>2, CallsSettle
<1>4. QED
  BY <1>1, <1>3, Forward

LEMMA SoleInit == Init => SoleInv
<1> SUFFICES ASSUME Init PROVE SoleInv
  OBVIOUS
<1>1. /\ \A c \in Callers : call[c].pc = "idle" /\ call[c].op = None
      /\ \A r \in Runners : run[r].pc = "off"
      /\ \A j \in Jobs : file[j].status = "absent"
      /\ \A c \in Callers : Cli(c) \in alive
  BY DEF Init, Blank
<1>2. Phases /\ Written /\ SoleErrors
  BY <1>1 DEF Phases, Written, SoleErrors, Writing, Killing
<1>3. Living
  BY <1>1, PairRunner DEF Living
<1>4. SoleRecords
  BY <1>1, RunnerType DEF SoleRecords, RecordOf, Statuses, Done
<1>5. QED
  BY <1>2, <1>3, <1>4 DEF SoleInv

LEMMA SoleStep == TypeOK /\ WaitInv /\ SoleInv /\ [Next]_vars => SoleInv'
<1> SUFFICES ASSUME TypeOK, WaitInv, SoleInv, [Next]_vars PROVE SoleInv'
  OBVIOUS
<1>1. Phases' /\ Written' /\ Living'
  BY PhasesStep, WrittenStep, LivingStep DEF SoleInv
<1>2. SoleRecords'
  <2> SUFFICES ASSUME NEW r \in Runners, Sole(r)' PROVE RecordOf(r)'
    BY DEF SoleRecords
  <2>1. Sole(r)
    BY SoleBefore DEF SoleInv
  <2>2. RecordOf(r)
    BY <2>1 DEF SoleInv, SoleRecords
  <2>3. QED
    BY <2>1, <2>2, RecordStep DEF SoleInv
<1>3. SoleErrors'
  BY SoleErrorsStep
<1>4. QED
  BY <1>1, <1>2, <1>3 DEF SoleInv

LEMMA SoleAlways == Spec => [](TypeOK /\ WaitInv /\ SoleInv)
<1>1. QED
  BY WaitInit, WaitStep, SoleInit, SoleStep, TypeCorrect, PTL DEF Spec

(* A job that nobody contends for is never reported wrongly: a finished record
   carries the exit code its run ended with, and once a run of run_and_wait has
   ended the record says so. *)
THEOREM SoleRecordIsTrue == Spec => []SoleRecordTrue
<1>1. SoleInv => SoleRecordTrue
  BY DEF SoleInv, SoleRecords, RecordOf, SoleRecordTrue, JobState, Readable, Done,
         DoneStatus, Statuses
<1>2. QED
  BY <1>1, SoleAlways, PTL

(* The error of a dispatch without contention is that of its run: the watch
   never takes a supervisor at work, or one that has succeeded, for dead. *)
THEOREM DispatchErrorIsReal == Spec => []DispatchErrorReal
<1>1. SoleInv => DispatchErrorReal
  BY DEF SoleInv, SoleErrors, DispatchErrorReal
<1>2. QED
  BY <1>1, SoleAlways, PTL
=============================================================================
