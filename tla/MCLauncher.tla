------------------------------ MODULE MCLauncher ------------------------------
(***************************************************************************)
(* Small instances of FleetCaches and of LauncherEnv for one run of TLC.   *)
(* The two share no variable, so that their interleavings say nothing:     *)
(* `part` tells which of them takes the steps of a behaviour, and the other*)
(* one stays where it started, in one of its initial states.               *)
(***************************************************************************)
EXTENDS FleetCaches, MCLauncherEnv

VARIABLE part
launcherVars == <<vars, envVars, part>>

StillCaches == LET l == CHOOSE k \in Leaves : TRUE
               IN  cli = [p \in Clis |-> Idle(l)] /\ Init
StillEnv == sc = [Base EXCEPT !.tfFile = tfYaml] /\ EnvInit

LauncherInit == \/ part = "caches" /\ StillEnv /\ Init
                \/ part = "credentials" /\ StillCaches /\ EnvInit

LauncherNext == \/ part = "caches" /\ Next /\ UNCHANGED <<envVars, part>>
                \/ part = "credentials" /\ EnvNext /\ UNCHANGED <<vars, part>>

LauncherSpec == LauncherInit /\ [][LauncherNext]_launcherVars
===============================================================================
