-------------------------------- MODULE MCPool --------------------------------
(***************************************************************************)
(* Small instances of TfAdopt and of XoaDisks for one run of TLC.  The two *)
(* share no variable, so that their interleavings say nothing: `part` tells*)
(* which of them takes the steps of a behaviour, and the other one stays   *)
(* where it started, in one of its initial states.                         *)
(***************************************************************************)
EXTENDS MCTfAdopt, MCXoaDisks

VARIABLE part
poolVars == <<vars, xoaVars, part>>

StillAdopt == /\ bound = {} /\ live = [r \in Resources |-> CHOOSE w \in Findable(r) : TRUE]
              /\ Init
StillDisks == /\ world = Row(gx, hx, NoVm, 0)
              /\ power = [v \in Vms |-> "Running"] /\ size = [d \in Disks |-> 1]
              /\ XoaInit

PoolInit == \/ part = "adopt" /\ StillDisks /\ Init
            \/ part = "disks" /\ StillAdopt /\ XoaInit

PoolNext == \/ part = "adopt" /\ Next /\ UNCHANGED <<xoaVars, part>>
            \/ part = "disks" /\ XoaNext /\ UNCHANGED <<vars, part>>

PoolSpec == PoolInit /\ [][PoolNext]_poolVars /\ \A t \in Terms : WF_xoaVars(Step(t))
===============================================================================
