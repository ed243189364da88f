------------------------------ MODULE MCTfAdopt ------------------------------
(* Small instances of TfAdopt for TLC. *)
EXTENDS TfAdopt

(* One leaf with a container, a VM of XO, a password, a runner and an address
   that is no longer declared. *)
OneLeaf == {"l1"}
Mixed == {"ct", "vm", "pw", "run", "old"}
MixedLeaf == [r \in Mixed |-> "l1"]
MixedKind == [r \in Mixed |-> CASE r = "ct" -> "verified" [] r = "vm" -> "lookup"
                                [] r = "pw" -> "secret" [] r = "run" -> "runner"
                                [] r = "old" -> "undeclared"]
(* The container's password is generated, the runner orders the VM's boot. *)
MixedNeeds == [r \in Mixed |-> CASE r = "ct" -> {"pw"} [] r = "run" -> {"vm"}
                                 [] OTHER -> {}]
AllOrCt == {{}, {"ct"}}

(* Two leaves with a container each, the first with a runner too. *)
TwoLeaves == {"l1", "l2"}
Pair == {"ct1", "run1", "ct2"}
PairLeaf == [r \in Pair |-> IF r = "ct2" THEN "l2" ELSE "l1"]
PairKind == [r \in Pair |-> IF r = "run1" THEN "runner" ELSE "verified"]
PairNeeds == [r \in Pair |-> IF r = "run1" THEN {"ct1"} ELSE {}]
All == {{}}
=============================================================================
