--------------------------- MODULE MCFleetSessions ---------------------------
(* Small instances of FleetSessions for TLC. *)
EXTENDS FleetSessions, TLC

CONSTANTS c1, c2, j1, j2

OneCaller == {c1}
TwoCallers == {c1, c2}
OneJob == {j1}
TwoJobs == {j1, j2}

OkOrFail == {0, 1}
OkOrSignal == {0, -9}
AllCodes == {0, 1, -9}

Dispatch == {"dispatch"}
Wait == {"wait"}
WaitAndKill == {"wait", "kill"}
(* Callers are interchangeable, and so are jobs; used for invariants only. *)
Symmetry == Permutations(TwoCallers) \cup Permutations(TwoJobs)

AllOps == {"dispatch", "wait", "kill"}
=============================================================================
