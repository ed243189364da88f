----------------------------- MODULE MCTfVerbs -----------------------------
(* A host with two resources named after it; for the trailing plan of a rekey,
   one, and a DNS record whose name only contains the host's. *)
EXTENDS TfVerbs, TLC

CONSTANTS terminal1, terminal2, old, new, container, disk, dns

TerminalSymmetry == Permutations(Terms)
============================================================================
