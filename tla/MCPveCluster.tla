---------------------------- MODULE MCPveCluster ----------------------------
(* Three hosts; the name of the second occurs in the third's. *)
EXTENDS PveCluster

CONSTANTS pve0, pve1, pve10, fleet, lab

MCWithin == {<<n, n>> : n \in Nodes} \union {<<pve1, pve10>>}
============================================================================
