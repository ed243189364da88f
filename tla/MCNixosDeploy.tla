--------------------------- MODULE MCNixosDeploy ---------------------------
(* Two hosts.  h1's address occurs in h2's, as 192.0.2.10 does in 192.0.2.104,
   and h1 has a fallback address.  One manifest declares h2 with an internal
   address only, and Xen Orchestra reports its primary one; the other manifest
   does not declare h2. *)
EXTENDS NixosDeploy, TLC

CONSTANTS h1, h2, c1, c2, a1, a10, b1, x1, w1

Row(i, n) == [ip |-> i, internal |-> n]

MCHosts     == {h1, h2}
MCAddrs     == {a1, a10, b1, x1, w1}
MCManifests == {h1 :> Row(a1, NoAddr) @@ h2 :> Row(NoAddr, a10),
                h1 :> Row(a1, NoAddr) @@ h2 :> Absent}
MCDeployIps == h1 :> <<b1>> @@ h2 :> <<>>
MCLive      == h1 :> NoAddr @@ h2 :> w1
MCOverrides == {x1}
MCOccurs    == {<<a, a>> : a \in MCAddrs} \union {<<a1, a10>>}
MCSymmetry  == Permutations(Clis)
=============================================================================
