----------------------------- MODULE MCXoaDisks -----------------------------
(* Host g is found by its name in the domain, or by its address only, and declares
   two disks; host h is found by a dotted label, or by its alias only, and declares
   a disk, of which its VM has two, and in that world another one, which no VM has.
   In the last world two VMs share a name. *)
EXTENDS XoaDisks, TLC

CONSTANTS g, h, ha, gx, hx, other, v1, v2, d1, d2, d3, d4, d5, root, data, swap

MCOn      == d1 :> v1 @@ d2 :> v1 @@ d3 :> v2 @@ d4 :> v2 @@ d5 :> NoVm
MCVdiName == d1 :> root @@ d2 :> data @@ d3 :> root @@ d4 :> root @@ d5 :> swap
MCDotted  == g :> {gx} @@ h :> {hx}

Goal(r, d, s) == root :> r @@ data :> d @@ swap :> s
Row(l, m, a, z) ==
    [label |-> v1 :> l @@ v2 :> m,
     alias |-> g :> g @@ h :> ha,
     domain |-> g :> gx @@ h :> h,
     ipOf  |-> g :> a @@ h :> NoVm,
     goal  |-> g :> Goal(2, 2, 0) @@ h :> Goal(2, 0, z)]

MCWorlds == {Row(gx, hx, NoVm, 0), Row(other, ha, v1, 2), Row(g, g, v1, 0)}
=============================================================================
