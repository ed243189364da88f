----------------------------- MODULE MCTfMigrate -----------------------------
(* A small instance of TfMigrate for TLC.  Terminals and instances are
   interchangeable in every action and in the properties checked. *)
EXTENDS TfMigrate, TLC

Symmetry == Permutations(Terminals) \cup Permutations(Items)
=============================================================================
