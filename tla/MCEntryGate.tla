---------------------------- MODULE MCEntryGate ----------------------------
(* EntryGate for TLC, with the symmetry of its worker processes: nothing in   *)
(* the specification distinguishes one worker from another.                   *)
EXTENDS EntryGate, TLC

Symmetry == Permutations(Workers)
=============================================================================
