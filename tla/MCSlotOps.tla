---- MODULE MCSlotOps ----
(* Symmetry for the runs of SlotOps: slots and presets are only compared. *)
EXTENDS SlotOps, TLC

Symmetry == Permutations(Addresses) \cup Permutations(Presets)
====
