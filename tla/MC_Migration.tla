---------------------------- MODULE MC_Migration ----------------------------
(* MigrationPipeline with the slots as model values.                         *)
EXTENDS MigrationPipeline, TLC

SlotSymmetry == Permutations(Slots)
=============================================================================
