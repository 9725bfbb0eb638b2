----------------------------- MODULE MCSigslot ------------------------------
(***************************************************************************)
(* An instance of Sigslot for TLC.                                         *)
(***************************************************************************)
EXTENDS Sigslot, TLC

Symmetry == Permutations(Signals) \cup Permutations(Slots)

=============================================================================
