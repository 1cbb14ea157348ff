------------------------------- MODULE MCSrs -------------------------------
(***************************************************************************)
(* Srs for TLC.                                                            *)
(***************************************************************************)
EXTENDS Srs, TLC

\* The words of a learner are alike.
Swaps == Permutations(Word)

=============================================================================
