---------------------------- MODULE MCMobileApp ----------------------------
(***************************************************************************)
(* MobileApp for TLC: the words are interchangeable, and so are the files  *)
(* that may be imported, each with one reviewed word.                      *)
(***************************************************************************)
EXTENDS MobileApp, TLC

MCFile ==
  {[words |-> [v \in Word |-> IF v = w THEN 2 ELSE 0],
    memory |-> [v \in Word |-> IF v = w THEN 2 ELSE 0]] : w \in Word}

Symmetry == Permutations(Word)
=============================================================================
