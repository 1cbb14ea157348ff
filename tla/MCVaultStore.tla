---------------------------- MODULE MCVaultStore ----------------------------
(***************************************************************************)
(* VaultStore for TLC: files of one word, which may lack its id or date.   *)
(* A second word id is left for what a retry draws.                        *)
(***************************************************************************)
EXTENDS VaultStore, TLC

\* One word: of id w with an old date or none, or without an id.
OneWordFile(w, date, unnamed, due) ==
  [words   |-> [v \in Word |-> IF v = w THEN date ELSE 0],
   unnamed |-> [e \in Entry |-> unnamed],
   memory  |-> [v \in Word |-> IF v = w THEN due ELSE 0]]

MCImportFile ==
  UNION {{OneWordFile(w, 1, 0, MaxClock), OneWordFile(w, Undated, 0, 1),
          OneWordFile(w, 0, Undated, 0)} : w \in Word}

\* Ids are alike.
Symmetry == Permutations(Word) \cup Permutations(UserId)
=============================================================================
