----------------------------- MODULE MCWebPages -----------------------------
(***************************************************************************)
(* WebPages on small files. The tab finds a word a that has been answered  *)
(* and a word b that has not; the other file lacks a and has a memory      *)
(* state of b. One id, d, is left to be drawn.                             *)
(***************************************************************************)
EXTENDS WebPages, TLC

CONSTANTS a, b, d

FileOf(words, memory) ==
  [words |-> [w \in Word |-> IF w \in DOMAIN words THEN words[w] ELSE None],
   memory |-> [w \in Word |-> IF w \in DOMAIN memory THEN memory[w] ELSE "none"]]

MCWord == {a, b, d}
MCStartFiles == {FileOf(a :> {"tagged", "example"} @@ b :> {"found", "example"}, a :> "answered")}
MCOtherFiles == {FileOf(b :> {"found", "example"}, b :> "answered")}
MCDrafts == {{"found"}}
MCMaxLoads == [at \in At |-> CASE at = "list"     -> 3
                               [] at = "examples" -> 1
                               [] OTHER           -> 2]
MCTours == {{"list", "create", "detail"}, {"study", "examples"}}
=============================================================================
