--------------------------- MODULE MCAuthSession ---------------------------
(***************************************************************************)
(* Instances of AuthSession for TLC: which activations run in which tab.   *)
(***************************************************************************)
EXTENDS AuthSession, TLC

CONSTANTS tab1, tab2, f1, f2, f3

\* Two activations in one tab, one in another.
TwoTabs == f1 :> tab1 @@ f2 :> tab1 @@ f3 :> tab2

\* One activation in the only tab.
OneAtATime == f1 :> tab1
=============================================================================
