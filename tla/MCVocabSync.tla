---------------------------- MODULE MCVocabSync ----------------------------
(***************************************************************************)
(* Instances of VocabSync for TLC: which activations run on which device,  *)
(* which of their operations may overlap there, and which bounds.          *)
(***************************************************************************)
EXTENDS VocabSync, TLC

CONSTANTS c1, c2, f1, f2, f3

\* Two activations on one device, one on the other.
TwoTabs == f1 :> c1 @@ f2 :> c1 @@ f3 :> c2

\* One activation on the only device.
OneTab == f1 :> c1

\* Two activations on the only device.
OneDevice == f1 :> c1 @@ f2 :> c1

\* Users wait for an operation to end before they begin another.
OneAtATime == {}

\* Edits overlap anything, and a sync in one tab overlaps the resolution with
\* the server's version in the other.
BusyTabs == {{"edit", o} : o \in Op} \cup {{"push", "fetch"}}

\* Edits go on during an ordinary sync.
EditDuringPush == {{"edit", "push"}}

\* The two tabs of one device are interchangeable, and so are changes.
Symmetry == Permutations({f1, f2}) \cup Permutations(Change)
=============================================================================
