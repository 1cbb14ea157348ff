--------------------------- MODULE VocabRegister ---------------------------
(***************************************************************************)
(* What the synchronised vocabulary promises the devices that share it: a  *)
(* register with a revision. An ordinary sync of a device adds to what the *)
(* register holds, and drops at most what went astray on that device; any  *)
(* other content is dropped only by replacing it, and a content that is    *)
(* replaced is kept in the archive under its revision. A write may be cut: *)
(* then its content goes without a revision of its own, and what it brings *)
(* is astray for everybody.                                                *)
(***************************************************************************)
EXTENDS Naturals

CONSTANTS
  Client,  (* the devices                *)
  Change   (* the changes users may make *)

VARIABLES
  content,   (* the set of changes the register holds          *)
  revision,  (* how often the register has been written        *)
  archive,   (* replaced contents, as a set of [rev, file]     *)
  astray     (* per device, changes it may not know of         *)

vars == <<content, revision, archive, astray>>

Init ==
  /\ content = {}
  /\ revision = 0
  /\ archive = {}
  /\ astray = [c \in Client |-> {}]

\* The content a device writes by an ordinary sync.
Extended ==
  /\ \E c \in Client : content \ content' \subseteq astray[c]
  /\ UNCHANGED archive

\* Any content; the first replaces nothing and need not archive anything.
Replaced ==
  LET replaced == [rev |-> revision, file |-> content] IN
  /\ revision > 0 => replaced \in archive'
  /\ archive' \subseteq archive \cup {replaced}

Write ==
  /\ content' \in SUBSET Change
  /\ Extended \/ Replaced
  /\ revision' = revision + 1
  /\ UNCHANGED astray

CutWrite ==
  /\ content' \in SUBSET Change
  /\ Extended \/ Replaced
  /\ UNCHANGED revision
  /\ astray' = [c \in Client |-> astray[c] \cup (content' \ content)]

\* A device writes over changes it has.
GoAstray ==
  /\ astray' \in [Client -> SUBSET Change]
  /\ \A c \in Client : astray[c] \subseteq astray'[c]
  /\ UNCHANGED <<content, revision, archive>>

Next == Write \/ CutWrite \/ GoAstray

Spec == Init /\ [][Next]_vars
=============================================================================
