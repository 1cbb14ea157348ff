------------------------ MODULE VocabServerRequests ------------------------
(***************************************************************************)
(* The vocabulary server under any sequence of PUT requests, ordinary and  *)
(* forced, from any client with any content, with the process dying at any *)
(* point of a request and being restarted (nothing but the files survives, *)
(* and nothing but the files is modelled).                                 *)
(***************************************************************************)
EXTENDS VocabServer

CONSTANT MaxRev   (* bound: no request is sent at this revision or above   *)

ASSUME MaxRevAssumption == MaxRev \in Nat

VARIABLES
  (* history *)
  held,       (* every version the files have held and GET could answer *)
  acked,      (* every version a PUT was answered 200 for               *)
  archived    (* every version a forced PUT copied to backups/          *)

historyVars == <<held, acked, archived>>
vars == <<serverVars, historyVars>>

TypeOK ==
  /\ ServerTypeOK
  /\ held \in SUBSET Backup
  /\ acked \in SUBSET Backup
  /\ archived \in SUBSET Backup

Init ==
  /\ ServerInit
  /\ held = {}
  /\ acked = {}
  /\ archived = {}

Answered ==
  /\ held' = held \cup {Version'}
  /\ acked' = acked \cup {Version'}

Unanswered ==
  /\ held' = IF vocab' = NoFile THEN held ELSE held \cup {Version'}
  /\ UNCHANGED acked

NothingArchived == UNCHANGED archived
CurrentArchived == archived' = archived \cup (Archived \ backups)

Put(rev, f, c) == PutVocab(rev, f, c) /\ Answered /\ NothingArchived
PutDies(rev, f) == PutVocabCut(rev, f) /\ Unanswered /\ NothingArchived
ForcedPut(f, c) == PutVocabForce(f, c) /\ Answered /\ CurrentArchived
ForcedPutDies(f, c) == PutVocabForceCut(f, c) /\ Unanswered /\ CurrentArchived

Next ==
  /\ CurrentRev < MaxRev
  /\ \E f \in VocabFile, c \in Client :
       \/ \E rev \in 0 .. MaxRev : Put(rev, f, c)
       \/ \E rev \in 0 .. MaxRev : PutDies(rev, f)
       \/ ForcedPut(f, c)
       \/ ForcedPutDies(f, c)

Spec == Init /\ [][Next]_vars

-----------------------------------------------------------------------------
(* Properties                                                              *)

\* A revision the server has acknowledged names one content for ever: no two
\* successful PUTs, ordinary or forced and with crashes between them, are
\* answered the same serverRev (new_rev = current_rev + 1 under the user lock).
\* The clients' conflict detection rests on it.
AckedRevisionNamesOneFile ==
  \A a, b \in acked : a.rev = b.rev => a.file = b.file

\* vocab_backup_rev<n>.json holds content the server really had at revision n,
\* never the content that replaced it, however a forced PUT was cut short.
BackupIsWhatWasHeld == backups \subseteq held

\* The newest backups are the ones kept: a revision that was backed up is
\* missing from backups/ only if Keep newer ones are there.
NewestBackupsKept ==
  \A a \in archived :
    \/ \E b \in backups : b.rev = a.rev
    \/ Cardinality({b \in backups : b.rev > a.rev}) >= Keep
=============================================================================
