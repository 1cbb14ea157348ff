---------------------------- MODULE VocabServer ----------------------------
(***************************************************************************)
(* The server's copy of one user's vocabulary: the files that              *)
(* app/routers/vocab.py keeps in data/vault/u_<userId>/ and the handlers   *)
(* of /api/vocab as operators over them.                                   *)
(*                                                                         *)
(* uvicorn runs one worker and no handler awaits anything between taking   *)
(* the user's lock and answering, so a request is served in one step.      *)
(* What can cut a request short is the process dying between two of the    *)
(* durable writes (storage.atomic_write_json ends in os.replace): each     *)
(* ...Cut operator is such a death.                                        *)
(*                                                                         *)
(* A vocabulary file is abstracted to the set of user changes it           *)
(* incorporates: adding, editing, deleting or grading a word is a change.  *)
(***************************************************************************)
EXTENDS Integers, FiniteSets

CONSTANTS
  Client,   (* the devices, each with its clientId                         *)
  Change,   (* the changes users may make                                  *)
  NoFile,   (* stands for a vocab.json that does not exist                 *)
  Keep      (* the backups _cleanup_old_backups leaves (5 in the code)     *)

ASSUME KeepAssumption == Keep \in Nat \ {0}
ASSUME NoFileAssumption == \A f \in SUBSET Change : f # NoFile

VARIABLES
  vocab,      (* vocab.json: the changes in it, or NoFile                  *)
  serverRev,  (* vocab_meta.json: serverRev, 0 while the file is missing   *)
  updatedBy,  (* vocab_meta.json: updatedByClientId                        *)
  backups     (* backups/: a set of [rev, file], one per revision          *)

serverVars == <<vocab, serverRev, updatedBy, backups>>

VocabFile == SUBSET Change
Backup == [rev : Nat, file : VocabFile]

ServerTypeOK ==
  /\ vocab \in {NoFile} \cup VocabFile
  /\ serverRev \in Nat
  /\ vocab = NoFile => serverRev = 0
  /\ updatedBy \in Client \cup {"unknown"}
  /\ backups \in SUBSET Backup

ServerInit ==
  /\ vocab = NoFile
  /\ serverRev = 0
  /\ updatedBy = "unknown"
  /\ backups = {}

-----------------------------------------------------------------------------
(* Reading and writing the files                                           *)

\* The changes held in what vocab.json holds.
Held(v) == IF v = NoFile THEN {} ELSE v

\* _read_vocab_data: with no vocab.json the metadata is not even looked at.
CurrentRev == IF vocab = NoFile THEN 0 ELSE serverRev

\* What GET /vocab answers, unless there is no vocab.json.
Version == [rev |-> CurrentRev, file |-> vocab]

\* _write_vocab_data: vocab.json, then vocab_meta.json.
WriteVocabData(f, c) ==
  /\ vocab' = f
  /\ serverRev' = CurrentRev + 1
  /\ updatedBy' = c

\* _backup_current_vocab: backups/ once the current content is copied to
\* vocab_backup_rev<current>.json, whatever that name held before.
Archived ==
  IF vocab = NoFile
  THEN backups
  ELSE {b \in backups : b.rev # CurrentRev} \cup {Version}

\* sorted() of the glob compares file names, so the revisions in them compare
\* digit by digit from the left: rev10 sorts before rev9. Revisions < 10000.
LeftAligned(n) ==
  IF n < 10 THEN n * 1000 ELSE
  IF n < 100 THEN n * 100 ELSE
  IF n < 1000 THEN n * 10 ELSE n

NameBefore(m, n) ==
  \/ LeftAligned(m) < LeftAligned(n)
  \/ LeftAligned(m) = LeftAligned(n) /\ m < n

\* The last k backups of B in name order.
LastByName(B, k) ==
  {b \in B : Cardinality({d \in B : NameBefore(b.rev, d.rev)}) < k}

\* Mutant: the slice keeps one backup too few.
LastButOneByName(B) ==
  {b \in B : Cardinality({d \in B : NameBefore(b.rev, d.rev)}) < Keep - 1}

\* _cleanup_old_backups: backups[:-keep] are unlinked.
CleanedUp(B) == LastByName(B, Keep)

-----------------------------------------------------------------------------
(* PUT /vocab                                                              *)

\* Mutant: the revision of the request is not compared.
PutVocabUnchecked(rev, f, c) ==
  /\ WriteVocabData(f, c)
  /\ UNCHANGED backups

\* Accepted: the request was based on the current revision.
PutVocab(rev, f, c) ==
  /\ rev = CurrentRev
  /\ WriteVocabData(f, c)
  /\ UNCHANGED backups

\* Refused with 409.
PutVocabConflict(rev) ==
  /\ rev # CurrentRev
  /\ UNCHANGED serverVars

\* Mutant: vocab_meta.json is written first.
PutVocabCutMetaFirst(rev, f) ==
  /\ rev = CurrentRev
  /\ serverRev' = CurrentRev + 1
  /\ updatedBy' \in Client
  /\ UNCHANGED <<vocab, backups>>

\* The process dies after vocab.json is replaced, before vocab_meta.json is.
PutVocabCut(rev, f) ==
  /\ rev = CurrentRev
  /\ vocab' = f
  /\ UNCHANGED <<serverRev, updatedBy, backups>>

-----------------------------------------------------------------------------
(* PUT /vocab?force=true                                                   *)

\* Mutant: the content is replaced first, then backed up.
PutVocabForceLateBackup(f, c) ==
  /\ WriteVocabData(f, c)
  /\ backups' = CleanedUp({b \in backups : b.rev # CurrentRev}
                             \cup {[rev |-> CurrentRev, file |-> f]})

\* Mutant: the revision is not increased.
PutVocabForceSameRev(f, c) ==
  /\ vocab' = f
  /\ serverRev' = CurrentRev
  /\ updatedBy' = c
  /\ backups' = CleanedUp(Archived)

PutVocabForce(f, c) ==
  /\ WriteVocabData(f, c)
  /\ backups' = CleanedUp(Archived)

\* The process dies after the backup is written, after vocab.json is, or while
\* old backups are being unlinked, in name order, until k of them are left.
PutVocabForceCut(f, c) ==
  \/ /\ backups' = Archived
     /\ UNCHANGED <<vocab, serverRev, updatedBy>>
  \/ /\ backups' = Archived
     /\ vocab' = f
     /\ UNCHANGED <<serverRev, updatedBy>>
  \/ /\ WriteVocabData(f, c)
     /\ \E k \in Keep .. Keep + Cardinality(Archived) :
          backups' = LastByName(Archived, k)
=============================================================================
