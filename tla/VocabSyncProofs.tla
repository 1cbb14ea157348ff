-------------------------- MODULE VocabSyncProofs --------------------------
(***************************************************************************)
(* Proofs about VocabSync, for every number of devices, activations and    *)
(* retries and every bound, whatever overlaps and whatever fails: its      *)
(* types; that a device whose serverRev is current holds what the server   *)
(* holds, but for what went astray; that the server implements             *)
(* VocabRegister; that the dirty flag covers what was never stored, but    *)
(* for what was left unmarked; that no change vanishes but those written   *)
(* over or left out of a backup.                                           *)
(***************************************************************************)
EXTENDS VocabSync, FiniteSetTheorems, TLAPS

-----------------------------------------------------------------------------
(* Operators of VocabServer, which VocabServerRequestsProofs needs as well *)

\* Up to here revisions sort by name as they do by number.
OneDigit == CurrentRev <= 9

\* Pruning backups only ever removes some.
LEMMA LastByNameIsSubset ==
  ASSUME NEW B, NEW k
  PROVE  LastByName(B, k) \subseteq B
BY DEF LastByName

\* _cleanup_old_backups writes no backup.
LEMMA CleanedUpIsSubset ==
  ASSUME NEW B
  PROVE  CleanedUp(B) \subseteq B
BY LastByNameIsSubset DEF CleanedUp

\* The revision in force is the one in vocab_meta.json, even where
\* _read_vocab_data does not look at it.
LEMMA CurrentRevIsServerRev ==
  ASSUME ServerTypeOK
  PROVE  CurrentRev = serverRev /\ CurrentRev \in Nat
BY DEF ServerTypeOK, CurrentRev

\* A forced PUT adds at most the current version to the backups.
LEMMA ArchivedBounds ==
  ASSUME ServerTypeOK
  PROVE  /\ Archived \in SUBSET Backup
         /\ Archived \subseteq backups \cup {Version}
         /\ vocab = NoFile => Archived = backups
<1>1. CASE vocab = NoFile
  BY <1>1 DEF Archived, ServerTypeOK
<1>2. CASE vocab # NoFile
  <2>1. vocab \in VocabFile /\ CurrentRev \in Nat
    BY <1>2, CurrentRevIsServerRev DEF ServerTypeOK
  <2>2. Version \in Backup
    BY <2>1 DEF Version, Backup
  <2> QED
    BY <1>2, <2>2 DEF Archived, Version, ServerTypeOK
<1> QED
  BY <1>1, <1>2

\* vocab.json and vocab_meta.json either stay, or are rewritten under the next
\* revision, or only vocab.json is rewritten (a death between the two).
Stays == UNCHANGED <<vocab, serverRev, updatedBy>>
HalfRewritten(f) == vocab' = f /\ UNCHANGED <<serverRev, updatedBy>>

\* Every step of every handler keeps the types, and never lowers the revision.
LEMMA FilesKeepTheirTypes ==
  ASSUME ServerTypeOK, NEW f \in VocabFile, NEW c \in Client,
         Stays \/ WriteVocabData(f, c) \/ HalfRewritten(f),
         backups' \subseteq Archived \cup backups
  PROVE  /\ ServerTypeOK'
         /\ CurrentRev \in Nat /\ CurrentRev' \in Nat /\ CurrentRev <= CurrentRev'
<1>1. CurrentRev = serverRev /\ CurrentRev \in Nat
  BY CurrentRevIsServerRev
<1>2. backups' \in SUBSET Backup
  BY ArchivedBounds DEF ServerTypeOK
<1>3. f # NoFile
  BY NoFileAssumption DEF VocabFile
<1>4. ServerTypeOK' /\ serverRev' \in Nat /\ serverRev <= serverRev'
  <2>1. CASE Stays
    BY <2>1, <1>2 DEF Stays, ServerTypeOK
  <2>2. CASE WriteVocabData(f, c)
    BY <2>2, <1>1, <1>2, <1>3 DEF WriteVocabData, ServerTypeOK
  <2>3. CASE HalfRewritten(f)
    BY <2>3, <1>2, <1>3 DEF HalfRewritten, ServerTypeOK
  <2> QED
    BY <2>1, <2>2, <2>3
<1>5. CurrentRev' = serverRev'
  BY <1>4 DEF ServerTypeOK, CurrentRev
<1> QED
  BY <1>1, <1>4, <1>5

-----------------------------------------------------------------------------
(* Types of what the actions are built from                                *)

Typed(a) == a \in Activation /\ a.pc \in CallsOf(a.op)

\* An activation built field by field.
LEMMA NewActivationTyped ==
  ASSUME NEW op \in Op \cup {"none"}, NEW pc \in CallsOf(op),
         NEW tries \in 0 .. MaxRetries, NEW rev \in Nat, NEW F \in VocabFile
  PROVE  Typed([op |-> op, pc |-> pc, tries |-> tries, rev |-> rev, file |-> F])
BY DEF Typed, Activation

\* An activation that goes on to another call of its operation.
LEMMA NextCallTyped ==
  ASSUME NEW a, Typed(a), NEW pc \in CallsOf(a.op), NEW rev \in Nat, NEW F \in VocabFile
  PROVE  /\ Typed([a EXCEPT !.pc = pc])
         /\ Typed([a EXCEPT !.pc = pc, !.rev = rev])
         /\ Typed([a EXCEPT !.pc = pc, !.file = F])
         /\ Typed([a EXCEPT !.pc = pc, !.file = F, !.rev = rev])
         /\ Typed([a EXCEPT !.pc = pc, !.rev = rev, !.file = F])
<1>1. pc \in UNION {CallsOf(op) : op \in Op \cup {"none"}}
  BY DEF Typed, Activation
<1> QED
  BY <1>1 DEF Typed, Activation

\* A first attempt that has read nothing.
LEMMA AwaitingTyped ==
  ASSUME NEW op \in Op \cup {"none"}, NEW pc \in CallsOf(op)
  PROVE  Typed(Awaiting(op, pc))
BY NewActivationTyped, RetriesAssumption DEF Awaiting, VocabFile

\* A component that waits for its user.
LEMMA WaitingTyped == Typed(Idle) /\ Typed(Dialog)
BY AwaitingTyped DEF Idle, Dialog, CallsOf

\* The start of a sync operation, as a first attempt or a retry.
LEMMA StartTyped ==
  ASSUME NEW op \in SyncOp, NEW n \in 0 .. MaxRetries
  PROVE  Typed(Start(op)) /\ Typed([Start(op) EXCEPT !.tries = n])
<1>1. FirstCall(op) \in CallsOf(op) /\ op \in Op \cup {"none"}
  BY DEF FirstCall, CallsOf, PutCalls, SyncOp, Op
<1>2. Typed(Start(op))
  BY <1>1, AwaitingTyped DEF Start
<1> QED
  BY <1>2 DEF Typed, Activation

\* What TypeOK says of one activation and of its device.
LEMMA FlowTyped ==
  ASSUME TypeOK, NEW f \in Flow
  PROVE  Typed(flow[f]) /\ ClientOf[f] \in Client /\ file[ClientOf[f]] \in VocabFile
BY ClientOfAssumption DEF TypeOK, Typed

\* withRetry never counts more than MaxRetries failed attempts.
LEMMA AfterErrorTyped ==
  ASSUME TypeOK, NEW f \in Flow, flow[f].op \in SyncOp
  PROVE  Typed(AfterError(f)) /\ Typed(Failed(flow[f].op))
<1>1. flow[f].tries \in 0 .. MaxRetries
  BY DEF TypeOK, Activation
<1>2. CASE MayRetry(f)
  <2>1. flow[f].tries + 1 \in 0 .. MaxRetries
    BY <1>1, <1>2, RetriesAssumption DEF MayRetry
  <2> QED
    BY <1>2, <2>1, StartTyped, WaitingTyped DEF AfterError, Failed
<1>3. CASE ~MayRetry(f)
  BY <1>3, WaitingTyped DEF AfterError, Failed
<1> QED
  BY <1>2, <1>3

\* Moving one activation to a typed one keeps the types of all.
LEMMA GotoTyped ==
  ASSUME TypeOK, NEW f \in Flow, NEW a, Typed(a), Goto(f, a)
  PROVE  /\ flow' \in [Flow -> Activation]
         /\ \A g \in Flow : flow'[g].pc \in CallsOf(flow'[g].op)
BY DEF TypeOK, Goto, Typed

\* Pruning keeps a sequence of files one.
LEMMA PrunedTyped ==
  ASSUME NEW s \in Seq(VocabFile), NEW F \in VocabFile
  PROVE  Pruned(Append(s, F)) \in Seq(VocabFile)
<1>1. Append(s, F) \in Seq(VocabFile) /\ Len(Append(s, F)) \in Nat
  OBVIOUS
<1> QED
  BY <1>1, KeepLocalAssumption DEF Pruned

\* What backups hold are changes.
LEMMA KeptTyped ==
  ASSUME NEW s \in Seq(VocabFile)
  PROVE  Kept(s) \in VocabFile
<1>1. \A i \in 1 .. Len(s) : s[i] \in VocabFile
  OBVIOUS
<1> QED
  BY <1>1 DEF Kept, VocabFile

\* The faults counted stay within their bound.
LEMMA HappensTyped ==
  ASSUME TypeOK, NEW kind, Happens(kind)
  PROVE  faults' \in 0 .. MaxFaults
BY BoundAssumption DEF TypeOK, Happens

\* An activation that awaits a PUT is a push or a force and sent a request.
LEMMA SentByTyped ==
  ASSUME TypeOK, NEW f \in Flow, flow[f].pc = "put"
  PROVE  flow[f].op \in {"push", "force"} /\ SentBy(f) \in Request
<1>1. flow[f].op \in {"push", "force"}
  BY DEF TypeOK, Activation, CallsOf, PutCalls, Op, SyncOp
<1> QED
  BY <1>1, FlowTyped DEF Typed, Activation, SentBy, Request

\* Backups that are dropped are files.
LEMMA DroppedTyped ==
  ASSUME TypeOK, BackupsDropped
  PROVE  unbacked' \in VocabFile
<1>1. \A b \in backups \cup Archived : b.file \in VocabFile
  BY ArchivedBounds DEF TypeOK, ServerTypeOK, Backup
<1> QED
  BY <1>1 DEF BackupsDropped, TypeOK, VocabFile

\* An accepted PUT installs its content under the next revision.
LEMMA AcceptStep ==
  ASSUME TypeOK, NEW r \in Request, Accept(r)
  PROVE  /\ ServerTypeOK' /\ stored' \in VocabFile /\ unbacked' \in VocabFile
         /\ vocab' = r.file /\ CurrentRev' = CurrentRev + 1
<1>1. r.file \in VocabFile /\ r.client \in Client
  BY DEF Request
<1>2. WriteVocabData(r.file, r.client) /\ backups' \subseteq Archived \cup backups
  <2>1. CASE r.op = "push" /\ PutVocab(r.rev, r.file, r.client)
    BY <2>1 DEF PutVocab
  <2>2. CASE r.op = "force" /\ PutVocabForce(r.file, r.client)
    BY <2>2, CleanedUpIsSubset DEF PutVocabForce
  <2> QED
    BY <2>1, <2>2 DEF Accept
<1>3. ServerTypeOK'
  BY <1>1, <1>2, FilesKeepTheirTypes DEF TypeOK
<1>4. vocab' = r.file /\ CurrentRev' = CurrentRev + 1
  BY <1>1, <1>2, NoFileAssumption DEF WriteVocabData, VocabFile, CurrentRev
<1>5. unbacked' \in VocabFile
  BY DroppedTyped DEF Accept, TypeOK
<1> QED
  BY <1>1, <1>3, <1>4, <1>5 DEF Accept, TypeOK, VocabFile

\* What a death of the server leaves in its files has the right types.
LEMMA DieTyped ==
  ASSUME TypeOK, NEW r \in Request, Die(r)
  PROVE  /\ ServerTypeOK' /\ stored' \in VocabFile /\ faults' \in 0 .. MaxFaults
         /\ astray' \in [Client -> VocabFile] /\ unbacked' \in VocabFile
<1>1. r.file \in VocabFile /\ r.client \in Client
  BY DEF Request
<1>2. /\ Stays \/ WriteVocabData(r.file, r.client) \/ HalfRewritten(r.file)
      /\ backups' \subseteq Archived \cup backups
  <2>1. CASE r.op = "push" /\ PutVocabCut(r.rev, r.file)
    BY <2>1 DEF PutVocabCut, HalfRewritten
  <2>2. CASE r.op = "force" /\ PutVocabForceCut(r.file, r.client)
    BY <2>2, LastByNameIsSubset DEF PutVocabForceCut, Stays, HalfRewritten
  <2> QED
    BY <2>1, <2>2 DEF Die
<1>3. ServerTypeOK'
  BY <1>1, <1>2, FilesKeepTheirTypes DEF TypeOK
<1>4. stored' \in VocabFile
  BY <1>3 DEF Die, ServerTypeOK, TypeOK, Held, VocabFile
<1>5. astray' \in [Client -> VocabFile]
  <2>1. Held(vocab') \ Held(vocab) \in VocabFile
    BY <1>3 DEF ServerTypeOK, Held, VocabFile
  <2> QED
    BY <2>1 DEF Die, TypeOK, VocabFile
<1>6. unbacked' \in VocabFile
  BY DroppedTyped DEF Die, TypeOK
<1> QED
  BY <1>3, <1>4, <1>5, <1>6, HappensTyped DEF Die

\* A death of the server leaves its revision, or raises it by one.
LEMMA DieRevision ==
  ASSUME TypeOK, NEW r \in Request, Die(r)
  PROVE  CurrentRev' = CurrentRev \/ CurrentRev' = CurrentRev + 1
<1>1. CurrentRev = serverRev /\ CurrentRev \in Nat
  BY CurrentRevIsServerRev DEF TypeOK
<1>2. CurrentRev' = serverRev'
  BY DieTyped DEF ServerTypeOK, CurrentRev
<1>3. serverRev' = serverRev \/ serverRev' = CurrentRev + 1
  BY DEF Die, PutVocabCut, PutVocabForceCut, WriteVocabData
<1> QED
  BY <1>1, <1>2, <1>3

-----------------------------------------------------------------------------
(* Types                                                                   *)

\* The initial state has the right types.
LEMMA TypeInit == Init => TypeOK
<1> SUFFICES ASSUME Init
             PROVE  TypeOK
  OBVIOUS
<1>1. ServerTypeOK
  BY DEF Init, ServerInit, ServerTypeOK
<1>2. flow \in [Flow -> Activation] /\ \A f \in Flow : flow[f].pc \in CallsOf(flow[f].op)
  BY WaitingTyped DEF Init, Typed
<1>3. localBackups \in [Client -> Seq(VocabFile)]
  BY DEF Init
<1> QED
  BY <1>1, <1>2, <1>3, BoundAssumption DEF Init, TypeOK, VocabFile

\* What an action that only moves one activation has to show.
LEMMA MoveTyped ==
  ASSUME TypeOK, NEW f \in Flow, NEW a, Typed(a), Goto(f, a),
         UNCHANGED <<serverVars, deviceVars, history>>,
         late' \in SUBSET Request, faults' \in 0 .. MaxFaults
  PROVE  TypeOK'
BY GotoTyped DEF TypeOK, ServerTypeOK, serverVars, deviceVars, history

\* The steps of an edit keep the types.
LEMMA EditStepTyped ==
  ASSUME TypeOK, NEW f \in Flow,
         \/ \E e \in Change : BeginEdit(f, e)
         \/ SaveEdit(f) \/ MarkRead(f) \/ MarkSave(f) \/ CutEdit(f)
  PROVE  TypeOK'
<1>1. /\ Typed(flow[f]) /\ Typed(Idle) /\ late \in SUBSET Request
      /\ faults \in 0 .. MaxFaults
      /\ ClientOf[f] \in Client /\ file[ClientOf[f]] \in VocabFile
      /\ flow[f].file \in VocabFile /\ flow[f].rev \in Nat
      /\ metadata[ClientOf[f]].serverRev \in Nat
  BY FlowTyped, WaitingTyped DEF TypeOK, Typed, Activation
<1>2. \A pc \in {"saveVocabFile", "getSyncMetadata", "saveSyncMetadata"} :
        Typed(Awaiting("edit", pc))
  BY AwaitingTyped DEF CallsOf, Op
<1>3. ASSUME NEW e \in Change, BeginEdit(f, e)
      PROVE  TypeOK'
  <2> DEFINE F == file[ClientOf[f]] \cup {e}
  <2>1. F \in VocabFile
    BY <1>1 DEF VocabFile
  <2>2. Typed([Awaiting("edit", "saveVocabFile") EXCEPT !.file = F])
    BY <1>2, <2>1 DEF Typed, Activation
  <2> QED
    BY <1>1, <1>3, <2>2, MoveTyped DEF BeginEdit
<1>4. CASE SaveEdit(f)
  <2>1. SaveCopy(f) /\ Goto(f, Awaiting("edit", "getSyncMetadata"))
    BY <1>4 DEF SaveEdit
  <2>2. Added(f) \in VocabFile /\ WrittenOver(f) \in VocabFile
    BY <1>1 DEF Added, WrittenOver, VocabFile
  <2>3. /\ file' \in [Client -> VocabFile] /\ saved' \in VocabFile
        /\ astray' \in [Client -> VocabFile]
        /\ unmarked' \in VocabFile /\ unbacked' \in VocabFile
    BY <1>1, <2>1, <2>2 DEF SaveCopy, TypeOK, VocabFile
  <2> QED
    BY <1>2, <2>1, <2>3, GotoTyped DEF SaveCopy, TypeOK, ServerTypeOK, serverVars
<1>5. CASE MarkRead(f)
  <2> DEFINE a == [Awaiting("edit", "saveSyncMetadata")
                     EXCEPT !.rev = metadata[ClientOf[f]].serverRev]
  <2>1. Typed(a)
    BY <1>1, <1>2 DEF Typed, Activation
  <2>2. Goto(f, Idle) \/ Goto(f, a)
    BY <1>5 DEF MarkRead
  <2> QED
    BY <1>1, <1>5, <2>1, <2>2, MoveTyped DEF MarkRead
<1>6. CASE MarkSave(f)
  <2>1. metadata' \in [Client -> [serverRev : Nat, dirty : BOOLEAN]]
    BY <1>1, <1>6 DEF MarkSave, TypeOK
  <2> QED
    BY <1>1, <1>6, <2>1, GotoTyped DEF MarkSave, TypeOK, ServerTypeOK, serverVars, history
<1>7. CASE CutEdit(f)
  <2>1. unmarked' \in VocabFile
    BY <1>1, <1>7 DEF CutEdit, TypeOK, VocabFile
  <2> QED
    BY <1>1, <1>7, <2>1, HappensTyped, GotoTyped
       DEF CutEdit, TypeOK, ServerTypeOK, serverVars, deviceVars
<1> QED
  BY <1>3, <1>4, <1>5, <1>6, <1>7

\* The steps of a sync and of the two resolutions keep the types.
LEMMA SyncStepTyped ==
  ASSUME TypeOK, NEW f \in Flow,
         \/ BeginPush(f) \/ BeginForce(f) \/ BeginFetch(f) \/ CancelConflict(f)
         \/ ReadMetadata(f) \/ ReadFile(f) \/ SaveMetadata(f)
         \/ PutAnswered(f) \/ PutRefused(f) \/ ShowConflict(f)
         \/ GetAnswered(f) \/ BackupLocalFile(f) \/ SaveFetchedFile(f)
  PROVE  TypeOK'
<1>1. /\ Typed(flow[f]) /\ Typed(Idle) /\ Typed(Dialog) /\ late \in SUBSET Request
      /\ faults \in 0 .. MaxFaults
      /\ ClientOf[f] \in Client /\ file[ClientOf[f]] \in VocabFile
      /\ flow[f].file \in VocabFile /\ flow[f].rev \in Nat /\ 0 \in Nat
      /\ metadata[ClientOf[f]].serverRev \in Nat
      /\ CurrentRev \in Nat /\ {} \in VocabFile
  BY FlowTyped, WaitingTyped, CurrentRevIsServerRev DEF TypeOK, Typed, Activation, VocabFile
<1>2. CASE BeginPush(f) \/ BeginForce(f) \/ BeginFetch(f)
  <2>1. 0 \in 0 .. MaxRetries
    BY RetriesAssumption
  <2>2. Typed(Start("push")) /\ Typed(Start("force")) /\ Typed(Start("fetch"))
    BY <2>1, StartTyped DEF SyncOp
  <2> QED
    BY <1>1, <1>2, <2>2, MoveTyped DEF BeginPush, BeginForce, BeginFetch
<1>3. CASE CancelConflict(f) \/ ShowConflict(f)
  BY <1>1, <1>3, MoveTyped DEF CancelConflict, ShowConflict
<1>4. CASE ReadMetadata(f)
  <2> DEFINE rev == IF flow[f].op = "push" THEN metadata[ClientOf[f]].serverRev ELSE 0
  <2>1. "getVocabFile" \in CallsOf(flow[f].op)
    BY <1>4 DEF ReadMetadata, CallsOf, PutCalls
  <2>2. rev \in Nat
    BY <1>1
  <2>3. Typed([flow[f] EXCEPT !.pc = "getVocabFile", !.rev = rev])
    BY <1>1, <2>1, <2>2, NextCallTyped
  <2> QED
    BY <1>1, <1>4, <2>3, MoveTyped DEF ReadMetadata
<1>5. CASE ReadFile(f)
  <2>1. "put" \in CallsOf(flow[f].op)
    BY <1>1, <1>5 DEF ReadFile, CallsOf, PutCalls, Typed, Activation, Op, SyncOp
  <2>2. Typed([flow[f] EXCEPT !.pc = "put", !.file = file[ClientOf[f]]])
    BY <1>1, <2>1, NextCallTyped
  <2> QED
    BY <1>1, <1>5, <2>2, MoveTyped DEF ReadFile
<1>6. CASE SaveMetadata(f)
  <2>1. metadata' \in [Client -> [serverRev : Nat, dirty : BOOLEAN]]
    BY <1>1, <1>6 DEF SaveMetadata, TypeOK
  <2> QED
    BY <1>1, <1>6, <2>1, GotoTyped DEF SaveMetadata, TypeOK, ServerTypeOK, serverVars, history
<1>7. CASE PutAnswered(f)
  <2>1. SentBy(f) \in Request /\ flow[f].op \in {"push", "force"}
    BY <1>7, SentByTyped DEF PutAnswered
  <2>2. /\ ServerTypeOK' /\ stored' \in VocabFile /\ unbacked' \in VocabFile
        /\ UNCHANGED astray
    BY <1>7, <2>1, AcceptStep DEF PutAnswered, Accept
  <2>3. "saveSyncMetadata" \in CallsOf(flow[f].op) /\ CurrentRev + 1 \in Nat
    BY <1>1, <2>1 DEF CallsOf, PutCalls
  <2>4. Typed([flow[f] EXCEPT !.pc = "saveSyncMetadata", !.file = {}, !.rev = CurrentRev + 1])
    BY <1>1, <2>3, NextCallTyped
  <2> QED
    BY <1>7, <2>2, <2>4, GotoTyped DEF PutAnswered, TypeOK, deviceVars
<1>8. CASE PutRefused(f)
  <2>1. Typed(Awaiting("push", "getVocab"))
    BY AwaitingTyped DEF CallsOf, Op, SyncOp
  <2> QED
    BY <1>1, <1>8, <2>1, MoveTyped DEF PutRefused, PutVocabConflict
<1>9. CASE GetAnswered(f)
  <2>1. "backup" \in CallsOf(flow[f].op) /\ vocab \in VocabFile
    BY <1>9 DEF GetAnswered, At, CallsOf, TypeOK, ServerTypeOK
  <2>2. Typed([flow[f] EXCEPT !.pc = "backup", !.rev = CurrentRev, !.file = vocab])
    BY <1>1, <2>1, NextCallTyped
  <2> QED
    BY <1>1, <1>9, <2>2, MoveTyped DEF GetAnswered
<1>10. CASE BackupLocalFile(f)
  <2>1. "saveVocabFile" \in CallsOf(flow[f].op)
    BY <1>1, <1>10 DEF BackupLocalFile, MakeBackup, CallsOf, PutCalls, Typed, Activation,
                       Op, SyncOp
  <2>2. Typed([flow[f] EXCEPT !.pc = "saveVocabFile"])
    BY <1>1, <2>1, NextCallTyped
  <2>3. localBackups' \in [Client -> Seq(VocabFile)]
    BY <1>1, <1>10, PrunedTyped DEF BackupLocalFile, MakeBackup, TypeOK
  <2>4. unbacked' \in VocabFile
    <3>1. Kept(localBackups[ClientOf[f]]) \in VocabFile
      BY <1>1, KeptTyped DEF TypeOK
    <3> QED
      BY <1>10, <3>1 DEF BackupLocalFile, MakeBackup, TypeOK, VocabFile
  <2> QED
    BY <1>10, <2>2, <2>3, <2>4, GotoTyped
       DEF BackupLocalFile, MakeBackup, TypeOK, ServerTypeOK, serverVars
<1>11. CASE SaveFetchedFile(f)
  <2>1. "saveSyncMetadata" \in CallsOf(flow[f].op)
    BY <1>11 DEF SaveFetchedFile, At, CallsOf
  <2>2. Typed([flow[f] EXCEPT !.pc = "saveSyncMetadata", !.file = {}])
    BY <1>1, <2>1, NextCallTyped
  <2>3. file' \in [Client -> VocabFile]
    BY <1>1, <1>11 DEF SaveFetchedFile, TypeOK
  <2>4. Added(f) \in VocabFile /\ WrittenOver(f) \in VocabFile
    BY <1>1 DEF Added, WrittenOver, VocabFile
  <2>5. astray' \in [Client -> VocabFile] /\ unbacked' \in VocabFile
    BY <1>1, <1>11, <2>4 DEF SaveFetchedFile, TypeOK, VocabFile
  <2> QED
    BY <1>11, <2>2, <2>3, <2>5, GotoTyped DEF SaveFetchedFile, TypeOK, ServerTypeOK, serverVars
<1> QED
  BY <1>2, <1>3, <1>4, <1>5, <1>6, <1>7, <1>8, <1>9, <1>10, <1>11

\* Whatever goes wrong keeps the types.
LEMMA FaultTyped ==
  ASSUME TypeOK, NEW f \in Flow,
         \/ BackupFails(f) \/ NetworkError(f) \/ RequestLate(f) \/ Unauthorized(f)
         \/ ServerDies(f) \/ StorageError(f) \/ CloseTab(f)
  PROVE  TypeOK'
<1>1. Typed(flow[f]) /\ Typed(Idle) /\ late \in SUBSET Request
  BY FlowTyped, WaitingTyped DEF TypeOK
<1>2. flow[f].pc \in {"put", "getVocab", "backup"} => flow[f].op \in SyncOp
  BY <1>1 DEF Typed, Activation, CallsOf, Op, SyncOp, PutCalls
<1>3. BecomesLate(f) => late' \in SUBSET Request
  BY <1>1, SentByTyped DEF BecomesLate
<1>4. CASE BackupFails(f)
  <2>1. "saveVocabFile" \in CallsOf(flow[f].op)
    BY <1>1, <1>4 DEF BackupFails, CallsOf, PutCalls, Typed, Activation, Op, SyncOp
  <2>2. Typed([flow[f] EXCEPT !.pc = "saveVocabFile"])
    BY <1>1, <2>1 DEF Typed, Activation
  <2>3. unbacked' \in VocabFile
    BY <1>4, FlowTyped DEF BackupFails, TypeOK, VocabFile
  <2> QED
    BY <1>4, <2>2, <2>3, HappensTyped, GotoTyped
       DEF BackupFails, TypeOK, ServerTypeOK, serverVars, deviceVars
<1>5. CASE NetworkError(f)
  <2>1. flow[f].op \in SyncOp
    BY <1>2, <1>5 DEF NetworkError, SyncOp
  <2> QED
    BY <1>1, <1>5, <2>1, AfterErrorTyped, HappensTyped, MoveTyped DEF NetworkError
<1>6. CASE RequestLate(f)
  BY <1>1, <1>2, <1>3, <1>6, AfterErrorTyped, HappensTyped, MoveTyped
     DEF RequestLate, BecomesLate
<1>7. CASE Unauthorized(f)
  BY <1>1, <1>2, <1>7, AfterErrorTyped, HappensTyped, MoveTyped DEF Unauthorized
<1>8. CASE ServerDies(f)
  <2>1. /\ SentBy(f) \in Request /\ Die(SentBy(f)) /\ flow[f].op \in SyncOp
        /\ Goto(f, AfterError(f)) /\ UNCHANGED <<deviceVars, late, saved, unmarked>>
    BY <1>2, <1>8, SentByTyped DEF ServerDies
  <2>2. /\ ServerTypeOK' /\ stored' \in VocabFile /\ faults' \in 0 .. MaxFaults
        /\ astray' \in [Client -> VocabFile] /\ unbacked' \in VocabFile
    BY <2>1, DieTyped
  <2>3. Typed(AfterError(f))
    BY <2>1, AfterErrorTyped
  <2> QED
    BY <2>1, <2>2, <2>3, GotoTyped DEF TypeOK, deviceVars
<1>9. CASE StorageError(f)
  BY <1>1, <1>9, AfterErrorTyped, HappensTyped, MoveTyped DEF StorageError
<1>10. CASE CloseTab(f)
  BY <1>1, <1>3, <1>10, HappensTyped, MoveTyped DEF CloseTab
<1> QED
  BY <1>4, <1>5, <1>6, <1>7, <1>8, <1>9, <1>10

\* A late request keeps the types.
LEMMA LateTyped ==
  ASSUME TypeOK, NEW r \in late, LateArrives(r)
  PROVE  TypeOK'
<1>1. r \in Request
  BY DEF TypeOK
<1>2. /\ ServerTypeOK' /\ stored' \in VocabFile /\ faults' \in 0 .. MaxFaults
      /\ astray' \in [Client -> VocabFile] /\ unbacked' \in VocabFile
  <2>1. CASE Accept(r) /\ UNCHANGED faults
    BY <1>1, <2>1, AcceptStep DEF Accept, TypeOK
  <2>2. CASE PutVocabConflict(r.rev) /\ UNCHANGED <<faults, stored, astray, unbacked>>
    BY <2>2 DEF PutVocabConflict, serverVars, TypeOK, ServerTypeOK
  <2>3. CASE Die(r)
    BY <1>1, <2>3, DieTyped
  <2> QED
    BY <2>1, <2>2, <2>3 DEF LateArrives
<1> QED
  BY <1>2 DEF LateArrives, TypeOK, deviceVars

\* Every step keeps the types.
LEMMA TypeStep == TypeOK /\ [Next]_vars => TypeOK'
<1> SUFFICES ASSUME TypeOK, [Next]_vars
             PROVE  TypeOK'
  OBVIOUS
<1>1. CASE UNCHANGED vars
  BY <1>1 DEF vars, serverVars, deviceVars, history, TypeOK, ServerTypeOK
<1>2. CASE Next
  BY <1>2, EditStepTyped, SyncStepTyped, FaultTyped, LateTyped
     DEF Next, Begin, Proceed, GoWrong
<1> QED
  BY <1>1, <1>2

\* Every variable of the devices, of the operations under way and of the server
\* keeps its type, and an activation only ever awaits a call of the operation it
\* runs, whatever overlaps and whatever fails.
THEOREM TypeCorrect == Spec => []TypeOK
BY TypeInit, TypeStep, PTL DEF Spec

-----------------------------------------------------------------------------
(* The base of a device                                                    *)

\* If the revision an activation on device c has read is still current, F has
\* everything the server holds, but for what is astray.
Covers(a, F, c) == a.rev = CurrentRev => Held(vocab) \subseteq F \cup astray[c]

\* What activation a, on device c, knows in each of the calls it may await.
Knows(a, c) ==
  /\ a.op = "push" /\ a.pc = "getVocabFile" => Covers(a, file[c], c)
  /\ a.op = "push" /\ a.pc = "put" => Covers(a, a.file, c)
  /\ a.pc = "put" => a.file \subseteq file[c] \cup astray[c]
  /\ a.pc = "saveSyncMetadata" => Covers(a, file[c], c)
  /\ a.op = "fetch" /\ a.pc \in {"backup", "saveVocabFile"} => Covers(a, a.file, c)

\* BaseIsCurrent is not inductive by itself: revisions and files travel through
\* the activations and the late requests before they meet in a device. A new
\* revision makes all of them stale at once, since none is above the current.
RevisionsKnown ==
  /\ \A c \in Client : metadata[c].serverRev <= CurrentRev
  /\ \A f \in Flow : flow[f].rev <= CurrentRev
  /\ \A r \in late : r.rev <= CurrentRev

LateCovers == \A r \in late : r.op = "push" => Covers(r, r.file, r.client)

BaseInv ==
  /\ RevisionsKnown
  /\ \A f \in Flow : Knows(flow[f], ClientOf[f])
  /\ LateCovers
  /\ BaseIsCurrent

\* At first every device is at revision 0 and the server holds nothing.
LEMMA BaseInit == Init => BaseInv
<1> SUFFICES ASSUME Init
             PROVE  BaseInv
  OBVIOUS
<1>1. CurrentRev = 0 /\ Held(vocab) = {}
  BY DEF Init, ServerInit, CurrentRev, Held
<1>2. \A f \in Flow : flow[f] = Idle
  BY DEF Init
<1> QED
  BY <1>1, <1>2 DEF Init, BaseInv, RevisionsKnown, Knows, LateCovers, BaseIsCurrent,
                    Idle, Awaiting

\* A request under way is late already or is sent by an activation that waits.
Sent(r) == r \in late \/ \E f \in Flow : flow[f].pc = "put" /\ r = SentBy(f)

\* What every request under way knows.
LEMMA SentCovers ==
  ASSUME TypeOK, BaseInv, NEW r, Sent(r)
  PROVE  r \in Request /\ r.rev <= CurrentRev /\ (r.op = "push" => Covers(r, r.file, r.client))
<1>1. CASE r \in late
  BY <1>1 DEF TypeOK, BaseInv, RevisionsKnown, LateCovers
<1>2. ASSUME NEW f \in Flow, flow[f].pc = "put", r = SentBy(f)
      PROVE  r \in Request /\ r.rev <= CurrentRev
               /\ (r.op = "push" => Covers(r, r.file, r.client))
  BY <1>2, SentByTyped DEF SentBy, BaseInv, RevisionsKnown, Knows, Covers
<1> QED
  BY <1>1, <1>2 DEF Sent

\* An activation stays, or what it moves to is justified by itself.
Justified(f) ==
  flow'[f] = flow[f] \/ (flow'[f].rev <= CurrentRev' /\ Knows(flow[f], ClientOf[f])')

\* Under one revision BaseInv is kept by whatever accounts, as astray, for what
\* the server takes and for what leaves a file.
LEMMA StepKeepsBase ==
  ASSUME TypeOK, BaseInv, CurrentRev' = CurrentRev, UNCHANGED metadata,
         \A c \in Client : /\ astray[c] \subseteq astray'[c]
                           /\ file[c] \subseteq file'[c] \cup astray'[c]
                           /\ Held(vocab)' \ Held(vocab) \subseteq astray'[c],
         \A f \in Flow : Justified(f),
         \A r \in late' : Sent(r)
  PROVE  BaseInv'
<1>1. RevisionsKnown'
  <2>1. \A f \in Flow : flow'[f].rev <= CurrentRev'
    BY DEF Justified, BaseInv, RevisionsKnown
  <2> QED
    BY <2>1, SentCovers DEF BaseInv, RevisionsKnown
<1>2. ASSUME NEW f \in Flow
      PROVE  Knows(flow[f], ClientOf[f])'
  <2>1. ClientOf[f] \in Client /\ Knows(flow[f], ClientOf[f])
    BY ClientOfAssumption DEF BaseInv
  <2>2. CASE flow'[f] = flow[f]
    BY <2>1, <2>2 DEF Knows, Covers
  <2> QED
    BY <2>2 DEF Justified
<1>3. ASSUME NEW r \in late', r.op = "push"
      PROVE  Covers(r, r.file, r.client)'
  <2>1. r.client \in Client /\ Covers(r, r.file, r.client)
    BY <1>3, SentCovers DEF Request
  <2> QED
    BY <2>1 DEF Covers
<1>4. BaseIsCurrent'
  BY DEF BaseInv, BaseIsCurrent
<1> QED
  BY <1>1, <1>2, <1>3, <1>4 DEF BaseInv, LateCovers

\* Under a new revision all that was read before is stale.
LEMMA NewRevisionKeepsBase ==
  ASSUME TypeOK, BaseInv, CurrentRev' = CurrentRev + 1, UNCHANGED <<file, metadata, astray>>,
         \A f \in Flow : Justified(f),
         \A r \in late' : Sent(r)
  PROVE  BaseInv'
<1>1. CurrentRev \in Nat
  BY CurrentRevIsServerRev DEF TypeOK
<1>2. \A r \in late' : r.rev \in Nat /\ r.rev <= CurrentRev
  BY SentCovers DEF Request
<1>3. \A c \in Client : metadata[c].serverRev \in Nat /\ metadata[c].serverRev <= CurrentRev
  BY DEF TypeOK, BaseInv, RevisionsKnown
<1>4. \A f \in Flow : flow[f].rev \in Nat /\ flow[f].rev <= CurrentRev
  BY DEF TypeOK, Activation, BaseInv, RevisionsKnown
<1>5. RevisionsKnown'
  <2>1. \A f \in Flow : flow'[f].rev <= CurrentRev'
    BY <1>1, <1>4 DEF Justified
  <2> QED
    BY <1>1, <1>2, <1>3, <2>1 DEF RevisionsKnown
<1>6. ASSUME NEW f \in Flow
      PROVE  Knows(flow[f], ClientOf[f])'
  <2>1. CASE flow'[f] = flow[f]
    <3>1. flow'[f].rev # CurrentRev'
      BY <1>1, <1>4, <2>1
    <3> QED
      BY <2>1, <3>1 DEF BaseInv, Knows, Covers
  <2> QED
    BY <2>1 DEF Justified
<1>7. LateCovers' /\ BaseIsCurrent'
  BY <1>1, <1>2, <1>3 DEF LateCovers, Covers, BaseIsCurrent
<1> QED
  BY <1>5, <1>6, <1>7 DEF BaseInv

\* Moving one activation justifies all.
LEMMA GotoJustified ==
  ASSUME TypeOK, NEW f \in Flow, NEW a, Goto(f, a), a.rev <= CurrentRev',
         Knows(a, ClientOf[f])'
  PROVE  \A g \in Flow : Justified(g)
<1>1. flow'[f] = a /\ \A g \in Flow \ {f} : flow'[g] = flow[g]
  BY DEF Goto, TypeOK
<1>2. Knows(flow[f], ClientOf[f])'
  BY <1>1 DEF Knows, Covers
<1> QED
  BY <1>1, <1>2 DEF Justified

\* An activation that moves, while server and devices stay, keeps BaseInv if
\* what it moves to is justified by itself.
LEMMA MoveKeepsBase ==
  ASSUME TypeOK, BaseInv, NEW f \in Flow, NEW a, Goto(f, a),
         UNCHANGED <<serverVars, file, metadata, astray>>,
         a.rev <= CurrentRev, Knows(a, ClientOf[f]),
         UNCHANGED late \/ BecomesLate(f)
  PROVE  BaseInv'
<1>1. CurrentRev' = CurrentRev /\ Held(vocab)' = Held(vocab)
  BY DEF serverVars, CurrentRev, Held
<1>2. Knows(a, ClientOf[f])'
  BY <1>1 DEF Knows, Covers
<1>3. \A g \in Flow : Justified(g)
  BY <1>1, <1>2, GotoJustified
<1>4. \A r \in late' : Sent(r)
  BY DEF BecomesLate, Sent
<1> QED
  BY <1>1, <1>3, <1>4, StepKeepsBase

\* In these calls nothing has been read that must still hold.
Rests(a) == a.rev = 0 /\ a.pc \in {"idle", "dialog", "getSyncMetadata", "getVocab"}

\* Giving up, failing or starting an attempt forgets what was read.
LEMMA RestsKeepBase ==
  ASSUME TypeOK, BaseInv, NEW f \in Flow, NEW a, Goto(f, a), Rests(a),
         UNCHANGED <<serverVars, file, metadata, astray>>,
         UNCHANGED late \/ BecomesLate(f)
  PROVE  BaseInv'
<1>1. a.rev <= CurrentRev
  BY CurrentRevIsServerRev DEF TypeOK, Rests
<1>2. Knows(a, ClientOf[f])
  BY DEF Rests, Knows
<1> QED
  BY <1>1, <1>2, MoveKeepsBase

\* A component that waits for its user has read nothing, nor has an attempt
\* that starts (again).
LEMMA WaitingRests ==
  /\ Rests(Idle) /\ Idle.pc = "idle" /\ Idle.op = "none"
  /\ Rests(Dialog) /\ Dialog.pc = "dialog" /\ Dialog.op = "none"
BY DEF Idle, Dialog, Awaiting, Rests

LEMMA StartRests ==
  ASSUME NEW op
  PROVE  Rests(Start(op)) /\ Start(op).op = op
BY DEF Start, FirstCall, Awaiting, Rests

LEMMA AfterErrorRests ==
  ASSUME NEW f \in Flow
  PROVE  /\ Rests(AfterError(f)) /\ AfterError(f).op \in {"none", flow[f].op}
         /\ Rests(Failed(flow[f].op)) /\ Failed(flow[f].op).op = "none"
<1>1. Rests(Start(flow[f].op)) /\ Start(flow[f].op).op = flow[f].op
  BY StartRests
<1>2. Rests([Start(flow[f].op) EXCEPT !.tries = flow[f].tries + 1])
  BY <1>1 DEF Rests, Start, Awaiting
<1> QED
  BY <1>1, <1>2, WaitingRests DEF AfterError, Failed, Start, Awaiting

\* Past the backup a fetch goes on with what it had.
LEMMA ToSaveFileKeepsBase ==
  ASSUME TypeOK, BaseInv, NEW f \in Flow, flow[f].pc = "backup",
         Goto(f, [flow[f] EXCEPT !.pc = "saveVocabFile"]),
         UNCHANGED <<serverVars, file, metadata, late, astray>>
  PROVE  BaseInv'
<1> DEFINE a == [flow[f] EXCEPT !.pc = "saveVocabFile"]
<1>1. /\ a.op = flow[f].op /\ a.pc = "saveVocabFile" /\ a.rev = flow[f].rev
      /\ a.file = flow[f].file
  BY DEF TypeOK, Activation
<1>2. flow[f].op = "fetch"
  BY DEF TypeOK, Activation, CallsOf, PutCalls, Op, SyncOp
<1>3. Knows(flow[f], ClientOf[f]) /\ flow[f].rev <= CurrentRev
  BY DEF BaseInv, RevisionsKnown
<1>4. Knows(a, ClientOf[f])
  BY <1>1, <1>2, <1>3 DEF Knows, Covers
<1> QED
  BY <1>1, <1>3, <1>4, MoveKeepsBase

\* An accepted PUT makes every revision read before it stale. The activation
\* that sent it, if it still waits, goes on with the new one: the server then
\* holds what the device sent, which its file has, or had before it went astray.
LEMMA PutAnsweredKeepsBase ==
  ASSUME TypeOK, BaseInv, NEW f \in Flow, PutAnswered(f)
  PROVE  BaseInv'
<1> DEFINE c == ClientOf[f]
           a == [flow[f] EXCEPT !.pc = "saveSyncMetadata", !.file = {}, !.rev = CurrentRev + 1]
<1>1. /\ SentBy(f) \in Request /\ Accept(SentBy(f)) /\ flow[f].op \in {"push", "force"}
      /\ Goto(f, a) /\ UNCHANGED <<file, metadata, late, astray>> /\ flow[f].pc = "put"
  BY SentByTyped DEF PutAnswered, Accept, deviceVars
<1>2. CurrentRev' = CurrentRev + 1 /\ CurrentRev \in Nat /\ Held(vocab)' = flow[f].file
  <2>1. flow[f].file # NoFile /\ SentBy(f).file = flow[f].file
    BY NoFileAssumption DEF TypeOK, Activation, VocabFile, SentBy
  <2> QED
    BY <1>1, <2>1, AcceptStep, CurrentRevIsServerRev DEF TypeOK, Held
<1>3. /\ flow'[f].pc = "saveSyncMetadata" /\ flow'[f].rev = CurrentRev + 1
      /\ \A g \in Flow \ {f} : flow'[g] = flow[g]
  BY <1>1 DEF Goto, TypeOK, Activation
<1>4. flow[f].file \subseteq file[c] \cup astray[c]
  BY <1>1 DEF BaseInv, Knows
<1>5. Knows(flow[f], c)'
  BY <1>1, <1>2, <1>3, <1>4 DEF Knows, Covers
<1>6. \A g \in Flow : Justified(g)
  BY <1>2, <1>3, <1>5 DEF Justified
<1> QED
  BY <1>1, <1>2, <1>6, NewRevisionKeepsBase DEF Sent

\* A PUT whose answer nobody reads is accepted, or the server dies over it: it
\* ends under the next revision, or under the same one with all it has brought
\* astray.
LEMMA UnreadPutKeepsBase ==
  ASSUME TypeOK, BaseInv, NEW r \in Request, Accept(r) \/ Die(r),
         UNCHANGED <<file, metadata>>,
         \A g \in Flow : flow'[g] = flow[g] \/ Rests(flow'[g]),
         late' \subseteq late
  PROVE  BaseInv'
<1>1. CurrentRev \in Nat
  BY CurrentRevIsServerRev DEF TypeOK
<1>2. CASE CurrentRev' = CurrentRev + 1
  <2>1. UNCHANGED astray
    BY <1>1, <1>2 DEF Accept, Die, TypeOK
  <2>2. \A g \in Flow : Justified(g)
    BY <1>1, <1>2 DEF Justified, Rests, Knows
  <2> QED
    BY <1>2, <2>1, <2>2, NewRevisionKeepsBase DEF Sent
<1>3. CASE Die(r) /\ CurrentRev' = CurrentRev
  <2>1. \A c \in Client : /\ astray[c] \subseteq astray'[c]
                          /\ Held(vocab)' \ Held(vocab) \subseteq astray'[c]
    BY <1>3 DEF Die, Held
  <2>2. \A g \in Flow : Justified(g)
    BY <1>1, <1>3 DEF Justified, Rests, Knows
  <2> QED
    BY <1>3, <2>1, <2>2, StepKeepsBase DEF Sent
<1>4. CurrentRev' = CurrentRev + 1 \/ (Die(r) /\ CurrentRev' = CurrentRev)
  BY AcceptStep, DieRevision
<1> QED
  BY <1>2, <1>3, <1>4

\* An edit is written over whatever the file has become.
LEMMA SaveEditKeepsBase ==
  ASSUME TypeOK, BaseInv, NEW f \in Flow, SaveEdit(f)
  PROVE  BaseInv'
<1> DEFINE c == ClientOf[f]
<1>1. CurrentRev' = CurrentRev /\ Held(vocab)' = Held(vocab) /\ UNCHANGED <<metadata, late>>
  BY DEF SaveEdit, SaveCopy, serverVars, CurrentRev, Held
<1>2. \A d \in Client : /\ astray[d] \subseteq astray'[d]
                        /\ file[d] \subseteq file'[d] \cup astray'[d]
  BY DEF SaveEdit, SaveCopy, WrittenOver, TypeOK
<1>3. Goto(f, Awaiting("edit", "getSyncMetadata")) /\ Rests(Awaiting("edit", "getSyncMetadata"))
  BY DEF SaveEdit, Awaiting, Rests
<1>4. \A g \in Flow : Justified(g)
  <2>1. 0 <= CurrentRev'
    BY <1>1, CurrentRevIsServerRev DEF TypeOK
  <2> QED
    BY <1>3, <2>1, GotoJustified DEF Rests, Knows
<1> QED
  BY <1>1, <1>2, <1>4, StepKeepsBase DEF Sent

\* The version fetched replaces the file. If it is no longer current and anyone
\* on the device relies on the file being so, what it writes over is astray.
LEMMA SaveFetchedFileKeepsBase ==
  ASSUME TypeOK, BaseInv, NEW f \in Flow, SaveFetchedFile(f)
  PROVE  BaseInv'
<1> DEFINE c == ClientOf[f]
           a == [flow[f] EXCEPT !.pc = "saveSyncMetadata", !.file = {}]
<1>1. /\ CurrentRev' = CurrentRev /\ Held(vocab)' = Held(vocab) /\ CurrentRev \in Nat
      /\ UNCHANGED <<metadata, late>>
  BY CurrentRevIsServerRev DEF SaveFetchedFile, serverVars, CurrentRev, Held, TypeOK
<1>2. /\ flow'[f] = a /\ \A g \in Flow \ {f} : flow'[g] = flow[g]
      /\ a.op = "fetch" /\ a.pc = "saveSyncMetadata" /\ a.rev = flow[f].rev
      /\ flow[f].rev \in Nat /\ flow[f].rev <= CurrentRev
      /\ Covers(flow[f], flow[f].file, c)
  BY DEF SaveFetchedFile, Goto, At, TypeOK, Activation, BaseInv, RevisionsKnown, Knows
<1>3. /\ c \in Client /\ file'[c] = flow[f].file
      /\ \A d \in Client \ {c} : file'[d] = file[d]
      /\ \A d \in Client : astray[d] \subseteq astray'[d]
      /\ Outdated(f) => file[c] \subseteq file'[c] \cup astray'[c]
  BY ClientOfAssumption DEF SaveFetchedFile, WrittenOver, TypeOK
<1>4. Knows(flow[f], c)'
  BY <1>1, <1>2, <1>3 DEF Knows, Covers
<1>5. CASE flow[f].rev = CurrentRev
  <2>1. Held(vocab)' \subseteq file'[c] \cup astray'[c]
    BY <1>1, <1>2, <1>3, <1>5 DEF Covers
  <2>2. ASSUME NEW g \in Flow \ {f}
        PROVE  Knows(flow[g], ClientOf[g])'
    <3>1. ClientOf[g] \in Client /\ Knows(flow[g], ClientOf[g])
      BY ClientOfAssumption DEF BaseInv
    <3>2. CASE ClientOf[g] # c
      BY <1>1, <1>2, <1>3, <3>1, <3>2 DEF Knows, Covers
    <3>3. CASE ClientOf[g] = c /\ flow[g].pc = "put"
      <4>1. Outdated(f)
        BY <3>3 DEF Outdated
      <4> QED
        BY <1>1, <1>2, <1>3, <3>1, <3>3, <4>1 DEF Knows, Covers
    <3>4. CASE ClientOf[g] = c /\ flow[g].pc # "put"
      BY <1>1, <1>2, <1>3, <2>1, <3>1, <3>4 DEF Knows, Covers
    <3> QED
      BY <3>2, <3>3, <3>4
  <2>3. \A g \in Flow : Knows(flow[g], ClientOf[g])'
    BY <1>4, <2>2
  <2>4. RevisionsKnown'
    BY <1>1, <1>2 DEF BaseInv, RevisionsKnown
  <2>5. LateCovers'
    BY <1>1, <1>3 DEF BaseInv, LateCovers, Covers, TypeOK, Request
  <2>6. BaseIsCurrent'
    BY <1>1, <1>3, <2>1 DEF BaseInv, BaseIsCurrent
  <2> QED
    BY <2>3, <2>4, <2>5, <2>6 DEF BaseInv
<1>6. CASE flow[f].rev # CurrentRev /\ Outdated(f)
  <2>1. \A g \in Flow : Justified(g)
    BY <1>1, <1>2, <1>4 DEF Justified
  <2>2. \A d \in Client : file[d] \subseteq file'[d] \cup astray'[d]
    BY <1>3, <1>6
  <2> QED
    BY <1>1, <1>3, <2>1, <2>2, StepKeepsBase DEF Sent
<1>7. CASE flow[f].rev # CurrentRev /\ ~Outdated(f)
  <2>1. metadata[c].serverRev # CurrentRev
    BY <1>1, <1>2, <1>3, <1>7 DEF Outdated, TypeOK
  <2>2. ASSUME NEW g \in Flow \ {f}
        PROVE  Knows(flow[g], ClientOf[g])'
    <3>1. ClientOf[g] \in Client /\ Knows(flow[g], ClientOf[g])
      BY ClientOfAssumption DEF BaseInv
    <3>2. ClientOf[g] = c => flow[g].pc # "put" /\ flow[g].rev # CurrentRev
      BY <1>1, <1>2, <1>7 DEF Outdated, TypeOK, Activation
    <3> QED
      BY <1>1, <1>2, <1>3, <3>1, <3>2 DEF Knows, Covers
  <2>3. \A g \in Flow : Knows(flow[g], ClientOf[g])'
    BY <1>4, <2>2
  <2>4. RevisionsKnown'
    BY <1>1, <1>2 DEF BaseInv, RevisionsKnown
  <2>5. LateCovers'
    BY <1>1, <1>3 DEF BaseInv, LateCovers, Covers, TypeOK, Request
  <2>6. BaseIsCurrent'
    BY <1>1, <1>3, <2>1 DEF BaseInv, BaseIsCurrent
  <2> QED
    BY <2>3, <2>4, <2>5, <2>6 DEF BaseInv
<1> QED
  BY <1>5, <1>6, <1>7

\* The metadata is written by an edit or at the end of a sync, with a revision
\* that was read and, if it is still current, describes the file.
LEMMA SaveMetadataKeepsBase ==
  ASSUME TypeOK, BaseInv, NEW f \in Flow, MarkSave(f) \/ SaveMetadata(f)
  PROVE  BaseInv'
<1> DEFINE c == ClientOf[f]
<1>1. /\ CurrentRev' = CurrentRev /\ Held(vocab)' = Held(vocab)
      /\ UNCHANGED <<file, late, astray>>
  BY DEF MarkSave, SaveMetadata, serverVars, CurrentRev, Held, history
<1>2. /\ flow'[f] = Idle /\ \A g \in Flow \ {f} : flow'[g] = flow[g]
      /\ flow[f].pc = "saveSyncMetadata"
  BY DEF MarkSave, SaveMetadata, At, Goto, TypeOK
<1>3. /\ c \in Client /\ metadata'[c].serverRev = flow[f].rev
      /\ \A d \in Client \ {c} : metadata'[d] = metadata[d]
  BY ClientOfAssumption DEF MarkSave, SaveMetadata, TypeOK
<1>4. RevisionsKnown'
  <2>1. Idle.rev <= CurrentRev
    BY WaitingRests, CurrentRevIsServerRev DEF TypeOK, Rests
  <2> QED
    BY <1>1, <1>2, <1>3, <2>1 DEF BaseInv, RevisionsKnown
<1>5. \A g \in Flow : Knows(flow[g], ClientOf[g])'
  BY <1>1, <1>2, WaitingRests DEF BaseInv, Knows, Covers
<1>6. LateCovers'
  BY <1>1 DEF BaseInv, LateCovers, Covers
<1>7. BaseIsCurrent'
  <2>1. Covers(flow[f], file[c], c)
    BY <1>2 DEF BaseInv, Knows
  <2> QED
    BY <1>1, <1>2, <1>3, <2>1 DEF BaseInv, BaseIsCurrent, Covers
<1> QED
  BY <1>4, <1>5, <1>6, <1>7 DEF BaseInv

\* What users begin keeps BaseInv.
LEMMA BeginKeepsBase ==
  ASSUME TypeOK, BaseInv, NEW f \in Flow, Begin(f)
  PROVE  BaseInv'
<1>1. ASSUME NEW e \in Change, BeginEdit(f, e)
      PROVE  BaseInv'
  <2> DEFINE a == [Awaiting("edit", "saveVocabFile") EXCEPT !.file = file[ClientOf[f]] \cup {e}]
  <2>1. a.op = "edit" /\ a.pc = "saveVocabFile" /\ a.rev = 0
    BY DEF Awaiting
  <2>2. Knows(a, ClientOf[f])
    BY <2>1 DEF Knows
  <2>3. a.rev <= CurrentRev
    BY <2>1, CurrentRevIsServerRev DEF TypeOK
  <2> QED
    BY <1>1, <2>2, <2>3, MoveKeepsBase DEF BeginEdit, deviceVars, history
<1>2. CASE BeginPush(f) \/ BeginForce(f) \/ BeginFetch(f)
  BY <1>2, StartRests, RestsKeepBase DEF BeginPush, BeginForce, BeginFetch, deviceVars, history
<1>3. CASE CancelConflict(f)
  BY <1>3, WaitingRests, RestsKeepBase DEF CancelConflict, deviceVars, history
<1> QED
  BY <1>1, <1>2, <1>3 DEF Begin

\* What activations do keeps BaseInv.
LEMMA ProceedKeepsBase ==
  ASSUME TypeOK, BaseInv, NEW f \in Flow, Proceed(f)
  PROVE  BaseInv'
<1> DEFINE c == ClientOf[f]
<1>1. /\ 0 <= CurrentRev /\ CurrentRev \in Nat /\ flow[f] \in Activation
      /\ flow[f].rev <= CurrentRev /\ metadata[c].serverRev <= CurrentRev
      /\ Knows(flow[f], c)
      /\ metadata[c].serverRev = CurrentRev => Held(vocab) \subseteq file[c] \cup astray[c]
  BY CurrentRevIsServerRev, ClientOfAssumption
     DEF TypeOK, BaseInv, RevisionsKnown, BaseIsCurrent
<1>2. CASE MarkRead(f)
  <2> DEFINE a == [Awaiting("edit", "saveSyncMetadata") EXCEPT !.rev = metadata[c].serverRev]
  <2>1. a.op = "edit" /\ a.pc = "saveSyncMetadata" /\ a.rev = metadata[c].serverRev
    BY DEF Awaiting
  <2>2. Knows(a, c)
    BY <1>1, <2>1 DEF Knows, Covers
  <2>3. CASE Goto(f, a)
    BY <1>1, <1>2, <2>1, <2>2, <2>3, MoveKeepsBase DEF MarkRead, deviceVars, history
  <2>4. CASE Goto(f, Idle)
    BY <1>2, <2>4, WaitingRests, RestsKeepBase DEF MarkRead, deviceVars, history
  <2> QED
    BY <1>2, <2>3, <2>4 DEF MarkRead
<1>3. CASE ReadMetadata(f)
  <2> DEFINE rev == IF flow[f].op = "push" THEN metadata[c].serverRev ELSE 0
             a == [flow[f] EXCEPT !.pc = "getVocabFile", !.rev = rev]
  <2>1. a.op = flow[f].op /\ a.pc = "getVocabFile" /\ a.rev = rev
    BY <1>1 DEF Activation
  <2>2. a.rev <= CurrentRev
    BY <1>1, <2>1
  <2>3. Knows(a, c)
    BY <1>1, <2>1 DEF Knows, Covers
  <2> QED
    BY <1>3, <2>1, <2>2, <2>3, MoveKeepsBase DEF ReadMetadata, deviceVars, history
<1>4. CASE ReadFile(f)
  <2> DEFINE a == [flow[f] EXCEPT !.pc = "put", !.file = file[c]]
  <2>1. a.op = flow[f].op /\ a.pc = "put" /\ a.rev = flow[f].rev /\ a.file = file[c]
    BY <1>1 DEF Activation
  <2>2. Knows(a, c)
    BY <1>1, <1>4, <2>1 DEF ReadFile, Knows, Covers
  <2> QED
    BY <1>1, <1>4, <2>1, <2>2, MoveKeepsBase DEF ReadFile, deviceVars, history
<1>5. CASE PutAnswered(f)
  BY <1>5, PutAnsweredKeepsBase
<1>6. CASE PutRefused(f)
  <2>1. Rests(Awaiting("push", "getVocab"))
    BY DEF Awaiting, Rests
  <2> QED
    BY <1>6, <2>1, RestsKeepBase DEF PutRefused, PutVocabConflict, deviceVars, history
<1>7. CASE ShowConflict(f)
  BY <1>7, WaitingRests, RestsKeepBase DEF ShowConflict, deviceVars, history
<1>8. CASE GetAnswered(f)
  <2> DEFINE a == [flow[f] EXCEPT !.pc = "backup", !.rev = CurrentRev, !.file = vocab]
  <2>1. a.op = flow[f].op /\ a.pc = "backup" /\ a.rev = CurrentRev /\ a.file = vocab
    BY <1>1 DEF Activation
  <2>2. Held(vocab) = vocab
    BY <1>8 DEF GetAnswered, Held
  <2>3. Knows(a, c)
    BY <1>1, <2>1, <2>2 DEF Knows, Covers
  <2>4. a.rev <= CurrentRev
    BY <1>1, <2>1
  <2>5. Goto(f, a) /\ UNCHANGED <<serverVars, file, metadata, late, astray>>
    BY <1>8 DEF GetAnswered, deviceVars, history
  <2> QED
    BY <2>1, <2>3, <2>4, <2>5, MoveKeepsBase
<1>9. CASE BackupLocalFile(f)
  BY <1>9, ToSaveFileKeepsBase DEF BackupLocalFile, MakeBackup
<1>10. CASE SaveEdit(f)
  BY <1>10, SaveEditKeepsBase
<1>11. CASE SaveFetchedFile(f)
  BY <1>11, SaveFetchedFileKeepsBase
<1>12. CASE MarkSave(f) \/ SaveMetadata(f)
  BY <1>12, SaveMetadataKeepsBase
<1> QED
  BY <1>2, <1>3, <1>4, <1>5, <1>6, <1>7, <1>8, <1>9, <1>10, <1>11, <1>12 DEF Proceed

\* Whatever goes wrong keeps BaseInv.
LEMMA GoWrongKeepsBase ==
  ASSUME TypeOK, BaseInv, NEW f \in Flow, GoWrong(f)
  PROVE  BaseInv'
<1>1. CASE BackupFails(f)
  BY <1>1, ToSaveFileKeepsBase DEF BackupFails, deviceVars
<1>2. CASE ServerDies(f)
  <2>1. /\ SentBy(f) \in Request /\ Die(SentBy(f))
        /\ UNCHANGED <<file, metadata, late>> /\ Goto(f, AfterError(f))
    BY <1>2, SentByTyped DEF ServerDies, deviceVars
  <2>2. \A g \in Flow : flow'[g] = flow[g] \/ Rests(flow'[g])
    BY <2>1, AfterErrorRests DEF Goto, TypeOK
  <2> QED
    BY <2>1, <2>2, UnreadPutKeepsBase
<1>3. CASE NetworkError(f) \/ RequestLate(f) \/ StorageError(f)
  <2>1. /\ Goto(f, AfterError(f)) /\ UNCHANGED <<serverVars, file, metadata, astray>>
        /\ UNCHANGED late \/ BecomesLate(f)
    BY <1>3 DEF NetworkError, RequestLate, StorageError, deviceVars, history
  <2> QED
    BY <2>1, AfterErrorRests, RestsKeepBase
<1>4. CASE Unauthorized(f)
  BY <1>4, AfterErrorRests, RestsKeepBase DEF Unauthorized, deviceVars, history
<1>5. CASE CutEdit(f) \/ CloseTab(f)
  <2>1. /\ Goto(f, Idle) /\ UNCHANGED <<serverVars, file, metadata, astray>>
        /\ UNCHANGED late \/ BecomesLate(f)
    BY <1>5 DEF CutEdit, CloseTab, deviceVars, history
  <2> QED
    BY <2>1, WaitingRests, RestsKeepBase
<1> QED
  BY <1>1, <1>2, <1>3, <1>4, <1>5 DEF GoWrong

\* A late PUT is accepted under a new revision, refused, or died over.
LEMMA LateKeepsBase ==
  ASSUME TypeOK, BaseInv, NEW r \in late, LateArrives(r)
  PROVE  BaseInv'
<1>1. r \in Request /\ late' \subseteq late /\ UNCHANGED <<file, metadata, flow>>
  BY DEF TypeOK, LateArrives, deviceVars
<1>2. CASE Accept(r) \/ Die(r)
  BY <1>1, <1>2, UnreadPutKeepsBase
<1>3. CASE PutVocabConflict(r.rev) /\ UNCHANGED astray
  <2>1. CurrentRev' = CurrentRev /\ Held(vocab)' = Held(vocab)
    BY <1>3 DEF PutVocabConflict, serverVars, CurrentRev, Held
  <2>2. \A g \in Flow : Justified(g)
    BY <1>1 DEF Justified
  <2> QED
    BY <1>1, <1>3, <2>1, <2>2, StepKeepsBase DEF Sent
<1> QED
  BY <1>2, <1>3 DEF LateArrives

\* Every step keeps BaseInv.
LEMMA BaseStep == TypeOK /\ BaseInv /\ [Next]_vars => BaseInv'
<1> SUFFICES ASSUME TypeOK, BaseInv, [Next]_vars
             PROVE  BaseInv'
  OBVIOUS
<1>1. CASE UNCHANGED vars
  <2>1. /\ CurrentRev' = CurrentRev /\ Held(vocab)' = Held(vocab)
        /\ UNCHANGED <<file, metadata, astray, flow, late>>
    BY <1>1 DEF vars, serverVars, CurrentRev, Held, deviceVars, history
  <2>2. \A g \in Flow : Justified(g)
    BY <2>1 DEF Justified
  <2> QED
    BY <2>1, <2>2, StepKeepsBase DEF Sent
<1>2. CASE Next
  BY <1>2, BeginKeepsBase, ProceedKeepsBase, GoWrongKeepsBase, LateKeepsBase DEF Next
<1> QED
  BY <1>1, <1>2

\* BaseInv holds in every reachable state.
LEMMA BaseCorrect == Spec => []BaseInv
BY BaseInit, BaseStep, TypeCorrect, PTL DEF Spec

\* On every device whose serverRev is the server's current revision the file has
\* every change the server holds, for any number of devices and tabs, whatever
\* overlaps (a fetch included), with replies lost, requests late, storage
\* failing, tabs closed and the server dying between its two files; only what
\* the device itself wrote over with an older file, and what a dying server
\* took, may be missing. So the test sync_request.serverRev != current_rev of
\* the server stops every PUT that would drop another device's changes, unless
\* the sending device had them and wrote over them, or the server died.
THEOREM BaseStaysCurrent == Spec => []BaseIsCurrent
<1>1. BaseInv => BaseIsCurrent
  BY DEF BaseInv
<1> QED
  BY <1>1, BaseCorrect, PTL

-----------------------------------------------------------------------------
(* The register                                                            *)

BackupsBelow == \A b \in backups : b.rev <= CurrentRev

\* Among revisions of one digit the content that is replaced has the last name,
\* so that cleaning up, as far as it gets, keeps it.
LEMMA ReplacedIsKept ==
  ASSUME ServerTypeOK, BackupsBelow, OneDigit, vocab # NoFile, NEW k \in Nat, k >= Keep
  PROVE  Version \in LastByName(Archived, k)
<1>1. CurrentRev \in Nat /\ \A b \in Archived : b.rev \in Nat /\ b.rev <= CurrentRev
  <2>1. \A b \in Archived : b \in backups \cup {Version} /\ b \in Backup
    BY ArchivedBounds
  <2> QED
    BY <2>1, CurrentRevIsServerRev DEF BackupsBelow, Version, Backup
<1>2. \A b \in Archived : ~NameBefore(CurrentRev, b.rev)
  BY <1>1 DEF OneDigit, NameBefore, LeftAligned
<1>3. {b \in Archived : NameBefore(Version.rev, b.rev)} = {}
  BY <1>2 DEF Version
<1>4. Cardinality({b \in Archived : NameBefore(Version.rev, b.rev)}) < k
  BY <1>3, FS_EmptySet, KeepAssumption
<1>5. Version \in Archived
  BY DEF Archived
<1> QED
  BY <1>4, <1>5 DEF LastByName

\* What a forced PUT, ended or died over, leaves of the backups.
LEMMA ForceKeepsReplaced ==
  ASSUME TypeOK, NEW r \in Request,
         PutVocabForce(r.file, r.client) \/ PutVocabForceCut(r.file, r.client)
  PROVE  /\ backups' \subseteq Archived
         /\ BackupsBelow /\ OneDigit /\ vocab # NoFile => Version \in backups'
<1>1. \/ backups' = Archived
      \/ \E k \in Nat : k >= Keep /\ backups' = LastByName(Archived, k)
  <2>1. CASE PutVocabForce(r.file, r.client)
    BY <2>1, KeepAssumption DEF PutVocabForce, CleanedUp
  <2>2. CASE /\ PutVocabForceCut(r.file, r.client)
             /\ \E k \in Keep .. Keep + Cardinality(Archived) : backups' = LastByName(Archived, k)
    BY <2>2, KeepAssumption
  <2>3. CASE backups' = Archived
    BY <2>3
  <2> QED
    BY <2>1, <2>2, <2>3 DEF PutVocabForceCut
<1> QED
  BY <1>1, LastByNameIsSubset, ReplacedIsKept DEF TypeOK, Archived

\* There are no backups at first.
LEMMA BackupsInit == Init => BackupsBelow
BY DEF Init, ServerInit, BackupsBelow

\* A step leaves the server and what is astray, or sends something astray, or
\* serves a PUT.
LEMMA ServerStep ==
  ASSUME TypeOK, [Next]_vars
  PROVE  \/ UNCHANGED serverVars /\ \A c \in Client : astray[c] \subseteq astray'[c]
         \/ \E r \in Request : Sent(r) /\ (Accept(r) \/ Die(r))
<1> DEFINE Spared == UNCHANGED serverVars /\ \A c \in Client : astray[c] \subseteq astray'[c]
           Served == \E r \in Request : Sent(r) /\ (Accept(r) \/ Die(r))
<1>1. CASE UNCHANGED vars
  BY <1>1 DEF vars, history
<1>2. ASSUME NEW f \in Flow, Begin(f)
      PROVE  Spared
  BY <1>2 DEF Begin, BeginEdit, BeginPush, BeginForce, BeginFetch, CancelConflict, history
<1>3. ASSUME NEW f \in Flow, Proceed(f)
      PROVE  Spared \/ Served
  <2>1. CASE PutAnswered(f)
    BY <2>1, SentByTyped DEF PutAnswered, Sent
  <2>2. CASE SaveEdit(f) \/ SaveFetchedFile(f)
    BY <2>2 DEF SaveEdit, SaveCopy, SaveFetchedFile, TypeOK
  <2>3. CASE MarkRead(f) \/ MarkSave(f) \/ ReadMetadata(f) \/ ReadFile(f) \/ SaveMetadata(f)
    BY <2>3 DEF MarkRead, MarkSave, ReadMetadata, ReadFile, SaveMetadata, history
  <2>4. CASE PutRefused(f) \/ ShowConflict(f) \/ GetAnswered(f) \/ BackupLocalFile(f)
    BY <2>4 DEF PutRefused, PutVocabConflict, ShowConflict, GetAnswered, BackupLocalFile,
                MakeBackup, history
  <2> QED
    BY <1>3, <2>1, <2>2, <2>3, <2>4 DEF Proceed
<1>4. ASSUME NEW f \in Flow, GoWrong(f)
      PROVE  Spared \/ Served
  <2>1. CASE ServerDies(f)
    BY <2>1, SentByTyped DEF ServerDies, Sent
  <2>2. CASE ~ServerDies(f)
    BY <1>4, <2>2 DEF GoWrong, CutEdit, BackupFails, NetworkError, RequestLate, Unauthorized,
                      StorageError, CloseTab, history
  <2> QED
    BY <2>1, <2>2
<1>5. ASSUME NEW r \in late, LateArrives(r)
      PROVE  Spared \/ Served
  BY <1>5 DEF LateArrives, PutVocabConflict, Sent, TypeOK
<1> QED
  BY <1>1, <1>2, <1>3, <1>4, <1>5 DEF Next

\* No backup is ever named for a revision to come.
LEMMA BackupsStep == TypeOK /\ BackupsBelow /\ [Next]_vars => BackupsBelow'
<1> SUFFICES ASSUME TypeOK, BackupsBelow, [Next]_vars
             PROVE  BackupsBelow'
  OBVIOUS
<1>1. CASE UNCHANGED serverVars
  BY <1>1 DEF serverVars, BackupsBelow, CurrentRev
<1>2. ASSUME NEW r \in Request, Accept(r) \/ Die(r)
      PROVE  BackupsBelow'
  <2>1. CurrentRev \in Nat /\ (CurrentRev' = CurrentRev \/ CurrentRev' = CurrentRev + 1)
    BY <1>2, AcceptStep, DieRevision, CurrentRevIsServerRev DEF TypeOK
  <2>2. backups' \subseteq backups \cup Archived
    BY <1>2, ForceKeepsReplaced DEF Accept, Die, PutVocab, PutVocabCut
  <2>3. Archived \subseteq backups \cup {Version}
    BY ArchivedBounds DEF TypeOK
  <2>4. \A b \in backups : b.rev \in Nat
    BY DEF TypeOK, ServerTypeOK, Backup
  <2> QED
    BY <2>1, <2>2, <2>3, <2>4 DEF BackupsBelow, Version
<1> QED
  BY <1>1, <1>2, ServerStep

\* An empty vault is an empty register.
LEMMA RegisterInit == Init => Register!Init
BY DEF Init, ServerInit, Register!Init, Held, CurrentRev

\* A PUT that is served, ended or not, extends what the server held, but for
\* what is astray on the device that sent it, or archives it.
LEMMA ServedKeeps ==
  ASSUME TypeOK, BaseInv, NEW r \in Request, Sent(r), Accept(r) \/ Die(r)
  PROVE  \/ /\ r.client \in Client /\ Held(vocab) \ Held(vocab)' \subseteq astray[r.client]
            /\ UNCHANGED backups
         \/ /\ PutVocabForce(r.file, r.client) \/ PutVocabForceCut(r.file, r.client)
            /\ BackupsDropped
<1>1. r.file # NoFile /\ r.client \in Client
  BY NoFileAssumption DEF Request, VocabFile
<1>2. CASE r.op = "push" /\ (PutVocab(r.rev, r.file, r.client) \/ PutVocabCut(r.rev, r.file))
  <2>1. r.rev = CurrentRev /\ vocab' = r.file /\ UNCHANGED backups
    BY <1>2 DEF PutVocab, PutVocabCut, WriteVocabData
  <2>2. Held(vocab) \subseteq r.file \cup astray[r.client]
    BY <1>2, <2>1, SentCovers DEF Covers
  <2> QED
    BY <1>1, <2>1, <2>2 DEF Held
<1> QED
  BY <1>2 DEF Accept, Die

\* A served PUT is a write of the register, or a cut one.
LEMMA RegisterStep ==
  TypeOK /\ BaseInv /\ BackupsBelow /\ OneDigit /\ TypeOK' /\ [Next]_vars
    => [Register!Next]_(Register!vars)
<1> SUFFICES ASSUME TypeOK, BaseInv, BackupsBelow, OneDigit, TypeOK', [Next]_vars
             PROVE  [Register!Next]_(Register!vars)
  OBVIOUS
<1>1. CASE UNCHANGED serverVars /\ \A c \in Client : astray[c] \subseteq astray'[c]
  <2>1. astray' \in [Client -> SUBSET Change]
    BY DEF TypeOK, VocabFile
  <2>2. Register!GoAstray
    BY <1>1, <2>1 DEF Register!GoAstray, serverVars, Held, CurrentRev
  <2> QED
    BY <2>2 DEF Register!Next
<1>2. ASSUME NEW r \in Request, Sent(r), Accept(r) \/ Die(r)
      PROVE  Register!Next
  <2>1. Held(vocab)' \in SUBSET Change
    BY DEF TypeOK, ServerTypeOK, Held, VocabFile
  <2>2. Register!Extended \/ Register!Replaced
    <3>1. CASE /\ r.client \in Client /\ Held(vocab) \ Held(vocab)' \subseteq astray[r.client]
               /\ UNCHANGED backups
      BY <3>1 DEF Register!Extended
    <3>2. CASE PutVocabForce(r.file, r.client) \/ PutVocabForceCut(r.file, r.client)
      <4> DEFINE replaced == [rev |-> CurrentRev, file |-> Held(vocab)]
      <4>1. vocab # NoFile => replaced = Version
        BY DEF Held, Version
      <4>2. vocab = NoFile => CurrentRev = 0 /\ Archived = backups
        BY DEF CurrentRev, Archived
      <4>3. CurrentRev > 0 => replaced \in backups'
        BY <3>2, <4>1, <4>2, ForceKeepsReplaced
      <4>4. backups' \subseteq backups \cup {replaced}
        BY <3>2, <4>1, <4>2, ForceKeepsReplaced, ArchivedBounds DEF TypeOK
      <4> QED
        BY <4>3, <4>4 DEF Register!Replaced
    <3> QED
      BY <1>2, <3>1, <3>2, ServedKeeps
  <2>3. CASE CurrentRev' = CurrentRev + 1
    <3>1. UNCHANGED astray
      BY <1>2, <2>3, CurrentRevIsServerRev DEF Accept, Die, TypeOK
    <3> QED
      BY <2>1, <2>2, <2>3, <3>1 DEF Register!Next, Register!Write
  <2>4. CASE Die(r) /\ CurrentRev' = CurrentRev
    <3>1. astray' = [c \in Client |-> astray[c] \cup (Held(vocab)' \ Held(vocab))]
      BY <2>4 DEF Die, Held
    <3> QED
      BY <2>1, <2>2, <2>4, <3>1 DEF Register!Next, Register!CutWrite
  <2> QED
    BY <1>2, <2>3, <2>4, AcceptStep, DieRevision
<1> QED
  BY <1>1, <1>2, ServerStep

\* As long as revisions have one digit (beyond, backups sort by name and not by
\* age), the server's files under any number of synchronising devices are a
\* register with an archive, whatever overlaps and whatever fails, the death of
\* the server included: an ordinary sync drops nothing but what went astray on
\* the device that sends it, and what a forced one replaces is archived under
\* its revision.
THEOREM SyncImplementsRegister == Spec /\ []OneDigit => ImplementsRegister
<1>1. Spec => []BackupsBelow
  BY BackupsInit, BackupsStep, TypeCorrect, PTL DEF Spec
<1> QED
  BY <1>1, RegisterInit, RegisterStep, TypeCorrect, BaseCorrect, PTL
     DEF Spec, ImplementsRegister, Register!Spec

-----------------------------------------------------------------------------
(* The flag of unsynchronised changes                                      *)

\* What activation a, on device c, knows of the server's history: a PUT carries
\* what the file has that was never stored, and what a fetch brings was stored.
Backed(a, c) ==
  /\ a.pc = "put" => file[c] \subseteq a.file \cup stored \cup unmarked
  /\ a.op \in SyncOp /\ a.pc = "saveSyncMetadata" => file[c] \subseteq stored \cup unmarked
  /\ a.op = "fetch" /\ a.pc \in {"backup", "saveVocabFile"} => a.file \subseteq stored

DirtyInv ==
  /\ Held(vocab) \subseteq stored
  /\ \A f \in Flow : Backed(flow[f], ClientOf[f])
  /\ DirtyButForUnmarked

\* An activation that is setting the flag.
InMark(a) == a.op = "edit" /\ a.pc \in {"getSyncMetadata", "saveSyncMetadata"}

\* The flag of device c says what it should.
Flagged(c) == Marking(c) \/ metadata[c].dirty \/ file[c] \subseteq stored \cup unmarked

LEMMA FlaggedIsDirty == DirtyButForUnmarked <=> \A c \in Client : Flagged(c)
BY DEF DirtyButForUnmarked, Flagged

\* At first no device has anything.
LEMMA DirtyInit == Init => DirtyInv
<1> SUFFICES ASSUME Init
             PROVE  DirtyInv
  OBVIOUS
<1>1. \A f \in Flow : flow[f].op = "none" /\ flow[f].pc = "idle"
  BY DEF Init, Idle, Awaiting
<1>2. Held(vocab) = {} /\ \A c \in Client : file[c] = {}
  BY DEF Init, ServerInit, Held
<1> QED
  BY <1>1, <1>2 DEF DirtyInv, Backed, DirtyButForUnmarked, SyncOp

\* What is stored stays in the record, and a PUT adds to it what it leaves in
\* vocab.json, also when the server dies over it.
LEMMA PutStores ==
  ASSUME TypeOK, DirtyInv, NEW r \in Request, Accept(r) \/ Die(r)
  PROVE  /\ stored \subseteq stored' /\ Held(vocab)' \subseteq stored'
         /\ Accept(r) => r.file \subseteq stored'
<1>1. CASE Accept(r)
  <2>1. vocab' = r.file /\ r.file # NoFile
    BY <1>1, AcceptStep, NoFileAssumption DEF Request, VocabFile
  <2> QED
    BY <1>1, <2>1 DEF Accept, Held
<1>2. CASE Die(r) /\ ~Accept(r)
  BY <1>2 DEF Die, Held
<1> QED
  BY <1>1, <1>2

\* An activation is marking no less than before, or its device is flagged.
StaysMarking(f) == InMark(flow[f]) => InMark(flow'[f]) \/ Flagged(ClientOf[f])'

\* Where files and flags stay, what is flagged stays so if no activation leaves
\* off marking in between.
LEMMA StaysFlagged ==
  ASSUME DirtyInv, UNCHANGED <<file, metadata>>,
         stored \subseteq stored', unmarked \subseteq unmarked',
         \A f \in Flow : StaysMarking(f)
  PROVE  DirtyButForUnmarked'
<1> SUFFICES ASSUME NEW c \in Client
             PROVE  Flagged(c)'
  BY DEF DirtyButForUnmarked, Flagged
<1>1. Flagged(c)
  BY FlaggedIsDirty DEF DirtyInv
<1>2. CASE Marking(c)
  <2>1. PICK f \in Flow : ClientOf[f] = c /\ InMark(flow[f])
    BY <1>2 DEF Marking, InMark
  <2>2. CASE InMark(flow'[f])
    BY <2>1, <2>2 DEF Flagged, Marking, InMark
  <2> QED
    BY <2>1, <2>2 DEF StaysMarking
<1>3. CASE ~Marking(c)
  BY <1>1, <1>3 DEF Flagged
<1> QED
  BY <1>2, <1>3

\* An activation that moves, while files and flags stay, keeps DirtyInv if what
\* it moves to is justified by itself and an edit ends only when marked.
LEMMA MoveKeepsDirty ==
  ASSUME TypeOK, DirtyInv, NEW f \in Flow, NEW a, Goto(f, a),
         UNCHANGED <<file, metadata>>,
         stored \subseteq stored', unmarked \subseteq unmarked', Held(vocab)' \subseteq stored',
         InMark(flow[f]) =>
           \/ InMark(a) \/ metadata[ClientOf[f]].dirty
           \/ file[ClientOf[f]] \subseteq stored' \cup unmarked',
         a.pc = "put" => file[ClientOf[f]] \subseteq a.file \cup stored' \cup unmarked',
         a.op \in SyncOp /\ a.pc = "saveSyncMetadata" =>
           file[ClientOf[f]] \subseteq stored' \cup unmarked',
         a.op = "fetch" /\ a.pc \in {"backup", "saveVocabFile"} => a.file \subseteq stored'
  PROVE  DirtyInv'
<1>1. /\ flow'[f] = a
      /\ \A g \in Flow \ {f} : flow'[g] = flow[g]
  BY DEF Goto, TypeOK
<1>2. ASSUME NEW g \in Flow
      PROVE  Backed(flow[g], ClientOf[g])'
  <2>1. CASE g = f
    BY <1>1, <2>1 DEF Backed
  <2>2. CASE g # f
    <3>1. flow'[g] = flow[g] /\ Backed(flow[g], ClientOf[g])
      BY <1>1, <2>2 DEF DirtyInv
    <3> QED
      BY <3>1 DEF Backed
  <2> QED
    BY <2>1, <2>2
<1>3. \A g \in Flow : StaysMarking(g)
  BY <1>1 DEF StaysMarking, Flagged
<1> QED
  BY <1>2, <1>3, StaysFlagged DEF DirtyInv

\* A component that waits for its user, or an attempt that starts again, has
\* read nothing that must have been stored.
LEMMA RestsKeepDirty ==
  ASSUME TypeOK, DirtyInv, NEW f \in Flow, NEW a, Goto(f, a), Rests(a),
         UNCHANGED <<file, metadata>>,
         stored \subseteq stored', unmarked \subseteq unmarked', Held(vocab)' \subseteq stored',
         InMark(flow[f]) =>
           \/ metadata[ClientOf[f]].dirty
           \/ file[ClientOf[f]] \subseteq stored' \cup unmarked'
  PROVE  DirtyInv'
BY MoveKeepsDirty DEF Rests

\* Past the backup a fetch goes on with what it had.
LEMMA ToSaveFileKeepsDirty ==
  ASSUME TypeOK, DirtyInv, NEW f \in Flow, flow[f].pc = "backup",
         Goto(f, [flow[f] EXCEPT !.pc = "saveVocabFile"]),
         UNCHANGED <<file, metadata, stored, unmarked>>, Held(vocab)' = Held(vocab)
  PROVE  DirtyInv'
<1> DEFINE a == [flow[f] EXCEPT !.pc = "saveVocabFile"]
<1>1. /\ a.op = flow[f].op /\ a.pc = "saveVocabFile" /\ a.file = flow[f].file
      /\ Backed(flow[f], ClientOf[f]) /\ Held(vocab) \subseteq stored
  BY DEF TypeOK, Activation, DirtyInv
<1> QED
  BY <1>1, MoveKeepsDirty DEF InMark, Backed

\* What users begin keeps DirtyInv.
LEMMA BeginKeepsDirty ==
  ASSUME TypeOK, DirtyInv, NEW f \in Flow, Begin(f)
  PROVE  DirtyInv'
<1>1. /\ UNCHANGED <<file, metadata, stored, unmarked>>
      /\ Held(vocab)' = Held(vocab) /\ Held(vocab) \subseteq stored
  BY DEF Begin, BeginEdit, BeginPush, BeginForce, BeginFetch, CancelConflict,
         serverVars, Held, DirtyInv, deviceVars, history
<1>2. flow[f].op = "none" /\ ~InMark(flow[f])
  BY WaitingRests DEF Begin, BeginEdit, BeginPush, BeginForce, BeginFetch, CancelConflict,
                      InMark
<1>3. ASSUME NEW e \in Change, BeginEdit(f, e)
      PROVE  DirtyInv'
  <2> DEFINE a == [Awaiting("edit", "saveVocabFile") EXCEPT !.file = file[ClientOf[f]] \cup {e}]
  <2>1. a.op = "edit" /\ a.pc = "saveVocabFile" /\ Goto(f, a)
    BY <1>3 DEF Awaiting, BeginEdit
  <2> QED
    BY <1>1, <1>2, <2>1, MoveKeepsDirty DEF SyncOp
<1>4. CASE BeginPush(f) \/ BeginForce(f) \/ BeginFetch(f)
  BY <1>1, <1>2, <1>4, StartRests, RestsKeepDirty DEF BeginPush, BeginForce, BeginFetch
<1>5. CASE CancelConflict(f)
  BY <1>1, <1>2, <1>5, WaitingRests, RestsKeepDirty DEF CancelConflict
<1> QED
  BY <1>3, <1>4, <1>5 DEF Begin

\* A device whose file is saved by an edit is being marked; what the edit adds
\* behind a sync is unmarked.
LEMMA SaveEditKeepsDirty ==
  ASSUME TypeOK, DirtyInv, NEW f \in Flow, SaveEdit(f)
  PROVE  DirtyInv'
<1> DEFINE c == ClientOf[f]
<1>1. /\ c \in Client /\ file'[c] = flow[f].file /\ \A d \in Client \ {c} : file'[d] = file[d]
      /\ UNCHANGED <<metadata, stored>> /\ unmarked \subseteq unmarked'
      /\ Held(vocab)' = Held(vocab)
      /\ Syncing(f) => file'[c] \subseteq file[c] \cup unmarked'
  BY ClientOfAssumption DEF SaveEdit, SaveCopy, Added, TypeOK, serverVars, Held
<1>2. /\ flow[f].op = "edit" /\ flow'[f] = Awaiting("edit", "getSyncMetadata")
      /\ \A g \in Flow \ {f} : flow'[g] = flow[g]
  BY DEF SaveEdit, SaveCopy, At, Goto, TypeOK
<1>3. flow'[f].op = "edit" /\ flow'[f].pc = "getSyncMetadata"
  BY <1>2 DEF Awaiting
<1>4. ASSUME NEW g \in Flow
      PROVE  Backed(flow[g], ClientOf[g])'
  <2>1. CASE g = f
    BY <1>3, <2>1 DEF Backed, SyncOp
  <2>2. CASE g # f
    <3>1. flow'[g] = flow[g] /\ Backed(flow[g], ClientOf[g]) /\ ClientOf[g] \in Client
      BY <1>2, <2>2, ClientOfAssumption DEF DirtyInv
    <3>2. CASE ClientOf[g] # c
      BY <1>1, <3>1, <3>2 DEF Backed
    <3>3. CASE ClientOf[g] = c /\ (flow[g].pc = "put" \/ (flow[g].op \in SyncOp
                                      /\ flow[g].pc = "saveSyncMetadata"))
      <4>1. Syncing(f)
        BY <2>2, <3>3, SentByTyped DEF Syncing, Meanwhile
      <4> QED
        BY <1>1, <3>1, <3>3, <4>1 DEF Backed
    <3>4. CASE flow[g].pc # "put" /\ ~(flow[g].op \in SyncOp /\ flow[g].pc = "saveSyncMetadata")
      BY <1>1, <3>1, <3>4 DEF Backed
    <3> QED
      BY <3>2, <3>3, <3>4
  <2> QED
    BY <2>1, <2>2
<1>5. ASSUME NEW d \in Client
      PROVE  Flagged(d)'
  <2>1. CASE d = c
    BY <1>3, <2>1 DEF Flagged, Marking
  <2>2. CASE d # c
    <3>1. Flagged(d)
      BY FlaggedIsDirty DEF DirtyInv
    <3>2. Marking(d) => Marking(d)'
      BY <1>2, <2>2 DEF Marking
    <3> QED
      BY <1>1, <2>2, <3>1, <3>2 DEF Flagged
  <2> QED
    BY <2>1, <2>2
<1>6. DirtyButForUnmarked'
  BY <1>5 DEF DirtyButForUnmarked, Flagged
<1> QED
  BY <1>1, <1>4, <1>6 DEF DirtyInv

\* A device whose file is overwritten by a fetch has what was stored.
LEMMA SaveFetchedFileKeepsDirty ==
  ASSUME TypeOK, DirtyInv, NEW f \in Flow, SaveFetchedFile(f)
  PROVE  DirtyInv'
<1> DEFINE c == ClientOf[f]
<1>1. /\ c \in Client /\ file'[c] = flow[f].file /\ \A d \in Client \ {c} : file'[d] = file[d]
      /\ UNCHANGED <<metadata, stored, unmarked>> /\ Held(vocab)' = Held(vocab)
  BY ClientOfAssumption DEF SaveFetchedFile, TypeOK, serverVars, Held
<1>2. /\ flow[f].op = "fetch" /\ flow[f].pc = "saveVocabFile"
      /\ flow'[f].op = "fetch" /\ flow'[f].pc = "saveSyncMetadata"
      /\ \A g \in Flow \ {f} : flow'[g] = flow[g]
  BY DEF SaveFetchedFile, At, Goto, TypeOK, Activation
<1>3. file'[c] \subseteq stored
  BY <1>1, <1>2 DEF DirtyInv, Backed
<1>4. ASSUME NEW g \in Flow
      PROVE  Backed(flow[g], ClientOf[g])'
  <2>1. CASE g = f
    BY <1>1, <1>2, <1>3, <2>1 DEF Backed
  <2>2. CASE g # f
    <3>1. flow'[g] = flow[g] /\ Backed(flow[g], ClientOf[g]) /\ ClientOf[g] \in Client
      BY <1>2, <2>2, ClientOfAssumption DEF DirtyInv
    <3> QED
      BY <1>1, <1>3, <3>1 DEF Backed
  <2> QED
    BY <2>1, <2>2
<1>5. ASSUME NEW d \in Client
      PROVE  Flagged(d)'
  <2>1. CASE d = c
    BY <1>1, <1>3, <2>1 DEF Flagged
  <2>2. CASE d # c
    <3>1. Flagged(d)
      BY FlaggedIsDirty DEF DirtyInv
    <3>2. Marking(d) => Marking(d)'
      BY <1>2, <2>2 DEF Marking
    <3> QED
      BY <1>1, <2>2, <3>1, <3>2 DEF Flagged
  <2> QED
    BY <2>1, <2>2
<1>6. DirtyButForUnmarked'
  BY <1>5 DEF DirtyButForUnmarked, Flagged
<1> QED
  BY <1>1, <1>4, <1>6 DEF DirtyInv

\* The flag is set at the end of an edit, and cleared at the end of a sync, when
\* all the device has was stored or is unmarked.
LEMMA SaveMetadataKeepsDirty ==
  ASSUME TypeOK, DirtyInv, NEW f \in Flow, MarkSave(f) \/ SaveMetadata(f)
  PROVE  DirtyInv'
<1> DEFINE c == ClientOf[f]
<1>1. /\ flow'[f].op = "none" /\ flow'[f].pc = "idle"
      /\ \A g \in Flow \ {f} : flow'[g] = flow[g]
      /\ c \in Client /\ \A d \in Client \ {c} : metadata'[d] = metadata[d]
      /\ UNCHANGED <<file, stored, unmarked>> /\ Held(vocab)' = Held(vocab)
  BY WaitingRests, ClientOfAssumption
     DEF MarkSave, SaveMetadata, Goto, TypeOK, serverVars, Held, history
<1>2. ASSUME NEW g \in Flow
      PROVE  Backed(flow[g], ClientOf[g])'
  <2>1. CASE g = f
    BY <1>1, <2>1 DEF Backed, SyncOp
  <2>2. CASE g # f
    BY <1>1, <2>2 DEF DirtyInv, Backed
  <2> QED
    BY <2>1, <2>2
<1>3. metadata'[c].dirty \/ file[c] \subseteq stored \cup unmarked
  <2>1. CASE MarkSave(f)
    BY <1>1, <2>1 DEF MarkSave, TypeOK
  <2>2. CASE SaveMetadata(f)
    BY <2>2 DEF SaveMetadata, DirtyInv, Backed
  <2> QED
    BY <2>1, <2>2
<1>4. ASSUME NEW d \in Client
      PROVE  Flagged(d)'
  <2>1. CASE d = c
    BY <1>1, <1>3, <2>1 DEF Flagged
  <2>2. CASE d # c
    <3>1. Flagged(d)
      BY FlaggedIsDirty DEF DirtyInv
    <3>2. Marking(d) => Marking(d)'
      BY <1>1, <2>2 DEF Marking
    <3> QED
      BY <1>1, <2>2, <3>1, <3>2 DEF Flagged
  <2> QED
    BY <2>1, <2>2
<1>5. DirtyButForUnmarked'
  BY <1>4 DEF DirtyButForUnmarked, Flagged
<1> QED
  BY <1>1, <1>2, <1>5 DEF DirtyInv

\* What activations do keeps DirtyInv.
LEMMA ProceedKeepsDirty ==
  ASSUME TypeOK, DirtyInv, NEW f \in Flow, Proceed(f)
  PROVE  DirtyInv'
<1> DEFINE c == ClientOf[f]
<1>1. flow[f] \in Activation /\ Backed(flow[f], c) /\ Held(vocab) \subseteq stored
  BY DEF TypeOK, DirtyInv
<1>2. CASE MarkRead(f)
  <2> DEFINE a == [Awaiting("edit", "saveSyncMetadata") EXCEPT !.rev = metadata[c].serverRev]
  <2>1. a.op = "edit" /\ a.pc = "saveSyncMetadata"
    BY DEF Awaiting
  <2>2. UNCHANGED <<file, metadata, stored, unmarked>> /\ Held(vocab)' = Held(vocab)
    BY <1>2 DEF MarkRead, deviceVars, serverVars, Held, history
  <2>3. CASE Goto(f, a)
    BY <1>1, <2>1, <2>2, <2>3, MoveKeepsDirty DEF InMark, SyncOp
  <2>4. CASE Goto(f, Idle) /\ metadata[c].dirty
    BY <1>1, <2>2, <2>4, WaitingRests, RestsKeepDirty
  <2> QED
    BY <1>2, <2>3, <2>4 DEF MarkRead
<1>3. CASE ReadMetadata(f)
  <2> DEFINE a == [flow[f] EXCEPT !.pc = "getVocabFile",
                                  !.rev = IF flow[f].op = "push"
                                          THEN metadata[c].serverRev
                                          ELSE 0]
  <2>1. a.op = flow[f].op /\ a.pc = "getVocabFile" /\ flow[f].op \in {"push", "force"}
    BY <1>1, <1>3 DEF Activation, ReadMetadata
  <2>2. /\ UNCHANGED <<file, metadata, stored, unmarked>> /\ Held(vocab)' = Held(vocab)
        /\ Goto(f, a)
    BY <1>3 DEF ReadMetadata, deviceVars, serverVars, Held, history
  <2> QED
    BY <1>1, <2>1, <2>2, MoveKeepsDirty DEF InMark
<1>4. CASE ReadFile(f)
  <2> DEFINE a == [flow[f] EXCEPT !.pc = "put", !.file = file[c]]
  <2>1. a.op = flow[f].op /\ a.pc = "put" /\ a.file = file[c] /\ flow[f].pc = "getVocabFile"
    BY <1>1, <1>4 DEF Activation, ReadFile
  <2>2. /\ UNCHANGED <<file, metadata, stored, unmarked>> /\ Held(vocab)' = Held(vocab)
        /\ Goto(f, a)
    BY <1>4 DEF ReadFile, deviceVars, serverVars, Held, history
  <2> QED
    BY <1>1, <2>1, <2>2, MoveKeepsDirty DEF InMark
<1>5. CASE PutAnswered(f)
  <2> DEFINE a == [flow[f] EXCEPT !.pc = "saveSyncMetadata", !.file = {},
                                  !.rev = CurrentRev + 1]
  <2>1. a.op = flow[f].op /\ a.pc = "saveSyncMetadata" /\ flow[f].pc = "put"
    BY <1>1, <1>5 DEF Activation, PutAnswered
  <2>2. UNCHANGED <<file, metadata, unmarked>> /\ Goto(f, a)
    BY <1>5 DEF PutAnswered, deviceVars
  <2>3. /\ stored \subseteq stored' /\ Held(vocab)' \subseteq stored'
        /\ flow[f].file \subseteq stored' /\ flow[f].op \in {"push", "force"}
    BY <1>5, SentByTyped, PutStores DEF PutAnswered, SentBy
  <2>4. file[c] \subseteq stored' \cup unmarked'
    BY <1>1, <2>1, <2>2, <2>3 DEF Backed
  <2> QED
    BY <2>1, <2>2, <2>3, <2>4, MoveKeepsDirty DEF InMark
<1>6. CASE PutRefused(f)
  <2> DEFINE a == Awaiting("push", "getVocab")
  <2>1. Rests(a) /\ flow[f].op = "push"
    BY <1>6 DEF PutRefused, At, Awaiting, Rests
  <2>2. /\ UNCHANGED <<file, metadata, stored, unmarked>> /\ Held(vocab)' = Held(vocab)
        /\ Goto(f, a)
    BY <1>6 DEF PutRefused, PutVocabConflict, deviceVars, serverVars, Held, history
  <2> QED
    BY <1>1, <2>1, <2>2, RestsKeepDirty DEF InMark
<1>7. CASE ShowConflict(f)
  <2>1. /\ UNCHANGED <<file, metadata, stored, unmarked>> /\ Held(vocab)' = Held(vocab)
        /\ Goto(f, Dialog) /\ flow[f].op = "push"
    BY <1>7 DEF ShowConflict, At, deviceVars, serverVars, Held, history
  <2> QED
    BY <1>1, <2>1, WaitingRests, RestsKeepDirty DEF InMark
<1>8. CASE GetAnswered(f)
  <2> DEFINE a == [flow[f] EXCEPT !.pc = "backup", !.rev = CurrentRev, !.file = vocab]
  <2>1. a.op = flow[f].op /\ a.pc = "backup" /\ a.file = vocab /\ flow[f].op = "fetch"
    BY <1>1, <1>8 DEF Activation, GetAnswered, At
  <2>2. /\ UNCHANGED <<file, metadata, stored, unmarked>> /\ Held(vocab)' = Held(vocab)
        /\ Goto(f, a)
    BY <1>8 DEF GetAnswered, deviceVars, serverVars, Held, history
  <2>3. vocab \subseteq stored
    BY <1>1, <1>8 DEF GetAnswered, Held
  <2> QED
    BY <1>1, <2>1, <2>2, <2>3, MoveKeepsDirty DEF InMark
<1>9. CASE BackupLocalFile(f)
  <2>1. /\ UNCHANGED <<file, metadata, stored, unmarked>> /\ Held(vocab)' = Held(vocab)
        /\ Goto(f, [flow[f] EXCEPT !.pc = "saveVocabFile"]) /\ flow[f].pc = "backup"
    BY <1>9 DEF BackupLocalFile, MakeBackup, serverVars, Held
  <2> QED
    BY <1>1, <2>1, ToSaveFileKeepsDirty
<1>10. CASE SaveEdit(f) \/ SaveFetchedFile(f)
  BY <1>10, SaveEditKeepsDirty, SaveFetchedFileKeepsDirty
<1>11. CASE MarkSave(f) \/ SaveMetadata(f)
  BY <1>11, SaveMetadataKeepsDirty
<1> QED
  BY <1>2, <1>3, <1>4, <1>5, <1>6, <1>7, <1>8, <1>9, <1>10, <1>11 DEF Proceed

\* Whatever goes wrong keeps DirtyInv. An edit that is cut while it marks leaves
\* what its device has for the server unmarked.
LEMMA GoWrongKeepsDirty ==
  ASSUME TypeOK, DirtyInv, NEW f \in Flow, GoWrong(f)
  PROVE  DirtyInv'
<1>1. flow[f] \in Activation /\ Backed(flow[f], ClientOf[f]) /\ Held(vocab) \subseteq stored
  BY DEF TypeOK, DirtyInv
<1>2. /\ flow[f].pc \in {"put", "getVocab", "backup"} => flow[f].op \in SyncOp
      /\ "edit" \notin SyncOp
  BY DEF TypeOK, Activation, CallsOf, Op, SyncOp, PutCalls
<1>3. CASE BackupFails(f)
  <2>1. /\ UNCHANGED <<file, metadata, stored, unmarked>> /\ Held(vocab)' = Held(vocab)
        /\ Goto(f, [flow[f] EXCEPT !.pc = "saveVocabFile"]) /\ flow[f].pc = "backup"
    BY <1>3 DEF BackupFails, deviceVars, serverVars, Held
  <2> QED
    BY <1>1, <2>1, ToSaveFileKeepsDirty
<1>4. CASE ServerDies(f)
  <2>1. /\ Goto(f, AfterError(f)) /\ UNCHANGED <<file, metadata, unmarked>>
        /\ stored \subseteq stored' /\ Held(vocab)' \subseteq stored'
    BY <1>4, SentByTyped, PutStores DEF ServerDies, deviceVars
  <2>2. ~InMark(flow[f])
    BY <1>2, <1>4 DEF ServerDies, InMark
  <2> QED
    BY <2>1, <2>2, AfterErrorRests, RestsKeepDirty
<1>5. CASE NetworkError(f) \/ RequestLate(f) \/ StorageError(f)
  <2>1. /\ Goto(f, AfterError(f)) /\ UNCHANGED <<file, metadata, stored, unmarked>>
        /\ Held(vocab)' = Held(vocab)
    BY <1>5 DEF NetworkError, RequestLate, StorageError, deviceVars, serverVars, Held, history
  <2>2. ~InMark(flow[f])
    BY <1>2, <1>5 DEF NetworkError, RequestLate, BecomesLate, StorageError, InMark
  <2> QED
    BY <1>1, <2>1, <2>2, AfterErrorRests, RestsKeepDirty
<1>6. CASE Unauthorized(f)
  <2>1. /\ Goto(f, Failed(flow[f].op)) /\ UNCHANGED <<file, metadata, stored, unmarked>>
        /\ Held(vocab)' = Held(vocab) /\ ~InMark(flow[f])
    BY <1>2, <1>6 DEF Unauthorized, deviceVars, serverVars, Held, history, InMark
  <2> QED
    BY <1>1, <2>1, AfterErrorRests, RestsKeepDirty
<1>7. CASE CloseTab(f)
  <2>1. /\ Goto(f, Idle) /\ UNCHANGED <<file, metadata, stored, unmarked>>
        /\ Held(vocab)' = Held(vocab) /\ ~InMark(flow[f])
    BY <1>2, <1>7, WaitingRests DEF CloseTab, deviceVars, serverVars, Held, history, InMark
  <2> QED
    BY <1>1, <2>1, WaitingRests, RestsKeepDirty
<1>8. CASE CutEdit(f)
  <2>1. /\ Goto(f, Idle) /\ UNCHANGED <<file, metadata, stored>>
        /\ unmarked \subseteq unmarked' /\ Held(vocab)' = Held(vocab)
    BY <1>8 DEF CutEdit, deviceVars, serverVars, Held
  <2>2. InMark(flow[f]) =>
          \/ metadata[ClientOf[f]].dirty
          \/ file[ClientOf[f]] \subseteq stored \cup unmarked'
    BY <1>8 DEF CutEdit, InMark
  <2> QED
    BY <1>1, <2>1, <2>2, WaitingRests, RestsKeepDirty
<1> QED
  BY <1>3, <1>4, <1>5, <1>6, <1>7, <1>8 DEF GoWrong

\* A late PUT only adds to what was stored.
LEMMA LateKeepsDirty ==
  ASSUME TypeOK, DirtyInv, NEW r \in late, LateArrives(r)
  PROVE  DirtyInv'
<1>1. stored \subseteq stored' /\ Held(vocab)' \subseteq stored'
  <2>1. CASE Accept(r) \/ Die(r)
    BY <2>1, PutStores DEF TypeOK
  <2>2. CASE PutVocabConflict(r.rev) /\ UNCHANGED stored
    BY <2>2 DEF PutVocabConflict, serverVars, Held, DirtyInv
  <2> QED
    BY <2>1, <2>2 DEF LateArrives
<1>2. UNCHANGED <<file, metadata, flow, unmarked>>
  BY DEF LateArrives, deviceVars
<1>3. \A f \in Flow : Backed(flow[f], ClientOf[f])'
  BY <1>1, <1>2 DEF DirtyInv, Backed
<1>4. \A f \in Flow : StaysMarking(f)
  BY <1>2 DEF StaysMarking
<1> QED
  BY <1>1, <1>2, <1>3, <1>4, StaysFlagged DEF DirtyInv

\* Every step keeps DirtyInv.
LEMMA DirtyStep == TypeOK /\ DirtyInv /\ [Next]_vars => DirtyInv'
<1> SUFFICES ASSUME TypeOK, DirtyInv, [Next]_vars
             PROVE  DirtyInv'
  OBVIOUS
<1>1. CASE UNCHANGED vars
  BY <1>1 DEF vars, serverVars, deviceVars, history, DirtyInv, Held, Backed,
              DirtyButForUnmarked, Marking
<1>2. CASE Next
  BY <1>2, BeginKeepsDirty, ProceedKeepsDirty, GoWrongKeepsDirty, LateKeepsDirty DEF Next
<1> QED
  BY <1>1, <1>2

\* A device that holds a change that never reached the server shows it, for any
\* number of devices and tabs, whatever overlaps and whatever fails, but for
\* the changes that were saved while a sync of the device was sending or done,
\* or whose edit was cut before it set the flag: no other path of the code
\* clears the flag, or leaves it unset, over a change.
THEOREM DirtyFlagIsTrue == Spec => []DirtyButForUnmarked
<1>1. DirtyInv => DirtyButForUnmarked
  BY DEF DirtyInv
<1> QED
  BY <1>1, DirtyInit, DirtyStep, TypeCorrect, PTL DEF Spec

-----------------------------------------------------------------------------
(* No change vanishes                                                      *)

\* Where a change may be.
OnDevice(c) == file[c] \cup Kept(localBackups[c]) \cup astray[c]
OnServer == Held(vocab) \cup UNION {b.file : b \in backups}

Present == (UNION {OnDevice(c) : c \in Client}) \cup OnServer \cup unbacked

\* What a fetch is about to overwrite is backed up, or recorded as not.
BackedUp(f) ==
  At(f, "fetch", "saveVocabFile") =>
    file[ClientOf[f]] \subseteq Kept(localBackups[ClientOf[f]]) \cup unbacked

PresenceInv ==
  /\ \A f \in Flow : BackedUp(f)
  /\ saved \subseteq Present

\* At first nothing has been saved.
LEMMA PresenceInit == Init => PresenceInv
<1> SUFFICES ASSUME Init
             PROVE  PresenceInv
  OBVIOUS
<1>1. \A f \in Flow : flow[f].op = "none"
  BY DEF Init, Idle, Awaiting
<1> QED
  BY <1>1 DEF Init, PresenceInv, BackedUp, At

\* A backup is kept at least until the next.
LEMMA LastIsKept ==
  ASSUME NEW s \in Seq(VocabFile), NEW F \in VocabFile
  PROVE  F \subseteq Kept(Pruned(Append(s, F)))
<1> DEFINE t == Append(s, F)
           first == IF Len(t) > KeepLocal THEN Len(t) - KeepLocal + 1 ELSE 1
           p == SubSeq(t, first, Len(t))
<1>1. t \in Seq(VocabFile) /\ Len(t) \in Nat /\ Len(t) >= 1 /\ t[Len(t)] = F
  OBVIOUS
<1>2. first \in 1 .. Len(t)
  BY <1>1, KeepLocalAssumption
<1> HIDE DEF t, first
<1>3. Len(p) = Len(t) - first + 1 /\ \A i \in 1 .. Len(p) : p[i] = t[first + i - 1]
  BY <1>1, <1>2
<1>4. Len(p) \in 1 .. Len(p) /\ p[Len(p)] = F
  BY <1>1, <1>2, <1>3
<1>5. F \subseteq Kept(p)
  BY <1>4 DEF Kept
<1> QED
  BY <1>5 DEF Pruned, t, first

\* Presence is kept by a step under which what a device or the server no longer
\* has is recorded as astray, is elsewhere, or is recorded as not backed up.
LEMMA StepKeepsPresence ==
  ASSUME TypeOK, PresenceInv, saved \ saved' = {},
         \A e \in saved' : e \in saved \/ e \in Present',
         \A c \in Client : OnDevice(c) \subseteq OnDevice(c)' \cup unbacked',
         OnServer \subseteq Present',
         unbacked \subseteq unbacked',
         \A f \in Flow : BackedUp(f)'
  PROVE  PresenceInv'
<1> SUFFICES ASSUME NEW e \in saved
             PROVE  e \in Present'
  BY DEF PresenceInv
<1>1. e \in Present
  BY DEF PresenceInv
<1>2. ASSUME NEW c \in Client, e \in OnDevice(c)
      PROVE  e \in Present'
  <2>1. e \in OnDevice(c)' \/ e \in unbacked'
    BY <1>2
  <2> QED
    BY <2>1 DEF Present
<1>3. CASE e \in unbacked
  BY <1>3 DEF Present
<1> QED
  BY <1>1, <1>2, <1>3 DEF Present

\* Where files and server stay, and no fetch gets past its backup, nothing
\* changes.
LEMMA MoveKeepsPresence ==
  ASSUME TypeOK, PresenceInv,
         UNCHANGED <<vocab, backups, file, localBackups, saved, astray>>,
         unbacked \subseteq unbacked',
         \A f \in Flow : At(f, "fetch", "saveVocabFile")' =>
           \/ At(f, "fetch", "saveVocabFile")
           \/ file[ClientOf[f]] \subseteq unbacked'
  PROVE  PresenceInv'
<1>1. /\ \A c \in Client : OnDevice(c)' = OnDevice(c)
      /\ OnServer' = OnServer
  BY DEF OnDevice, OnServer, Held
<1>2. OnServer \subseteq Present'
  BY <1>1 DEF Present
<1>3. \A f \in Flow : BackedUp(f)'
  BY DEF PresenceInv, BackedUp
<1> QED
  BY <1>1, <1>2, <1>3, StepKeepsPresence

\* A PUT that is served loses nothing the server held: an ordinary one extends
\* it, but for what is astray; a forced one archives it, and the backups that it
\* drops are recorded, wherever the server dies.
LEMMA ServedKeepsPresence ==
  ASSUME TypeOK, BaseInv, PresenceInv, NEW r \in Request, Sent(r), Accept(r) \/ Die(r),
         UNCHANGED <<deviceVars, saved>>,
         \A f \in Flow : At(f, "fetch", "saveVocabFile")' => At(f, "fetch", "saveVocabFile")
  PROVE  PresenceInv'
<1>1. UNCHANGED <<file, localBackups, saved>> /\ unbacked \subseteq unbacked'
      /\ \A c \in Client : astray[c] \subseteq astray'[c]
  BY DEF Accept, Die, BackupsDropped, deviceVars, TypeOK
<1>2. \A c \in Client : OnDevice(c) \subseteq OnDevice(c)'
  BY <1>1 DEF OnDevice
<1>3. OnServer \subseteq Present'
  <2>1. ASSUME NEW c \in Client, Held(vocab) \ Held(vocab)' \subseteq astray[c],
               UNCHANGED backups
        PROVE  OnServer \subseteq Present'
    <3>1. astray[c] \subseteq OnDevice(c)'
      BY <1>1, <2>1 DEF OnDevice
    <3>2. \A e \in Held(vocab) : e \in Held(vocab)' \/ e \in OnDevice(c)'
      BY <2>1, <3>1
    <3> QED
      BY <2>1, <3>2 DEF OnServer, Present
  <2>2. CASE BackupsDropped
    <3>1. \A b \in backups \cup Archived : b \in backups' \/ b.file \subseteq unbacked'
      BY <2>2 DEF BackupsDropped
    <3>2. vocab # NoFile => Version \in Archived /\ Version.file = Held(vocab)
      BY DEF Archived, Version, Held
    <3>3. vocab = NoFile => Held(vocab) = {}
      BY DEF Held
    <3> QED
      BY <3>1, <3>2, <3>3 DEF OnServer, Present
  <2> QED
    BY <2>1, <2>2, ServedKeeps
<1>4. \A f \in Flow : BackedUp(f)'
  BY <1>1 DEF PresenceInv, BackedUp
<1> QED
  BY <1>1, <1>2, <1>3, <1>4, StepKeepsPresence

\* An edit is written over the file: what it adds is there, what it lacks is
\* astray. A fetch that is past its backup has it recorded what was added.
LEMMA SaveEditKeepsPresence ==
  ASSUME TypeOK, PresenceInv, NEW f \in Flow, SaveEdit(f)
  PROVE  PresenceInv'
<1> DEFINE c == ClientOf[f]
<1>1. /\ c \in Client /\ file'[c] = flow[f].file
      /\ \A d \in Client \ {c} : file'[d] = file[d] /\ astray'[d] = astray[d]
      /\ file[c] \cup astray[c] \subseteq file'[c] \cup astray'[c]
      /\ UNCHANGED <<vocab, backups, localBackups>>
      /\ saved' = saved \cup flow[f].file
      /\ unbacked \subseteq unbacked'
      /\ Replacing(f) => file'[c] \subseteq file[c] \cup unbacked'
  BY ClientOfAssumption DEF SaveEdit, SaveCopy, WrittenOver, Added, TypeOK, serverVars
<1>2. /\ \A g \in Flow \ {f} : flow'[g] = flow[g]
      /\ flow'[f].op = "edit"
  BY DEF SaveEdit, SaveCopy, Goto, TypeOK, Awaiting
<1>3. \A d \in Client : OnDevice(d) \subseteq OnDevice(d)'
  BY <1>1 DEF OnDevice
<1>4. \A e \in saved' : e \in saved \/ e \in Present'
  <2>1. flow[f].file \subseteq OnDevice(c)'
    BY <1>1 DEF OnDevice
  <2> QED
    BY <1>1, <2>1 DEF Present
<1>5. OnServer \subseteq Present'
  BY <1>1 DEF OnServer, Present, Held
<1>6. ASSUME NEW g \in Flow, At(g, "fetch", "saveVocabFile")'
      PROVE  file'[ClientOf[g]] \subseteq Kept(localBackups'[ClientOf[g]]) \cup unbacked'
  <2>1. g # f /\ At(g, "fetch", "saveVocabFile") /\ ClientOf[g] \in Client
    BY <1>2, <1>6, ClientOfAssumption DEF At
  <2>2. file[ClientOf[g]] \subseteq Kept(localBackups[ClientOf[g]]) \cup unbacked
    BY <2>1 DEF PresenceInv, BackedUp
  <2>3. ClientOf[g] = c => Replacing(f)
    BY <2>1 DEF Replacing, Meanwhile, At
  <2> QED
    BY <1>1, <2>1, <2>2, <2>3
<1>7. \A g \in Flow : BackedUp(g)'
  BY <1>6 DEF BackedUp, At
<1> QED
  BY <1>1, <1>3, <1>4, <1>5, <1>7, StepKeepsPresence

\* The backup of a device's file is kept; those it makes room for are recorded.
LEMMA BackupKeepsPresence ==
  ASSUME TypeOK, PresenceInv, NEW f \in Flow, BackupLocalFile(f)
  PROVE  PresenceInv'
<1> DEFINE c == ClientOf[f]
<1>1. /\ UNCHANGED <<vocab, backups, file, saved, astray>>
      /\ c \in Client /\ localBackups[c] \in Seq(VocabFile) /\ file[c] \in VocabFile
      /\ localBackups'[c] = Pruned(Append(localBackups[c], file[c]))
      /\ \A d \in Client \ {c} : localBackups'[d] = localBackups[d]
      /\ unbacked \subseteq unbacked'
      /\ Kept(localBackups[c]) \subseteq Kept(localBackups'[c]) \cup unbacked'
  BY ClientOfAssumption DEF BackupLocalFile, MakeBackup, TypeOK, serverVars
<1>2. file[c] \subseteq Kept(localBackups'[c])
  BY <1>1, LastIsKept
<1>3. \A d \in Client : OnDevice(d) \subseteq OnDevice(d)' \cup unbacked'
  BY <1>1 DEF OnDevice
<1>4. OnServer \subseteq Present'
  BY <1>1 DEF OnServer, Present, Held
<1>5. ASSUME NEW g \in Flow, At(g, "fetch", "saveVocabFile")'
      PROVE  file'[ClientOf[g]] \subseteq Kept(localBackups'[ClientOf[g]]) \cup unbacked'
  <2>1. CASE ClientOf[g] = c
    BY <1>1, <1>2, <2>1
  <2>2. CASE ClientOf[g] # c
    <3>1. flow'[g] = flow[g] /\ ClientOf[g] \in Client
      BY <2>2, ClientOfAssumption DEF BackupLocalFile, MakeBackup, Goto, TypeOK
    <3> QED
      BY <1>1, <1>5, <2>2, <3>1 DEF PresenceInv, BackedUp, At
  <2> QED
    BY <2>1, <2>2
<1>6. \A g \in Flow : BackedUp(g)'
  BY <1>5 DEF BackedUp, At
<1> QED
  BY <1>1, <1>3, <1>4, <1>6, StepKeepsPresence

\* The file a fetch overwrites is backed up, or recorded as not.
LEMMA SaveFetchedFileKeepsPresence ==
  ASSUME TypeOK, PresenceInv, NEW f \in Flow, SaveFetchedFile(f)
  PROVE  PresenceInv'
<1> DEFINE c == ClientOf[f]
<1>1. /\ c \in Client /\ file'[c] = flow[f].file
      /\ \A d \in Client \ {c} : file'[d] = file[d]
      /\ \A d \in Client : astray[d] \subseteq astray'[d]
      /\ UNCHANGED <<vocab, backups, localBackups, saved>>
      /\ unbacked \subseteq unbacked'
      /\ Replacing(f) => file'[c] \subseteq file[c] \cup unbacked'
  BY ClientOfAssumption DEF SaveFetchedFile, Added, TypeOK, serverVars
<1>2. /\ \A g \in Flow \ {f} : flow'[g] = flow[g]
      /\ At(f, "fetch", "saveVocabFile") /\ flow'[f].pc = "saveSyncMetadata"
  BY DEF SaveFetchedFile, At, Goto, TypeOK, Activation
<1>3. file[c] \subseteq Kept(localBackups[c]) \cup unbacked
  BY <1>2 DEF PresenceInv, BackedUp
<1>4. \A d \in Client : OnDevice(d) \subseteq OnDevice(d)' \cup unbacked'
  BY <1>1, <1>3 DEF OnDevice
<1>5. OnServer \subseteq Present'
  BY <1>1 DEF OnServer, Present, Held
<1>6. ASSUME NEW g \in Flow, At(g, "fetch", "saveVocabFile")'
      PROVE  file'[ClientOf[g]] \subseteq Kept(localBackups'[ClientOf[g]]) \cup unbacked'
  <2>1. g # f /\ At(g, "fetch", "saveVocabFile") /\ ClientOf[g] \in Client
    BY <1>2, <1>6, ClientOfAssumption DEF At
  <2>2. file[ClientOf[g]] \subseteq Kept(localBackups[ClientOf[g]]) \cup unbacked
    BY <2>1 DEF PresenceInv, BackedUp
  <2>3. ClientOf[g] = c => Replacing(f)
    BY <2>1 DEF Replacing, Meanwhile, At
  <2> QED
    BY <1>1, <2>1, <2>2, <2>3
<1>7. \A g \in Flow : BackedUp(g)'
  BY <1>6 DEF BackedUp, At
<1> QED
  BY <1>1, <1>4, <1>5, <1>7, StepKeepsPresence

\* An activation that moves, but past a backup, changes nothing.
LEMMA GotoKeepsPresence ==
  ASSUME TypeOK, PresenceInv, NEW f \in Flow, NEW a, Goto(f, a),
         UNCHANGED <<vocab, backups, file, localBackups, saved, astray>>,
         unbacked \subseteq unbacked',
         a.pc # "saveVocabFile" \/ a.op # "fetch" \/ file[ClientOf[f]] \subseteq unbacked'
  PROVE  PresenceInv'
<1>1. flow'[f] = a /\ \A g \in Flow \ {f} : flow'[g] = flow[g]
  BY DEF Goto, TypeOK
<1>2. \A g \in Flow : At(g, "fetch", "saveVocabFile")' =>
        At(g, "fetch", "saveVocabFile") \/ file[ClientOf[g]] \subseteq unbacked'
  BY <1>1 DEF At
<1> QED
  BY <1>2, MoveKeepsPresence

\* What users begin keeps PresenceInv.
LEMMA BeginKeepsPresence ==
  ASSUME TypeOK, PresenceInv, NEW f \in Flow, Begin(f)
  PROVE  PresenceInv'
<1>1. UNCHANGED <<vocab, backups, file, localBackups, saved, astray, unbacked>>
  BY DEF Begin, BeginEdit, BeginPush, BeginForce, BeginFetch, CancelConflict, serverVars,
         deviceVars, history
<1>2. ASSUME NEW e \in Change, BeginEdit(f, e)
      PROVE  PresenceInv'
  <2> DEFINE a == [Awaiting("edit", "saveVocabFile") EXCEPT !.file = file[ClientOf[f]] \cup {e}]
  <2>1. a.op = "edit" /\ Goto(f, a)
    BY <1>2 DEF Awaiting, BeginEdit
  <2> QED
    BY <1>1, <2>1, GotoKeepsPresence
<1>3. CASE BeginPush(f) \/ BeginForce(f) \/ BeginFetch(f) \/ CancelConflict(f)
  BY <1>1, <1>3, StartRests, WaitingRests, GotoKeepsPresence
     DEF BeginPush, BeginForce, BeginFetch, CancelConflict, Rests
<1> QED
  BY <1>2, <1>3 DEF Begin

\* What activations do keeps PresenceInv.
LEMMA ProceedKeepsPresence ==
  ASSUME TypeOK, BaseInv, PresenceInv, NEW f \in Flow, Proceed(f)
  PROVE  PresenceInv'
<1> DEFINE Still == UNCHANGED <<vocab, backups, file, localBackups, saved, astray, unbacked>>
<1>1. flow[f] \in Activation
  BY DEF TypeOK
<1>2. CASE MarkRead(f)
  <2> DEFINE a == [Awaiting("edit", "saveSyncMetadata")
                     EXCEPT !.rev = metadata[ClientOf[f]].serverRev]
  <2>1. a.op = "edit" /\ (Goto(f, a) \/ Goto(f, Idle)) /\ Still
    BY <1>2 DEF Awaiting, MarkRead, serverVars, deviceVars, history
  <2> QED
    BY <2>1, WaitingRests, GotoKeepsPresence
<1>3. CASE ReadMetadata(f)
  <2> DEFINE a == [flow[f] EXCEPT !.pc = "getVocabFile",
                                  !.rev = IF flow[f].op = "push"
                                          THEN metadata[ClientOf[f]].serverRev
                                          ELSE 0]
  <2>1. a.pc = "getVocabFile" /\ Goto(f, a) /\ Still
    BY <1>1, <1>3 DEF Activation, ReadMetadata, serverVars, deviceVars, history
  <2> QED
    BY <2>1, GotoKeepsPresence
<1>4. CASE ReadFile(f)
  <2> DEFINE a == [flow[f] EXCEPT !.pc = "put", !.file = file[ClientOf[f]]]
  <2>1. a.pc = "put" /\ Goto(f, a) /\ Still
    BY <1>1, <1>4 DEF Activation, ReadFile, serverVars, deviceVars, history
  <2> QED
    BY <2>1, GotoKeepsPresence
<1>5. CASE PutAnswered(f)
  <2>1. /\ SentBy(f) \in Request /\ Sent(SentBy(f)) /\ Accept(SentBy(f))
        /\ UNCHANGED <<deviceVars, saved>>
    BY <1>5, SentByTyped DEF PutAnswered, Sent
  <2>2. \A g \in Flow : flow'[g] = flow[g] \/ flow'[g].pc = "saveSyncMetadata"
    BY <1>1, <1>5 DEF PutAnswered, Goto, TypeOK, Activation
  <2>3. \A g \in Flow : At(g, "fetch", "saveVocabFile")' => At(g, "fetch", "saveVocabFile")
    BY <2>2 DEF At
  <2> QED
    BY <2>1, <2>3, ServedKeepsPresence
<1>6. CASE GetAnswered(f)
  <2> DEFINE a == [flow[f] EXCEPT !.pc = "backup", !.rev = CurrentRev, !.file = vocab]
  <2>1. a.pc = "backup" /\ Goto(f, a) /\ Still
    BY <1>1, <1>6 DEF Activation, GetAnswered, serverVars, deviceVars, history
  <2> QED
    BY <2>1, GotoKeepsPresence
<1>7. CASE PutRefused(f)
  <2>1. Awaiting("push", "getVocab").op = "push" /\ Still
    BY <1>7 DEF Awaiting, PutRefused, PutVocabConflict, serverVars, deviceVars, history
  <2> QED
    BY <1>7, <2>1, GotoKeepsPresence DEF PutRefused
<1>8. CASE ShowConflict(f)
  BY <1>8, WaitingRests, GotoKeepsPresence DEF ShowConflict, serverVars, deviceVars, history
<1>9. CASE MarkSave(f) \/ SaveMetadata(f)
  BY <1>9, WaitingRests, GotoKeepsPresence DEF MarkSave, SaveMetadata, serverVars, history
<1> QED
  BY <1>2, <1>3, <1>4, <1>5, <1>6, <1>7, <1>8, <1>9, SaveEditKeepsPresence,
     BackupKeepsPresence, SaveFetchedFileKeepsPresence DEF Proceed

\* Whatever goes wrong keeps PresenceInv.
LEMMA GoWrongKeepsPresence ==
  ASSUME TypeOK, BaseInv, PresenceInv, NEW f \in Flow, GoWrong(f)
  PROVE  PresenceInv'
<1>1. CASE BackupFails(f)
  <2>1. /\ Goto(f, [flow[f] EXCEPT !.pc = "saveVocabFile"])
        /\ UNCHANGED <<vocab, backups, file, localBackups, saved, astray>>
        /\ unbacked \subseteq unbacked' /\ file[ClientOf[f]] \subseteq unbacked'
    BY <1>1 DEF BackupFails, serverVars, deviceVars
  <2> QED
    BY <2>1, GotoKeepsPresence
<1>2. CASE ServerDies(f)
  <2>1. /\ SentBy(f) \in Request /\ Sent(SentBy(f)) /\ Die(SentBy(f))
        /\ UNCHANGED <<deviceVars, saved>> /\ Goto(f, AfterError(f))
    BY <1>2, SentByTyped DEF ServerDies, Sent
  <2>2. \A g \in Flow : At(g, "fetch", "saveVocabFile")' => At(g, "fetch", "saveVocabFile")
    BY <2>1, AfterErrorRests DEF Goto, TypeOK, At, Rests
  <2> QED
    BY <2>1, <2>2, ServedKeepsPresence
<1>3. CASE ~BackupFails(f) /\ ~ServerDies(f)
  <2>1. /\ UNCHANGED <<vocab, backups, file, localBackups, saved, astray, unbacked>>
        /\ Goto(f, Idle) \/ Goto(f, AfterError(f)) \/ Goto(f, Failed(flow[f].op))
    BY <1>3 DEF GoWrong, CutEdit, NetworkError, RequestLate, Unauthorized, StorageError,
                CloseTab, serverVars, deviceVars, history
  <2> QED
    BY <2>1, WaitingRests, AfterErrorRests, GotoKeepsPresence DEF Rests
<1> QED
  BY <1>1, <1>2, <1>3

\* Every step keeps PresenceInv.
LEMMA PresenceStep == TypeOK /\ BaseInv /\ PresenceInv /\ [Next]_vars => PresenceInv'
<1> SUFFICES ASSUME TypeOK, BaseInv, PresenceInv, [Next]_vars
             PROVE  PresenceInv'
  OBVIOUS
<1>1. CASE UNCHANGED vars
  BY <1>1, MoveKeepsPresence DEF vars, serverVars, deviceVars, history, At
<1>2. ASSUME NEW r \in late, LateArrives(r)
      PROVE  PresenceInv'
  <2>1. r \in Request /\ Sent(r) /\ UNCHANGED <<deviceVars, flow, saved>>
    BY <1>2 DEF TypeOK, LateArrives, Sent
  <2>2. CASE Accept(r) \/ Die(r)
    BY <2>1, <2>2, ServedKeepsPresence DEF At
  <2>3. CASE PutVocabConflict(r.rev) /\ UNCHANGED <<faults, stored, astray, unbacked>>
    BY <2>1, <2>3, MoveKeepsPresence DEF PutVocabConflict, serverVars, deviceVars, At
  <2> QED
    BY <1>2, <2>2, <2>3 DEF LateArrives
<1> QED
  BY <1>1, <1>2, BeginKeepsPresence, ProceedKeepsPresence, GoWrongKeepsPresence DEF Next

\* A change once saved is never nowhere, for any number of devices and tabs,
\* whatever overlaps and whatever fails, the death of the server at any point
\* and backups that are refused or pruned included: it is in the file of a
\* device, at the server or in a backup, or it was written over by an edit or a
\* fetch of its device that had read an older file, taken by a dying server, or
\* was in, or left out of, a backup that is gone. There is no other way for a
\* change to get lost.
THEOREM ChangesNeverVanish == Spec => []NoChangeVanishes
<1>1. PresenceInv => NoChangeVanishes
  BY DEF PresenceInv, Present, OnDevice, OnServer, NoChangeVanishes
<1> QED
  BY <1>1, PresenceInit, PresenceStep, TypeCorrect, BaseCorrect, PTL DEF Spec
=============================================================================
