----------------------------- MODULE VocabSync -----------------------------
(***************************************************************************)
(* The offline-first web client and its synchronisation with the server.   *)
(*                                                                         *)
(* A device keeps in IndexedDB the vocabulary file and, in another object  *)
(* store, the sync metadata (frontend/src/db/indexeddb.ts). An edit        *)
(* (db/localRepository.ts), a sync, and the two resolutions of a conflict  *)
(* (db/syncService.ts) are async functions: between two awaits anything    *)
(* else may run, in the same tab or in another tab of the same browser.    *)
(* A Flow is one such function activation; its pc names the call it is     *)
(* suspended in, and it carries what it has read so far. The server is     *)
(* VocabServer.                                                            *)
(***************************************************************************)
EXTENDS VocabServer, Sequences

CONSTANTS
  Flow,        (* the activations that may exist at a time               *)
  ClientOf,    (* the device each runs on                                *)
  Overlap,     (* the pairs of operations that may overlap on a device   *)
  Fault,       (* what may go wrong, a subset of FaultKind               *)
  Unlimited,   (* what may go wrong any number of times                  *)
  MaxRetries,  (* RETRY_CONFIG.maxRetries (3 in the code)                *)
  KeepLocal,   (* DEFAULT_MAX_BACKUPS of a device (5 in the code)        *)
  MaxRev,      (* bound: no PUT is begun at this server revision         *)
  MaxFaults    (* bound: how many things go wrong of the other kinds     *)

SyncOp == {"push", "force", "fetch"}
Op == {"edit"} \cup SyncOp

\* The calls each operation awaits. A component with no operation running waits
\* for its user, with the conflict dialog open or not.
PutCalls == {"getSyncMetadata", "getVocabFile", "put", "saveSyncMetadata"}
CallsOf(op) ==
  CASE op = "none" -> {"idle", "dialog"}
    [] op = "edit" -> {"saveVocabFile", "getSyncMetadata", "saveSyncMetadata"}
    [] op = "push" -> PutCalls \cup {"getVocab"}
    [] op = "force" -> PutCalls
    [] op = "fetch" -> {"getVocab", "backup", "saveVocabFile", "saveSyncMetadata"}

\* "network": a request or its reply is lost; "late": the request arrives after
\* its sender has given it up; "refused": the session has expired (401);
\* "crash": the server dies while it serves a PUT; "storage": IndexedDB rejects
\* a call of a sync; "backup": localStorage rejects the backup; "closeSync",
\* "editCut": the tab is closed during a sync, during an edit (an edit also ends
\* so when IndexedDB rejects).
FaultKind == {"network", "late", "refused", "crash", "storage", "backup",
              "closeSync", "editCut"}

ASSUME ClientOfAssumption == ClientOf \in [Flow -> Client]
ASSUME OverlapAssumption == Overlap \subseteq SUBSET Op
ASSUME FaultAssumption == Fault \subseteq FaultKind /\ Unlimited \subseteq FaultKind
ASSUME RetriesAssumption == MaxRetries \in Nat
ASSUME KeepLocalAssumption == KeepLocal \in Nat \ {0}
ASSUME BoundAssumption == MaxRev \in Nat /\ MaxFaults \in Nat

VARIABLES
  file,          (* IndexedDB "vocab"/"file" of each device               *)
  metadata,      (* IndexedDB "sync"/"metadata": serverRev and dirty      *)
  localBackups,  (* vocab_backup_<time> of each device, oldest first      *)
  flow,          (* each activation: op, pc, attempts made, values read   *)
  late,          (* PUTs under way whose sender has stopped waiting       *)
  faults,        (* how many things have gone wrong, but for Unlimited    *)
  (* history *)
  saved,         (* every change that was ever saved on a device          *)
  stored,        (* every change the server has ever held                 *)
  astray,        (* per device, changes that may be where its revision    *)
                 (* says and not in its file: written over on the device, *)
                 (* or taken by a dying server without a revision         *)
  unmarked,      (* changes saved while a sync of the device was sending  *)
                 (* or done, or by an edit that was cut before markDirty  *)
  unbacked       (* changes that were left out of a backup, or that were  *)
                 (* in one that was dropped                               *)

deviceVars == <<file, metadata, localBackups>>
history == <<saved, stored, astray, unmarked, unbacked>>
vars == <<serverVars, deviceVars, flow, late, faults, history>>

Activation ==
  [op : Op \cup {"none"}, pc : UNION {CallsOf(op) : op \in Op \cup {"none"}},
   tries : 0 .. MaxRetries, rev : Nat, file : VocabFile]

Request == [op : {"push", "force"}, rev : Nat, file : VocabFile, client : Client]

TypeOK ==
  /\ ServerTypeOK
  /\ file \in [Client -> VocabFile]
  /\ metadata \in [Client -> [serverRev : Nat, dirty : BOOLEAN]]
  /\ localBackups \in [Client -> Seq(VocabFile)]
  /\ flow \in [Flow -> Activation]
  /\ \A f \in Flow : flow[f].pc \in CallsOf(flow[f].op)
  /\ late \in SUBSET Request
  /\ faults \in 0 .. MaxFaults
  /\ saved \in VocabFile
  /\ stored \in VocabFile
  /\ astray \in [Client -> VocabFile]
  /\ unmarked \in VocabFile
  /\ unbacked \in VocabFile

\* A first attempt at op, awaiting call pc with nothing read so far.
Awaiting(op, pc) == [op |-> op, pc |-> pc, tries |-> 0, rev |-> 0, file |-> {}]

Idle == Awaiting("none", "idle")
Dialog == Awaiting("none", "dialog")

Init ==
  /\ ServerInit
  /\ file = [c \in Client |-> {}]
  /\ metadata = [c \in Client |-> [serverRev |-> 0, dirty |-> FALSE]]
  /\ localBackups = [c \in Client |-> <<>>]
  /\ flow = [f \in Flow |-> Idle]
  /\ late = {}
  /\ faults = 0
  /\ saved = {}
  /\ stored = {}
  /\ astray = [c \in Client |-> {}]
  /\ unmarked = {}
  /\ unbacked = {}

-----------------------------------------------------------------------------
(* Helpers                                                                 *)

At(f, op, pc) == flow[f].op = op /\ flow[f].pc = pc
Goto(f, activation) == flow' = [flow EXCEPT ![f] = activation]

\* What runs on one device may overlap only as Overlap says.
MayRun(f, op) ==
  \A g \in Flow \ {f} :
    ClientOf[g] = ClientOf[f] /\ flow[g].op # "none" => {op, flow[g].op} \in Overlap

\* Something of this kind goes wrong.
Happens(kind) ==
  /\ kind \in Fault
  /\ \/ kind \in Unlimited /\ UNCHANGED faults
     \/ kind \notin Unlimited /\ faults < MaxFaults /\ faults' = faults + 1

IsNew(e) == e \notin saved /\ \A f \in Flow : flow[f].op = "edit" => e \notin flow[f].file

SentBy(f) == [op |-> flow[f].op, rev |-> flow[f].rev,
              file |-> flow[f].file, client |-> ClientOf[f]]

\* The first await of each operation, where a retry starts again.
FirstCall(op) == IF op = "fetch" THEN "getVocab" ELSE "getSyncMetadata"

Start(op) == Awaiting(op, FirstCall(op))

\* Where an operation that ends without success leaves its component: the
\* conflict dialog stays open when a resolution fails.
Failed(op) == IF op = "push" THEN Idle ELSE Dialog

\* Another activation runs on the device, in one of these calls.
Meanwhile(f, calls) ==
  \E g \in Flow \ {f} : ClientOf[g] = ClientOf[f] /\ <<flow[g].op, flow[g].pc>> \in calls

\* What saving f's copy of the file adds to it, and what it writes over.
Added(f) == flow[f].file \ file[ClientOf[f]]
WrittenOver(f) == file[ClientOf[f]] \ flow[f].file

\* The changes in a sequence of backups.
Kept(s) == UNION {s[i] : i \in 1 .. Len(s)}

\* VocabBackupService.backup: add one, prune the oldest.
Pruned(s) == SubSeq(s, IF Len(s) > KeepLocal THEN Len(s) - KeepLocal + 1 ELSE 1, Len(s))

-----------------------------------------------------------------------------
(* Editing: createWord, updateWord, deleteWord, updateMemoryState          *)

\* The file is read and the change made to the copy.
BeginEdit(f, e) ==
  /\ flow[f] = Idle
  /\ MayRun(f, "edit")
  /\ IsNew(e)
  /\ Goto(f, [Awaiting("edit", "saveVocabFile") EXCEPT !.file = file[ClientOf[f]] \cup {e}])
  /\ UNCHANGED <<serverVars, deviceVars, late, faults, history>>

\* A sync of the device has read the file and is yet to clear the dirty flag.
Syncing(f) ==
  Meanwhile(f, {"push", "force"} \X {"put"} \cup SyncOp \X {"saveSyncMetadata"})

\* A fetch of the device has backed the file up and is yet to replace it.
Replacing(f) == Meanwhile(f, {<<"fetch", "saveVocabFile">>})

\* saveVocabFile, for an edit: what the copy lacks is written over.
SaveCopy(f) ==
  LET c == ClientOf[f] IN
  /\ At(f, "edit", "saveVocabFile")
  /\ file' = [file EXCEPT ![c] = flow[f].file]
  /\ saved' = saved \cup flow[f].file
  /\ astray' = [astray EXCEPT ![c] = @ \cup WrittenOver(f)]
  /\ unmarked' = IF Syncing(f) THEN unmarked \cup Added(f) ELSE unmarked
  /\ unbacked' = IF Replacing(f) THEN unbacked \cup Added(f) ELSE unbacked
  /\ UNCHANGED <<serverVars, metadata, localBackups, late, faults, stored>>

\* Mutant: the edit is saved, markDirty is not called.
SaveEditUnmarked(f) == SaveCopy(f) /\ Goto(f, Idle)

SaveEdit(f) == SaveCopy(f) /\ Goto(f, Awaiting("edit", "getSyncMetadata"))

\* markDirty reads the metadata and is done when the flag is already set.
MarkRead(f) ==
  LET m == metadata[ClientOf[f]] IN
  /\ At(f, "edit", "getSyncMetadata")
  /\ Goto(f, IF m.dirty
             THEN Idle
             ELSE [Awaiting("edit", "saveSyncMetadata") EXCEPT !.rev = m.serverRev])
  /\ UNCHANGED <<serverVars, deviceVars, late, faults, history>>

\* Otherwise it writes back the whole record it has read.
MarkSave(f) ==
  /\ At(f, "edit", "saveSyncMetadata")
  /\ metadata' = [metadata EXCEPT ![ClientOf[f]] =
                    [serverRev |-> flow[f].rev, dirty |-> TRUE]]
  /\ Goto(f, Idle)
  /\ UNCHANGED <<serverVars, file, localBackups, late, faults, history>>

\* An IndexedDB error, thrown to the page or swallowed by markDirty, or the tab
\* is closed: the edit goes no further. If it was saved and the flag is not
\* set, what the device has for the server stays unmarked.
CutEdit(f) ==
  LET c == ClientOf[f] IN
  /\ Happens("editCut")
  /\ flow[f].op = "edit"
  /\ Goto(f, Idle)
  /\ unmarked' = IF flow[f].pc = "saveVocabFile" \/ metadata[c].dirty
                 THEN unmarked ELSE unmarked \cup (file[c] \ stored)
  /\ UNCHANGED <<serverVars, deviceVars, late, saved, stored, astray, unbacked>>

-----------------------------------------------------------------------------
(* syncToServer and resolveConflictWithLocal                               *)

\* The sync button. Nothing requires the file to be dirty.
BeginPush(f) ==
  /\ flow[f] = Idle
  /\ CurrentRev < MaxRev
  /\ MayRun(f, "push")
  /\ Goto(f, Start("push"))
  /\ UNCHANGED <<serverVars, deviceVars, late, faults, history>>

\* "Local Version" chosen in the conflict dialog.
BeginForce(f) ==
  /\ flow[f] = Dialog
  /\ CurrentRev < MaxRev
  /\ MayRun(f, "force")
  /\ Goto(f, Start("force"))
  /\ UNCHANGED <<serverVars, deviceVars, late, faults, history>>

\* A forced PUT sends the revision too, but the server does not look at it.
ReadMetadata(f) ==
  /\ flow[f].op \in {"push", "force"} /\ flow[f].pc = "getSyncMetadata"
  /\ Goto(f, [flow[f] EXCEPT !.pc = "getVocabFile",
                             !.rev = IF flow[f].op = "push"
                                     THEN metadata[ClientOf[f]].serverRev
                                     ELSE 0])
  /\ UNCHANGED <<serverVars, deviceVars, late, faults, history>>

\* The file is read and the PUT sent.
ReadFile(f) ==
  /\ flow[f].pc = "getVocabFile"
  /\ Goto(f, [flow[f] EXCEPT !.pc = "put", !.file = file[ClientOf[f]]])
  /\ UNCHANGED <<serverVars, deviceVars, late, faults, history>>

\* The backups that a forced PUT drops: pruned, or of the same name.
BackupsDropped ==
  unbacked' = unbacked \cup UNION {b.file : b \in (backups \cup Archived) \ backups'}

\* The server accepts PUT r.
Accept(r) ==
  /\ \/ r.op = "push" /\ PutVocab(r.rev, r.file, r.client) /\ UNCHANGED unbacked
     \/ r.op = "force" /\ PutVocabForce(r.file, r.client) /\ BackupsDropped
  /\ stored' = stored \cup r.file
  /\ UNCHANGED astray

\* The server dies serving PUT r and is restarted. If it leaves the content
\* without its revision, no device at that revision knows the content.
Die(r) ==
  /\ Happens("crash")
  /\ \/ r.op = "push" /\ PutVocabCut(r.rev, r.file) /\ UNCHANGED unbacked
     \/ r.op = "force" /\ PutVocabForceCut(r.file, r.client) /\ BackupsDropped
  /\ stored' = stored \cup Held(vocab')
  /\ astray' = [c \in Client |->
       IF CurrentRev' = CurrentRev THEN astray[c] \cup (Held(vocab') \ Held(vocab))
                                   ELSE astray[c]]

PutAnswered(f) ==
  /\ flow[f].pc = "put"
  /\ Accept(SentBy(f))
  /\ Goto(f, [flow[f] EXCEPT !.pc = "saveSyncMetadata", !.file = {},
                             !.rev = CurrentRev + 1])
  /\ UNCHANGED <<deviceVars, late, faults, saved, unmarked>>

\* 409: the catch block asks for the server's version to show it.
PutRefused(f) ==
  /\ At(f, "push", "put")
  /\ PutVocabConflict(flow[f].rev)
  /\ Goto(f, Awaiting("push", "getVocab"))
  /\ UNCHANGED <<deviceVars, late, faults, history>>

\* The conflict is returned and the dialog opens.
ShowConflict(f) ==
  /\ At(f, "push", "getVocab")
  /\ vocab # NoFile
  /\ Goto(f, Dialog)
  /\ UNCHANGED <<serverVars, deviceVars, late, faults, history>>

\* The user closes the dialog.
CancelConflict(f) ==
  /\ flow[f] = Dialog
  /\ Goto(f, Idle)
  /\ UNCHANGED <<serverVars, deviceVars, late, faults, history>>

\* The metadata object read at the start is completed and saved, for the two
\* PUTs and for a fetch alike; then the operation has succeeded.
SaveMetadata(f) ==
  /\ flow[f].op \in SyncOp /\ flow[f].pc = "saveSyncMetadata"
  /\ metadata' = [metadata EXCEPT ![ClientOf[f]] =
                    [serverRev |-> flow[f].rev, dirty |-> FALSE]]
  /\ Goto(f, Idle)
  /\ UNCHANGED <<serverVars, file, localBackups, late, faults, history>>

-----------------------------------------------------------------------------
(* resolveConflictWithServer                                               *)

\* "Server Version" chosen in the conflict dialog.
BeginFetch(f) ==
  /\ flow[f] = Dialog
  /\ MayRun(f, "fetch")
  /\ Goto(f, Start("fetch"))
  /\ UNCHANGED <<serverVars, deviceVars, late, faults, history>>

GetAnswered(f) ==
  /\ At(f, "fetch", "getVocab")
  /\ vocab # NoFile
  /\ Goto(f, [flow[f] EXCEPT !.pc = "backup", !.rev = CurrentRev, !.file = vocab])
  /\ UNCHANGED <<serverVars, deviceVars, late, faults, history>>

\* The backup of this content is made; the oldest ones make room.
MakeBackup(f, content) ==
  LET c == ClientOf[f] IN
  /\ flow[f].pc = "backup"
  /\ localBackups' = [localBackups EXCEPT ![c] = Pruned(Append(@, content))]
  /\ unbacked' = unbacked \cup (Kept(localBackups[c]) \ Kept(localBackups'[c]))
  /\ Goto(f, [flow[f] EXCEPT !.pc = "saveVocabFile"])
  /\ UNCHANGED <<serverVars, file, metadata, late, faults, saved, stored, astray, unmarked>>

\* Mutant: what is backed up is the version fetched.
BackupLocalFileLate(f) == MakeBackup(f, flow[f].file)

\* The reads before it (of the metadata, of which only the clientId survives,
\* and of the file) are part of this step: what is backed up is what was read.
BackupLocalFile(f) == MakeBackup(f, file[ClientOf[f]])

\* backupLocalFile only logs an error.
BackupFails(f) ==
  /\ Happens("backup")
  /\ flow[f].pc = "backup"
  /\ Goto(f, [flow[f] EXCEPT !.pc = "saveVocabFile"])
  /\ unbacked' = unbacked \cup file[ClientOf[f]]
  /\ UNCHANGED <<serverVars, deviceVars, late, saved, stored, astray, unmarked>>

\* Mutant: the metadata of the server's version is saved, its file is not.
SaveFetchedFileSkipped(f) ==
  /\ At(f, "fetch", "saveVocabFile")
  /\ Goto(f, [flow[f] EXCEPT !.pc = "saveSyncMetadata", !.file = {}])
  /\ UNCHANGED <<serverVars, deviceVars, late, faults, history>>

\* The device has learnt of a later revision than f has fetched, or is sending.
Outdated(f) ==
  \/ metadata[ClientOf[f]].serverRev > flow[f].rev
  \/ \E g \in Flow \ {f} :
       ClientOf[g] = ClientOf[f] /\ (flow[g].pc = "put" \/ flow[g].rev > flow[f].rev)

SaveFetchedFile(f) ==
  LET c == ClientOf[f] IN
  /\ At(f, "fetch", "saveVocabFile")
  /\ file' = [file EXCEPT ![c] = flow[f].file]
  /\ Goto(f, [flow[f] EXCEPT !.pc = "saveSyncMetadata", !.file = {}])
  /\ astray' = IF Outdated(f) THEN [astray EXCEPT ![c] = @ \cup WrittenOver(f)] ELSE astray
  /\ unbacked' = IF Replacing(f) THEN unbacked \cup Added(f) ELSE unbacked
  /\ UNCHANGED <<serverVars, metadata, localBackups, late, faults, saved, stored, unmarked>>

-----------------------------------------------------------------------------
(* Errors, retries and closed tabs                                         *)

\* Mutant: one attempt too many.
MayRetryOnceMore(f) ==
  flow[f].tries <= MaxRetries /\ ~At(f, "push", "getVocab")

\* withRetry starts the operation again up to MaxRetries times; an error while
\* the conflict is being fetched is outside of it.
MayRetry(f) ==
  flow[f].tries < MaxRetries /\ ~At(f, "push", "getVocab")

\* Mutant: attempts are not counted.
AfterErrorUncounted(f) ==
  IF At(f, "push", "getVocab") THEN Idle ELSE Start(flow[f].op)

AfterError(f) ==
  IF MayRetry(f)
  THEN [Start(flow[f].op) EXCEPT !.tries = flow[f].tries + 1]
  ELSE Failed(flow[f].op)

\* The request or its reply is lost, or the server answers 5xx.
NetworkError(f) ==
  /\ Happens("network")
  /\ \/ flow[f].pc \in {"put", "getVocab"}
     \/ flow[f].op \in {"push", "force"} /\ flow[f].pc = "saveSyncMetadata"
  /\ Goto(f, AfterError(f))
  /\ UNCHANGED <<serverVars, deviceVars, late, history>>

\* The connection fails for the sender, but the request is on its way.
BecomesLate(f) ==
  /\ flow[f].pc = "put"
  /\ late' = late \cup {SentBy(f)}

RequestLate(f) ==
  /\ Happens("late")
  /\ BecomesLate(f)
  /\ Goto(f, AfterError(f))
  /\ UNCHANGED <<serverVars, deviceVars, history>>

\* 401: thrown at once by withRetry.
Unauthorized(f) ==
  /\ Happens("refused")
  /\ flow[f].pc \in {"put", "getVocab"}
  /\ Goto(f, Failed(flow[f].op))
  /\ UNCHANGED <<serverVars, deviceVars, late, history>>

\* The server dies while it serves the PUT: a network error for the sender.
ServerDies(f) ==
  /\ flow[f].pc = "put"
  /\ Die(SentBy(f))
  /\ Goto(f, AfterError(f))
  /\ UNCHANGED <<deviceVars, late, saved, unmarked>>

\* Every call but the PUT is IndexedDB's, or is followed by a read of it.
StorageError(f) ==
  /\ Happens("storage")
  /\ flow[f].op \in SyncOp
  /\ flow[f].pc # "put"
  /\ Goto(f, AfterError(f))
  /\ UNCHANGED <<serverVars, deviceVars, late, history>>

CloseTab(f) ==
  /\ Happens("closeSync")
  /\ flow[f].op \in SyncOp \/ flow[f] = Dialog
  /\ Goto(f, Idle)
  /\ UNCHANGED late \/ BecomesLate(f)
  /\ UNCHANGED <<serverVars, deviceVars, history>>

\* A late PUT reaches the server; nobody reads the answer.
LateArrives(r) ==
  /\ late' = late \ {r}
  /\ \/ Accept(r) /\ UNCHANGED faults
     \/ /\ r.op = "push" /\ PutVocabConflict(r.rev)
        /\ UNCHANGED <<faults, stored, astray, unbacked>>
     \/ Die(r)
  /\ UNCHANGED <<deviceVars, flow, saved, unmarked>>

-----------------------------------------------------------------------------
(* Specification                                                           *)

\* What an activation does of itself once it is begun.
Proceed(f) ==
  \/ SaveEdit(f) \/ MarkRead(f) \/ MarkSave(f)
  \/ ReadMetadata(f) \/ ReadFile(f) \/ SaveMetadata(f)
  \/ PutAnswered(f) \/ PutRefused(f) \/ ShowConflict(f)
  \/ GetAnswered(f) \/ BackupLocalFile(f) \/ SaveFetchedFile(f)

\* What users begin.
Begin(f) ==
  \/ \E e \in Change : BeginEdit(f, e)
  \/ BeginPush(f)
  \/ BeginForce(f)
  \/ BeginFetch(f)
  \/ CancelConflict(f)

GoWrong(f) ==
  \/ CutEdit(f)
  \/ BackupFails(f)
  \/ NetworkError(f)
  \/ RequestLate(f)
  \/ Unauthorized(f)
  \/ ServerDies(f)
  \/ StorageError(f)
  \/ CloseTab(f)

Next ==
  \/ \E f \in Flow : Begin(f) \/ Proceed(f) \/ GoWrong(f)
  \/ \E r \in late : LateArrives(r)

Spec == Init /\ [][Next]_vars

\* The event loop resumes every activation whose call has completed, IndexedDB
\* completes every call and the server answers every request it receives. Users
\* need do nothing, and nothing need go wrong.
Fairness == \A f \in Flow : WF_vars(Proceed(f))

FairSpec == Spec /\ Fairness

-----------------------------------------------------------------------------
(* Properties                                                              *)

\* A device whose recorded serverRev is the server's current revision holds
\* every change the server holds. An ordinary PUT is accepted on the revision
\* alone (vocab.py: sync_request.serverRev != current_rev), so this is what
\* keeps it from overwriting another device's changes. Missing are only
\* changes that an edit or a fetch of the device wrote over with an older file,
\* and those that the server took in a PUT it died in.
BaseIsCurrent ==
  \A c \in Client :
    metadata[c].serverRev = CurrentRev => Held(vocab) \subseteq file[c] \cup astray[c]

\* A change once saved on a device is never nowhere: it is in the file of some
\* device, in the server's vocabulary, or in a backup on either side
\* (resolutions of conflicts overwrite one side after backing it up) -- unless
\* it was written over with an older file, or left out of, or dropped with, a
\* backup.
NoChangeVanishes ==
  saved \subseteq
    (UNION {file[c] \cup Kept(localBackups[c]) \cup astray[c] : c \in Client})
      \cup Held(vocab)
      \cup (UNION {b.file : b \in backups})
      \cup unbacked

\* An edit between saveVocabFile and the end of markDirty.
Marking(c) ==
  \E f \in Flow : /\ ClientOf[f] = c /\ flow[f].op = "edit"
                  /\ flow[f].pc \in {"getSyncMetadata", "saveSyncMetadata"}

\* A device whose file has a change that never reached the server shows the
\* dirty flag (but for the moment it takes an edit to set it), whatever tabs do
\* at the same time -- unless the change was saved while a sync of the device
\* was sending, which then clears the flag (syncService.ts writes back the
\* metadata it completes), or its edit was cut before markDirty.
DirtyButForUnmarked ==
  \A c \in Client :
    ~Marking(c) /\ ~metadata[c].dirty => file[c] \ stored \subseteq unmarked

\* db/types.ts on SyncMetadata.dirty: "Flag indicating unsynchronized local
\* changes", without exception.
DirtyCoversChanges ==
  \A c \in Client : ~Marking(c) /\ ~metadata[c].dirty => file[c] \subseteq stored

\* Every sync, resolution or edit that is begun ends, whatever fails in it:
\* withRetry gives up after MaxRetries.
OperationsEnd == \A f \in Flow : flow[f].op # "none" ~> flow[f].op = "none"

\* The server's files implement the register with an archive: an ordinary sync
\* never drops a change that another device has synchronised, unless it went
\* astray on the device that syncs.
Register == INSTANCE VocabRegister WITH
  content <- Held(vocab), revision <- CurrentRev, archive <- backups

ImplementsRegister == Register!Spec
=============================================================================
