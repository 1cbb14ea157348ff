---------------------------- MODULE MobileProofs ----------------------------
(***************************************************************************)
(* Theorems about the mobile app's repository, for any words, files and    *)
(* number of changes, and about the app that runs over it.                 *)
(***************************************************************************)
EXTENDS MobileApp, TLAPS

-----------------------------------------------------------------------------
(* What the operations make of a snapshot                                  *)

LEMMA SnapshotFields ==
  ASSUME NEW s \in Snapshot
  PROVE  /\ s = [words |-> s.words, memory |-> s.memory]
         /\ s.words \in [Word -> Content] /\ s.memory \in [Word -> Memory]
BY DEF Snapshot

LEMMA SnapshotOperations ==
  ASSUME NEW s \in Snapshot
  PROVE  /\ \A w \in Word, c \in {1, 2} : Created(s, w, c) \in Snapshot
         /\ \A W \in SUBSET Word :
              Deleted(s, W) \in Snapshot /\ MemoryReset(s, W) \in Snapshot
         /\ \A W \in SUBSET Word, c \in [Word -> Content] :
              Updated(s, W, c) \in Snapshot
         /\ \A w \in Word : Graded(s, w) \in Snapshot
         /\ \A file \in File, mode \in Mode : Imported(s, file, mode) \in Snapshot
<1>1. \A w \in Word, c \in {1, 2} : Created(s, w, c) \in Snapshot
  BY SnapshotFields DEF Snapshot, Created, Content, Memory
<1>2. \A W \in SUBSET Word : Deleted(s, W) \in Snapshot
  BY SnapshotFields DEF Snapshot, Deleted, Content, Memory
<1>3. \A W \in SUBSET Word : MemoryReset(s, W) \in Snapshot
  BY SnapshotFields DEF Snapshot, MemoryReset, Content, Memory
<1>4. \A W \in SUBSET Word, c \in [Word -> Content] : Updated(s, W, c) \in Snapshot
  BY SnapshotFields DEF Snapshot, Updated, Content, Memory
<1>5. \A w \in Word : Graded(s, w) \in Snapshot
  BY SnapshotFields DEF Snapshot, Graded, Content, Memory
<1>6. ASSUME NEW file \in File, NEW mode \in Mode
      PROVE  Imported(s, file, mode) \in Snapshot
  <2>1. file \in Snapshot
    BY FileAssumption
  <2>2. Merged(s, file) \in Snapshot
    BY <2>1, SnapshotFields DEF Snapshot, Merged, Content, Memory
  <2> QED
    BY <2>1, <2>2 DEF Imported
<1> QED
  BY <1>1, <1>2, <1>3, <1>4, <1>5, <1>6

LEMMA SeedIsSnapshot == \A S \in SUBSET Word : Seed(S) \in Snapshot
BY DEF Seed, Snapshot, Content, Memory

\* What was done so far of an operation on some words concerns words.
LEMMA UpToWords ==
  ASSUME NEW ids \in Seq(Word) \ {<<>>}
  PROVE  /\ Len(ids) \in Nat \ {0}
         /\ \A i \in 1 .. Len(ids) : UpTo(ids, i) \in SUBSET Word
<1>1. Len(ids) \in Nat \ {0} /\ \A j \in 1 .. Len(ids) : ids[j] \in Word
  OBVIOUS
<1>2. ASSUME NEW i \in 1 .. Len(ids) PROVE UpTo(ids, i) \in SUBSET Word
  BY <1>1 DEF UpTo
<1> QED
  BY <1>1, <1>2

-----------------------------------------------------------------------------
(* The steps of the repository                                             *)

\* Every operation is a Change through some snapshots, which is what the
\* invariants depend on.
Steps == {steps \in Seq(Snapshot) : steps # <<>>}

LEMMA OneStep == \A s \in Snapshot : <<s>> \in Steps
BY DEF Steps

LEMMA DataIsSnapshot ==
  ASSUME RepositoryTypeOK, Running
  PROVE  data \in Snapshot
BY DEF RepositoryTypeOK, Running

LEMMA OperationIsChange ==
  ASSUME RepositoryTypeOK, Operation
  PROVE  \E steps \in Steps, ids \in SUBSET Word : Change(steps, ids)
<1>1. Running
  BY DEF Operation, CreateWord, DeleteWords, ResetMemories, UpdateWords, GradeCard,
         ImportVocabFile, Change
<1>2. data \in Snapshot
  BY <1>1, DataIsSnapshot
<1>4. CASE \E w \in Word, c \in {1, 2} : CreateWord(w, c)
  <2>1. PICK w \in Word, c \in {1, 2} : CreateWord(w, c)
    BY <1>4
  <2>2. <<Created(data, w, c)>> \in Steps
    BY <1>2, SnapshotOperations, OneStep
  <2> QED
    BY <2>1, <2>2 DEF CreateWord
<1>5. CASE \E ids \in Seq(Word) \ {<<>>} : DeleteWords(ids)
  <2>1. PICK ids \in Seq(Word) \ {<<>>} : DeleteWords(ids)
    BY <1>5
  <2>3. \A i \in 1 .. Len(ids) : Deleted(data, UpTo(ids, i)) \in Snapshot
    BY <1>2, SnapshotOperations, UpToWords
  <2>2. [i \in 1 .. Len(ids) |-> Deleted(data, UpTo(ids, i))] \in Steps
    BY <2>3, UpToWords DEF Steps
  <2> QED
    BY <2>1, <2>2 DEF DeleteWords
<1>6. CASE \E ids \in Seq(Word) \ {<<>>} : ResetMemories(ids)
  <2>1. PICK ids \in Seq(Word) \ {<<>>} : ResetMemories(ids)
    BY <1>6
  <2>3. \A i \in 1 .. Len(ids) : MemoryReset(data, UpTo(ids, i)) \in Snapshot
    BY <1>2, SnapshotOperations, UpToWords
  <2>2. [i \in 1 .. Len(ids) |-> MemoryReset(data, UpTo(ids, i))] \in Steps
    BY <2>3, UpToWords DEF Steps
  <2> QED
    BY <2>1, <2>2 DEF ResetMemories
<1>7. CASE \E ids \in Seq(Word) \ {<<>>}, c \in [Word -> Content] : UpdateWords(ids, c)
  <2>1. PICK ids \in Seq(Word) \ {<<>>}, c \in [Word -> Content] : UpdateWords(ids, c)
    BY <1>7
  <2>3. \A i \in 1 .. Len(ids) : Updated(data, UpTo(ids, i), c) \in Snapshot
    BY <1>2, SnapshotOperations, UpToWords
  <2>2. [i \in 1 .. Len(ids) |-> Updated(data, UpTo(ids, i), c)] \in Steps
    BY <2>3, UpToWords DEF Steps
  <2> QED
    BY <2>1, <2>2 DEF UpdateWords
<1>8. CASE \E w \in Word : GradeCard(w)
  <2>1. PICK w \in Word : GradeCard(w)
    BY <1>8
  <2>2. <<Graded(data, w)>> \in Steps
    BY <1>2, SnapshotOperations, OneStep
  <2> QED
    BY <2>1, <2>2 DEF GradeCard
<1>9. CASE \E file \in File, mode \in Mode : ImportVocabFile(file, mode)
  <2>1. PICK file \in File, mode \in Mode : ImportVocabFile(file, mode)
    BY <1>9
  <2>2. <<Imported(data, file, mode)>> \in Steps
    BY <1>2, SnapshotOperations, OneStep
  <2> QED
    BY <2>1, <2>2 DEF ImportVocabFile
<1> QED
  BY <1>4, <1>5, <1>6, <1>7, <1>8, <1>9 DEF Operation

-----------------------------------------------------------------------------
(* The invariant                                                           *)

\* What the writes under way will have left when they are done is what the app
\* shows; an app that does not run has none.
WritesLead ==
  /\ ~Running => writes = <<>> /\ ~persisted /\ ~failed
  /\ persisted /\ writes # <<>> => writes[Len(writes)] = data

RepositoryInv == RepositoryTypeOK /\ WritesLead /\ SettledIsStored

LEMMA NoWrites == <<>> \in Seq(Snapshot)
OBVIOUS

LEMMA RepositoryInvInit == RepositoryInit => RepositoryInv
<1> SUFFICES ASSUME RepositoryInit PROVE RepositoryInv
  OBVIOUS
<1>1. RepositoryTypeOK
  <2>1. writes \in Seq(Snapshot)
    BY NoWrites DEF RepositoryInit
  <2>2. changes \in 0 .. MaxChanges
    BY BoundAssumption DEF RepositoryInit
  <2> QED
    BY <2>1, <2>2 DEF RepositoryInit, RepositoryTypeOK
<1>2. WritesLead /\ SettledIsStored
  BY DEF RepositoryInit, WritesLead, SettledIsStored, Running
<1> QED
  BY <1>1, <1>2 DEF RepositoryInv

LEMMA ChangeKeepsInv ==
  ASSUME RepositoryInv, NEW steps \in Steps, NEW ids \in SUBSET Word, Change(steps, ids)
  PROVE  RepositoryInv'
<1>1. /\ writes \in Seq(Snapshot) /\ steps \in Seq(Snapshot) /\ Len(steps) \in Nat \ {0}
      /\ Len(writes) \in Nat
  BY DEF RepositoryInv, RepositoryTypeOK, Steps
<1>2. data' \in Snapshot
  BY <1>1 DEF Change
<1>3. writes' \in Seq(Snapshot)
  BY <1>1 DEF Change, Writes
<1>4. RepositoryTypeOK'
  BY <1>2, <1>3, BoundAssumption DEF RepositoryInv, RepositoryTypeOK, Change
<1>5. persisted => writes' # <<>> /\ writes'[Len(writes')] = data'
  <2> SUFFICES ASSUME persisted PROVE writes' # <<>> /\ writes'[Len(writes')] = data'
    OBVIOUS
  <2>1. writes' = writes \o steps /\ data' = steps[Len(steps)]
    BY DEF Change, Writes
  <2>2. Len(writes') = Len(writes) + Len(steps)
    BY <1>1, <2>1
  <2> QED
    BY <1>1, <2>1, <2>2
<1>6. Running'
  BY <1>2, NoDataAssumption DEF Running
<1> QED
  BY <1>4, <1>5, <1>6 DEF RepositoryInv, WritesLead, SettledIsStored, Change

LEMMA StorageKeepsInv ==
  ASSUME RepositoryInv, StorageWrites \/ WriteFails
  PROVE  RepositoryInv'
<1>1. /\ writes \in Seq(Snapshot) /\ writes # <<>> /\ writes' = Tail(writes)
      /\ UNCHANGED <<data, persisted, issued, changes>>
  BY DEF RepositoryInv, RepositoryTypeOK, StorageWrites, WriteFails, StorageUnchanged
<1>2. /\ writes' \in Seq(Snapshot) /\ Head(writes) \in Snapshot
      /\ writes' # <<>> => writes'[Len(writes')] = writes[Len(writes)]
      /\ writes' = <<>> => Head(writes) = writes[Len(writes)]
  <2>1. /\ writes' \in Seq(Snapshot) /\ Head(writes) \in Snapshot
        /\ Len(writes) \in Nat \ {0} /\ Len(writes') = Len(writes) - 1
    BY <1>1
  <2>2. \A i \in 1 .. Len(writes') : writes'[i] = writes[i + 1]
    BY <1>1, <2>1
  <2>3. CASE Len(writes) = 1
    BY <1>1, <2>1, <2>3
  <2>4. CASE Len(writes) > 1
    <3>1. Len(writes') \in 1 .. Len(writes') /\ Len(writes') + 1 = Len(writes)
      BY <2>1, <2>4
    <3>2. writes'[Len(writes')] = writes[Len(writes)]
      BY <2>2, <3>1
    <3> QED
      BY <2>1, <3>1, <3>2
  <2> QED
    BY <2>1, <2>3, <2>4
<1>3. stored' \in Snapshot \cup {NoData} /\ failed' \in BOOLEAN
  BY <1>2 DEF RepositoryInv, RepositoryTypeOK, StorageWrites, WriteFails
<1>4. RepositoryTypeOK'
  BY <1>1, <1>2, <1>3 DEF RepositoryInv, RepositoryTypeOK
<1>5. Running /\ WritesLead'
  BY <1>1, <1>2 DEF RepositoryInv, WritesLead, Running
<1>6. SettledIsStored'
  <2>1. CASE StorageWrites
    BY <1>1, <1>2, <2>1 DEF RepositoryInv, WritesLead, SettledIsStored, StorageWrites
  <2>2. CASE WriteFails
    BY <2>2 DEF SettledIsStored, WriteFails
  <2> QED
    BY <2>1, <2>2
<1> QED
  BY <1>4, <1>5, <1>6 DEF RepositoryInv

LEMMA StartKeepsInv ==
  ASSUME RepositoryInv, Start
  PROVE  RepositoryInv'
<1>1. CASE Hydrate
  <2>1. ~Running /\ writes = <<>> /\ ~failed
    BY <1>1 DEF Hydrate, RepositoryInv, WritesLead
  <2> QED
    BY <1>1, <2>1, NoDataAssumption
       DEF Hydrate, RepositoryInv, RepositoryTypeOK, WritesLead, SettledIsStored, Running
<1>2. ASSUME NEW S \in SUBSET Word, HydrateFromSeed(S) \/ StartWithoutStorage(S)
      PROVE  RepositoryInv'
  <2>1. Seeded(S)
    BY <1>2 DEF HydrateFromSeed, StartWithoutStorage
  <2>2. writes = <<>> /\ ~failed
    BY <2>1 DEF Seeded, RepositoryInv, WritesLead
  <2>3. Seed(S) \in Snapshot /\ data' = Seed(S)
    BY <2>1, SeedIsSnapshot DEF Seeded
  <2> QED
    BY <1>2, <2>1, <2>2, <2>3, NoDataAssumption
       DEF HydrateFromSeed, StartWithoutStorage, Seeded, RepositoryInv, RepositoryTypeOK,
           WritesLead, SettledIsStored, Running
<1> QED
  BY <1>1, <1>2 DEF Start

LEMMA RepositoryInvStep ==
  RepositoryInv /\ [RepositoryNext]_repositoryVars => RepositoryInv'
<1> SUFFICES ASSUME RepositoryInv, [RepositoryNext]_repositoryVars
             PROVE  RepositoryInv'
  OBVIOUS
<1>1. CASE Start
  BY <1>1, StartKeepsInv
<1>2. CASE Operation
  <2>1. PICK steps \in Steps, ids \in SUBSET Word : Change(steps, ids)
    BY <1>2, OperationIsChange DEF RepositoryInv
  <2> QED
    BY <2>1, ChangeKeepsInv
<1>3. CASE StorageWrites \/ WriteFails
  BY <1>3, StorageKeepsInv
<1>4. CASE Killed
  BY <1>4, NoWrites DEF Killed, RepositoryInv, RepositoryTypeOK, WritesLead, SettledIsStored, Running
<1>5. CASE UNCHANGED repositoryVars
  BY <1>5 DEF repositoryVars, RepositoryInv, RepositoryTypeOK, WritesLead, SettledIsStored,
              Running
<1> QED
  BY <1>1, <1>2, <1>3, <1>4, <1>5 DEF RepositoryNext

\* Of any behaviour of the repository: its variables keep their types.
THEOREM RepositoryTypes == RepositorySpec => []RepositoryTypeOK
<1>1. RepositoryInv => RepositoryTypeOK
  BY DEF RepositoryInv
<1> QED
  BY <1>1, RepositoryInvInit, RepositoryInvStep, PTL DEF RepositorySpec

-----------------------------------------------------------------------------
(* Words that are gone                                                     *)

ComesBack(w) == ~Somewhere(w) /\ Somewhere(w)'

\* A change brings back what one of its snapshots has.
LEMMA ComesBackByStep ==
  ASSUME RepositoryInv, NEW steps \in Steps, NEW ids \in SUBSET Word,
         Change(steps, ids), NEW w \in Word, ComesBack(w)
  PROVE  \E i \in 1 .. Len(steps) : Has(steps[i], w)
<1>1. /\ writes \in Seq(Snapshot) /\ steps \in Seq(Snapshot) /\ Len(steps) \in Nat \ {0}
      /\ Len(writes) \in Nat
  BY DEF RepositoryInv, RepositoryTypeOK, Steps
<1>2. CASE Has(data', w)
  BY <1>1, <1>2 DEF Change
<1>3. CASE Has(stored', w)
  BY <1>3 DEF Change, ComesBack, Somewhere
<1>4. CASE \E i \in 1 .. Len(writes') : Has(writes'[i], w)
  <2>1. PICK i \in 1 .. Len(writes') : Has(writes'[i], w)
    BY <1>4
  <2>2. writes' = writes \/ writes' = writes \o steps
    BY DEF Change, Writes
  <2>3. i \notin 1 .. Len(writes) \/ writes'[i] # writes[i]
    BY <2>1 DEF ComesBack, Somewhere
  <2>4. writes' = writes \o steps
    BY <2>1, <2>2, <2>3
  <2>5. i > Len(writes) /\ i - Len(writes) \in 1 .. Len(steps)
    BY <1>1, <2>1, <2>3, <2>4
  <2>6. writes'[i] = steps[i - Len(writes)]
    BY <1>1, <2>4, <2>5
  <2> QED
    BY <2>1, <2>5, <2>6
<1> QED
  BY <1>2, <1>3, <1>4 DEF ComesBack, Somewhere

\* What the operations leave of the words of a snapshot: only those that are
\* created, updated or imported may be there when they were not.
LEMMA WordsAfter ==
  ASSUME NEW s \in Snapshot, NEW w \in Word, ~Has(s, w)
  PROVE  /\ \A v \in Word \ {w}, c \in {1, 2} : ~Has(Created(s, v, c), w)
         /\ \A W \in SUBSET Word :
              ~Has(Deleted(s, W), w) /\ ~Has(MemoryReset(s, W), w)
         /\ \A W \in SUBSET (Word \ {w}), c \in [Word -> Content] :
              ~Has(Updated(s, W, c), w)
         /\ \A v \in Word : ~Has(Graded(s, v), w)
         /\ \A file \in File, mode \in Mode :
              Has(Imported(s, file, mode), w) => file.words[w] # 0
<1>1. s.words[w] = 0 /\ s.words \in [Word -> Content]
  BY NoDataAssumption, SnapshotFields DEF Has
<1>2. \A v \in Word \ {w}, c \in {1, 2} : ~Has(Created(s, v, c), w)
  BY <1>1 DEF Has, Created
<1>3. \A W \in SUBSET Word : ~Has(Deleted(s, W), w)
  BY <1>1 DEF Has, Deleted
<1>4. \A W \in SUBSET Word : ~Has(MemoryReset(s, W), w)
  BY <1>1, SnapshotFields DEF Has, MemoryReset
<1>5. \A W \in SUBSET (Word \ {w}), c \in [Word -> Content] : ~Has(Updated(s, W, c), w)
  BY <1>1, SnapshotFields DEF Has, Updated
<1>6. \A v \in Word : ~Has(Graded(s, v), w)
  BY <1>1, SnapshotFields DEF Has, Graded
<1>7. \A file \in File, mode \in Mode :
        Has(Imported(s, file, mode), w) => file.words[w] # 0
  BY <1>1 DEF Has, Imported, Merged
<1> QED
  BY <1>2, <1>3, <1>4, <1>5, <1>6, <1>7

LEMMA OperationBringsBack ==
  ASSUME RepositoryInv, Operation, NEW w \in issued, ComesBack(w)
  PROVE  \E file \in File, mode \in Mode :
           file.words[w] # 0 /\ ImportVocabFile(file, mode)
<1>1. /\ Running /\ w \in Word /\ data \in Snapshot
  BY DataIsSnapshot
     DEF Operation, CreateWord, DeleteWords, ResetMemories, UpdateWords, GradeCard,
         ImportVocabFile, Change, RepositoryInv, RepositoryTypeOK
<1>2. ~Has(data, w)
  BY DEF ComesBack, Somewhere
<1>3. ASSUME NEW s \in Snapshot, NEW ids \in SUBSET Word, Change(<<s>>, ids)
      PROVE  Has(s, w)
  <2>1. <<s>> \in Steps
    BY OneStep
  <2>2. PICK i \in 1 .. Len(<<s>>) : Has(<<s>>[i], w)
    BY <1>1, <1>3, <2>1, ComesBackByStep
  <2> QED
    BY <2>2
<1>4. ASSUME NEW v \in Word, NEW c \in {1, 2}, CreateWord(v, c)
      PROVE  FALSE
  <2>1. v # w /\ Change(<<Created(data, v, c)>>, {v})
    BY <1>4 DEF CreateWord
  <2> QED
    BY <1>1, <1>2, <1>3, <2>1, SnapshotOperations, WordsAfter
<1>5. ASSUME NEW ids \in Seq(Word) \ {<<>>}, DeleteWords(ids)
      PROVE  FALSE
  <2> DEFINE steps == [i \in 1 .. Len(ids) |-> Deleted(data, UpTo(ids, i))]
  <2>1. \A i \in 1 .. Len(ids) : steps[i] \in Snapshot /\ ~Has(steps[i], w)
    BY <1>1, <1>2, SnapshotOperations, WordsAfter, UpToWords
  <2>2. steps \in Steps /\ Len(steps) = Len(ids)
    BY <2>1, UpToWords DEF Steps
  <2>3. Change(steps, {})
    BY <1>5 DEF DeleteWords
  <2> QED
    BY <1>1, <2>1, <2>2, <2>3, ComesBackByStep
<1>6. ASSUME NEW ids \in Seq(Word) \ {<<>>}, ResetMemories(ids)
      PROVE  FALSE
  <2> DEFINE steps == [i \in 1 .. Len(ids) |-> MemoryReset(data, UpTo(ids, i))]
  <2>1. \A i \in 1 .. Len(ids) : steps[i] \in Snapshot /\ ~Has(steps[i], w)
    BY <1>1, <1>2, SnapshotOperations, WordsAfter, UpToWords
  <2>2. steps \in Steps /\ Len(steps) = Len(ids)
    BY <2>1, UpToWords DEF Steps
  <2>3. Change(steps, {})
    BY <1>6 DEF ResetMemories
  <2> QED
    BY <1>1, <2>1, <2>2, <2>3, ComesBackByStep
<1>7. ASSUME NEW ids \in Seq(Word) \ {<<>>}, NEW c \in [Word -> Content],
             UpdateWords(ids, c)
      PROVE  FALSE
  <2> DEFINE steps == [i \in 1 .. Len(ids) |-> Updated(data, UpTo(ids, i), c)]
  <2>1. \A i \in 1 .. Len(ids) : UpTo(ids, i) \in SUBSET (Word \ {w})
    <3>1. \A j \in 1 .. Len(ids) : ids[j] # w
      BY <1>2, <1>7 DEF UpdateWords
    <3> QED
      BY <3>1, UpToWords DEF UpTo
  <2>2. \A i \in 1 .. Len(ids) : Updated(data, UpTo(ids, i), c) \in Snapshot
    BY <1>1, SnapshotOperations, UpToWords
  <2>3. \A i \in 1 .. Len(ids) : ~Has(Updated(data, UpTo(ids, i), c), w)
    BY <1>1, <1>2, <2>1, WordsAfter
  <2>4. steps \in Steps /\ Len(steps) = Len(ids)
    BY <2>2, UpToWords DEF Steps
  <2>5. Change(steps, {})
    BY <1>7 DEF UpdateWords
  <2> QED
    BY <1>1, <2>3, <2>4, <2>5, ComesBackByStep
<1>8. ASSUME NEW v \in Word, GradeCard(v)
      PROVE  FALSE
  BY <1>1, <1>2, <1>3, <1>8, SnapshotOperations, WordsAfter DEF GradeCard
<1>9. ASSUME NEW file \in File, NEW mode \in Mode, ImportVocabFile(file, mode)
      PROVE  file.words[w] # 0
  <2>1. Imported(data, file, mode) \in Snapshot
    BY <1>1, SnapshotOperations
  <2>2. Has(Imported(data, file, mode), w)
    BY <1>3, <1>9, <2>1 DEF ImportVocabFile
  <2> QED
    BY <1>1, <1>2, <2>2, WordsAfter
<1> QED
  BY <1>4, <1>5, <1>6, <1>7, <1>8, <1>9 DEF Operation

LEMMA StartBringsNothingBack ==
  ASSUME RepositoryInv, Start, NEW w \in issued
  PROVE  ~ComesBack(w)
<1>1. ~Running /\ writes = <<>> /\ writes' = writes /\ w \in Word
  BY DEF Start, Hydrate, HydrateFromSeed, StartWithoutStorage, Seeded, RepositoryInv,
         WritesLead, RepositoryTypeOK
<1>2. CASE Hydrate
  BY <1>1, <1>2 DEF Hydrate, ComesBack, Somewhere
<1>3. ASSUME NEW S \in SUBSET Word, HydrateFromSeed(S) \/ StartWithoutStorage(S)
      PROVE  ~ComesBack(w)
  <2>1. w \notin S /\ data' = Seed(S) /\ (stored' = Seed(S) \/ stored' = stored)
    BY <1>3 DEF HydrateFromSeed, StartWithoutStorage, Seeded
  <2>2. ~Has(Seed(S), w)
    BY <1>1, <2>1 DEF Has, Seed
  <2> QED
    BY <1>1, <2>1, <2>2 DEF ComesBack, Somewhere
<1> QED
  BY <1>2, <1>3 DEF Start

LEMMA StorageBringsNothingBack ==
  ASSUME RepositoryInv, StorageWrites \/ WriteFails, NEW w \in Word
  PROVE  ~ComesBack(w)
<1>1. /\ writes \in Seq(Snapshot) /\ writes # <<>> /\ writes' = Tail(writes)
      /\ data' = data /\ (stored' = stored \/ stored' = Head(writes))
  BY DEF RepositoryInv, RepositoryTypeOK, StorageWrites, WriteFails, StorageUnchanged
<1>2. Len(writes) \in Nat \ {0} /\ Len(writes') = Len(writes) - 1 /\ Head(writes) = writes[1]
  BY <1>1
<1>3. \A i \in 1 .. Len(writes') : writes'[i] = writes[i + 1] /\ i + 1 \in 1 .. Len(writes)
  BY <1>1, <1>2
<1> QED
  BY <1>1, <1>2, <1>3 DEF ComesBack, Somewhere

LEMMA KilledBringsNothingBack ==
  ASSUME Killed, NEW w \in Word
  PROVE  ~ComesBack(w)
<1>1. data' = NoData /\ stored' = stored /\ writes' = <<>>
  BY DEF Killed
<1> QED
  BY <1>1 DEF ComesBack, Somewhere, Has

LEMMA StepBringsBack ==
  ASSUME RepositoryInv, RepositoryNext, NEW w \in issued, ComesBack(w)
  PROVE  \E file \in File, mode \in Mode :
           file.words[w] # 0 /\ ImportVocabFile(file, mode)
<1>1. w \in Word
  BY DEF RepositoryInv, RepositoryTypeOK
<1> QED
  BY <1>1, OperationBringsBack, StartBringsNothingBack, StorageBringsNothingBack,
     KilledBringsNothingBack DEF RepositoryNext

-----------------------------------------------------------------------------
(* The app: its state, part by part                                        *)

NavigationOK ==
  /\ route \in Route
  /\ trail \in Seq(Place) /\ left = trail
  /\ preferred \in [{"study", "quiz"} -> Word \cup {NoWord}]
  /\ trail # <<>> => Running

StudyingOK ==
  /\ shown \in Word \cup {NoWord} /\ content \in Content
  /\ answer \in {"hidden", "revealed", "correct", "incorrect"}
  /\ graded \in BOOLEAN /\ stale \in BOOLEAN
  /\ grades = 0 \/ (graded /\ grades = 1)

ListingOK ==
  /\ sub \in {"list", "create", "edit"}
  /\ listed \in [Word -> Content]
  /\ chosen \in Word \cup {NoWord} /\ draft \in Content
  /\ sub = "edit" => chosen \in Word
  /\ selecting \in BOOLEAN /\ selected \in SUBSET Word /\ error \in BOOLEAN

OtherOK ==
  /\ filter \in BOOLEAN
  /\ dialog \in {"none", "delete", "reset", "tags", "import"}
  /\ importMode \in Mode /\ closing \in BOOLEAN
  /\ reading \in Import \cup {NoImport} /\ mine \in BOOLEAN

ScreenOK == NavigationOK /\ StudyingOK /\ ListingOK /\ OtherOK

AppInv == RepositoryInv /\ ScreenOK

LEMMA AppInvIsTypeOK == AppInv => TypeOK /\ SettledIsStored /\ GradedOncePerShowing
BY DEF AppInv, RepositoryInv, ScreenOK, NavigationOK, StudyingOK, ListingOK, OtherOK,
       TypeOK, ScreenTypeOK, GradedOncePerShowing

LEMMA Zero ==
  /\ 0 \in Content /\ 0 \in Nat
  /\ [w \in Word |-> 0] \in [Word -> Content]
BY DEF Content

LEMMA ScreenOKInit == Init => ScreenOK
<1> SUFFICES ASSUME Init PROVE ScreenOK
  OBVIOUS
<1>1. <<>> \in Seq(Place)
  OBVIOUS
<1>2. NavigationOK
  BY <1>1 DEF Init, NavigationOK, Route, NoPreference
<1>3. StudyingOK
  BY Zero DEF Init, StudyingOK
<1>4. ListingOK
  BY Zero DEF Init, ListingOK
<1>5. OtherOK
  BY DEF Init, OtherOK, Mode
<1> QED
  BY <1>2, <1>3, <1>4, <1>5 DEF ScreenOK

\* What no action of a screen need say more about.
LEMMA ScreenUnchanged ==
  /\ NavigationOK /\ UNCHANGED <<navigation, data>> => NavigationOK'
  /\ StudyingOK /\ UNCHANGED <<studying, stale>> => StudyingOK'
  /\ ListingOK /\ UNCHANGED listing => ListingOK'
  /\ OtherOK /\ UNCHANGED <<filter, dialog, importing, pending>> => OtherOK'
<1>1. NavigationOK /\ UNCHANGED <<navigation, data>> => NavigationOK'
  BY DEF NavigationOK, navigation, Running
<1>2. StudyingOK /\ UNCHANGED <<studying, stale>> => StudyingOK'
  BY DEF StudyingOK, studying
<1>3. ListingOK /\ UNCHANGED listing => ListingOK'
  BY DEF ListingOK, listing
<1>4. OtherOK /\ UNCHANGED <<filter, dialog, importing, pending>> => OtherOK'
  BY DEF OtherOK, importing, pending
<1> QED
  BY <1>1, <1>2, <1>3, <1>4

-----------------------------------------------------------------------------
(* The app: loading                                                        *)

LEMMA LoadedNext ==
  ASSUME data \in Snapshot, NEW r, NEW p \in Word \cup {NoWord}, LoadNext(r, p)
  PROVE  StudyingOK'
<1>1. \A W \in Listed(data, filter') : W \subseteq Word
  BY DEF Listed, WordsOf
<1>2. NextCards(p) \subseteq Word \cup {NoWord}
  BY <1>1 DEF NextCards
<1>3. NextExamples(p) \subseteq Word \cup {NoWord}
  BY <1>1 DEF NextExamples
<1>4. PICK w \in Word \cup {NoWord} : Show(w)
  BY <1>2, <1>3 DEF LoadNext
<1>5. content' \in Content
  BY <1>4, SnapshotFields DEF Show, Content
<1> QED
  BY <1>4, <1>5 DEF Show, StudyingOK

LEMMA ShownNothing == ShowNothing => StudyingOK'
BY Zero DEF ShowNothing, Show, StudyingOK

LEMMA LoadedList ==
  ASSUME data' \in Snapshot, LoadList
  PROVE  listed' \in [Word -> Content] /\ stale' = FALSE
<1>1. \A w \in Word : data'.words[w] \in Content /\ 0 \in Content
  BY DEF Snapshot, Content
<1> QED
  BY <1>1 DEF LoadList

LEMMA MountedScreen ==
  ASSUME ScreenOK, NEW r \in Route, Mount(r), data' \in Snapshot,
         r \in {"study", "quiz"} => data \in Snapshot,
         preferred' \in [{"study", "quiz"} -> Word \cup {NoWord}]
  PROVE  route' \in Route /\ StudyingOK' /\ ListingOK' /\ OtherOK'
<1>1. route' = r /\ Mounted /\ reading' = reading
  BY DEF Mount
<1>2. OtherOK'
  BY <1>1 DEF Mounted, OtherOK, ScreenOK, Mode
<1>3. CASE r = "words"
  <2>1. LoadList /\ ShowNothing
    BY <1>3 DEF Mount
  <2> QED
    BY <1>1, <1>2, <2>1, ShownNothing, LoadedList, Zero DEF Mounted, ListingOK
<1>4. CASE r = "data"
  <2>1. NothingListed /\ ShowNothing
    BY <1>4 DEF Mount
  <2> QED
    BY <1>1, <1>2, <2>1, ShownNothing, Zero DEF NothingListed, Mounted, ListingOK
<1>5. CASE r \in {"study", "quiz"}
  <2>1. NothingListed /\ LoadNext(r, preferred'[r])
    BY <1>5 DEF Mount
  <2>2. StudyingOK'
    BY <1>5, <2>1, LoadedNext
  <2> QED
    BY <1>1, <1>2, <2>1, <2>2, Zero DEF NothingListed, Mounted, ListingOK
<1> QED
  BY <1>3, <1>4, <1>5 DEF Route

-----------------------------------------------------------------------------
(* The app: routes                                                         *)

RepositoryStep == [RepositoryNext]_repositoryVars

LEMMA SameData ==
  ASSUME RepositoryInv, UNCHANGED repositoryVars
  PROVE  /\ RepositoryStep /\ data' = data
         /\ Running => data \in Snapshot /\ data' \in Snapshot /\ Running'
BY DataIsSnapshot DEF RepositoryStep, repositoryVars, RepositoryInv, Running

LEMMA OperationRuns ==
  ASSUME RepositoryInv, Operation
  PROVE  RepositoryStep /\ data \in Snapshot /\ data' \in Snapshot /\ Running /\ Running'
<1>1. PICK steps \in Steps, ids \in SUBSET Word : Change(steps, ids)
  BY OperationIsChange DEF RepositoryInv
<1>2. data' \in Snapshot /\ Running
  BY <1>1 DEF Change, Steps
<1>3. data \in Snapshot
  BY <1>2, DataIsSnapshot DEF RepositoryInv
<1> QED
  BY <1>2, <1>3, NoDataAssumption DEF RepositoryStep, RepositoryNext, Running

LEMMA FollowLinkStep ==
  ASSUME AppInv, Running, route \in {"study", "quiz"}, NEW r \in {"study", "quiz"},
         FollowLink(r)
  PROVE  RepositoryStep /\ ScreenOK'
<1>1. RepositoryStep /\ data \in Snapshot /\ data' \in Snapshot /\ Running'
  BY SameData DEF FollowLink, AppInv
<1>2. [route |-> route, word |-> shown] \in Place
  BY DEF FollowLink, AppInv, ScreenOK, StudyingOK, Place
<1>3. trail' \in Seq(Place) /\ left' = trail'
  BY <1>2 DEF FollowLink, NavigateTo, AppInv, ScreenOK, NavigationOK
<1>4. preferred' \in [{"study", "quiz"} -> Word \cup {NoWord}]
  BY DEF FollowLink, NavigateTo, AppInv, ScreenOK, NavigationOK, StudyingOK
<1>5. route' \in Route /\ StudyingOK' /\ ListingOK' /\ OtherOK'
  BY <1>1, <1>4, MountedScreen DEF FollowLink, NavigateTo, AppInv, Route
<1> QED
  BY <1>1, <1>3, <1>4, <1>5 DEF ScreenOK, NavigationOK

LEMMA NavigationStep ==
  ASSUME AppInv, Navigation
  PROVE  RepositoryStep /\ ScreenOK'
<1> USE DEF AppInv, ScreenOK
<1>1. Running /\ UNCHANGED repositoryVars
  BY DEF Navigation, NavigateToTab, GoBack, GoHome, NavigationOK
<1>2. RepositoryStep /\ data \in Snapshot /\ data' \in Snapshot /\ Running'
  BY <1>1, SameData
<1>3. ASSUME NEW r \in Route, NavigateToTab(r)
      PROVE  ScreenOK'
  <2>1. /\ trail' \in Seq(Place) /\ left' = trail'
        /\ preferred' \in [{"study", "quiz"} -> Word \cup {NoWord}]
    BY <1>3 DEF NavigateToTab, NoPreference
  <2>2. CASE r = route
    <3>1. UNCHANGED <<route, screen, pending>>
      BY <1>3, <2>2 DEF NavigateToTab
    <3>2. StudyingOK' /\ ListingOK' /\ OtherOK' /\ route' \in Route
      BY <3>1, ScreenUnchanged DEF screen, NavigationOK
    <3> QED
      BY <1>2, <2>1, <3>2 DEF NavigationOK
  <2>3. CASE r # route
    <3>1. Mount(r)
      BY <1>3, <2>3 DEF NavigateToTab
    <3>2. route' \in Route /\ StudyingOK' /\ ListingOK' /\ OtherOK'
      BY <1>2, <2>1, <3>1, MountedScreen
    <3> QED
      BY <1>2, <2>1, <3>2 DEF NavigationOK
  <2> QED
    BY <2>2, <2>3
<1>4. CASE GoBack
  <2> DEFINE entry == trail[Len(trail)]
  <2>1. trail # <<>> /\ trail \in Seq(Place) /\ left = trail
    BY <1>4 DEF GoBack, NavigationOK
  <2>2. entry \in Place
    BY <2>1
  <2>3. trail' \in Seq(Place) /\ left' = trail'
    <3>1. Len(trail) - 1 \in 0 .. Len(trail)
      BY <2>1
    <3> QED
      BY <1>4, <2>1, <3>1 DEF GoBack, Front
  <2>4. preferred' \in [{"study", "quiz"} -> Word \cup {NoWord}]
    BY <1>4, <2>2 DEF GoBack, NavigationOK, Place
  <2>5. entry.route \in Route /\ Mount(entry.route)
    BY <1>4, <2>2 DEF GoBack, Place, Route
  <2>6. route' \in Route /\ StudyingOK' /\ ListingOK' /\ OtherOK'
    BY <1>2, <2>4, <2>5, MountedScreen
  <2> QED
    BY <1>2, <2>3, <2>4, <2>6 DEF NavigationOK
<1>5. CASE GoHome
  <2>1. /\ trail' \in Seq(Place) /\ left' = trail'
        /\ preferred' \in [{"study", "quiz"} -> Word \cup {NoWord}]
    BY <1>5 DEF GoHome, NavigationOK
  <2>2. Mount("words") /\ "words" \in Route
    BY <1>5 DEF GoHome, Route
  <2>3. route' \in Route /\ StudyingOK' /\ ListingOK' /\ OtherOK'
    BY <1>2, <2>1, <2>2, MountedScreen
  <2> QED
    BY <1>2, <2>1, <2>3 DEF NavigationOK
<1> QED
  BY <1>2, <1>3, <1>4, <1>5 DEF Navigation

-----------------------------------------------------------------------------
(* The app: the cards and the examples                                     *)

LEMMA GradeShown ==
  ASSUME AppInv, shown # NoWord, GradeCard(shown)
  PROVE  RepositoryStep /\ data \in Snapshot /\ data' \in Snapshot /\ Running'
<1>1. shown \in Word
  BY DEF AppInv, ScreenOK, StudyingOK
<1> QED
  BY <1>1, OperationRuns DEF Operation, AppInv

LEMMA StayedOnScreen ==
  ASSUME AppInv, StayOnScreen, filter' \in BOOLEAN, Running'
  PROVE  NavigationOK' /\ ListingOK' /\ OtherOK'
BY DEF StayOnScreen, navigation, listing, importing, pending, AppInv, ScreenOK,
       NavigationOK, ListingOK, OtherOK, Mode, Route

\* A step that loads the next word, or shows another side of this one.
LEMMA StudyingStep ==
  ASSUME AppInv, Studying
  PROVE  RepositoryStep /\ ScreenOK'
<1> USE DEF AppInv, ScreenOK
<1>1. filter \in BOOLEAN /\ NoWord \in Word \cup {NoWord}
  BY DEF OtherOK
<1>2. ASSUME StayOnScreen, UNCHANGED repositoryVars, Running, filter' \in BOOLEAN,
             StudyingOK'
      PROVE  RepositoryStep /\ ScreenOK'
  BY <1>2, SameData, StayedOnScreen
<1>3. ASSUME StayOnScreen, UNCHANGED repositoryVars, Running, filter' \in BOOLEAN,
             NEW r, LoadNext(r, NoWord)
      PROVE  RepositoryStep /\ ScreenOK'
  BY <1>1, <1>2, <1>3, SameData, LoadedNext
<1>4. CASE ShowAnswer
  <2>1. StudyingOK'
    BY <1>4 DEF ShowAnswer, StudyingOK
  <2> QED
    BY <1>1, <1>2, <1>4, <2>1 DEF ShowAnswer, OnStudy
<1>5. CASE Rate
  <2>1. GradeCard(shown) /\ shown # NoWord /\ LoadNext("study", NoWord) /\ StayOnScreen
        /\ filter' \in BOOLEAN
    BY <1>1, <1>5 DEF Rate, Grade
  <2>2. RepositoryStep /\ data \in Snapshot /\ Running'
    BY <2>1, GradeShown
  <2> QED
    BY <1>1, <2>1, <2>2, LoadedNext, StayedOnScreen
<1>6. CASE ReviewAll
  BY <1>1, <1>3, <1>6 DEF ReviewAll, OnStudy
<1>7. CASE PracticeInFill
  BY <1>7, FollowLinkStep DEF PracticeInFill, OnStudy
<1>8. CASE Check
  <2>1. shown # NoWord /\ HandleSubmit /\ StayOnScreen /\ Running
        /\ UNCHANGED <<filter, shown, content, stale>>
    BY <1>8 DEF Check, OnQuiz
  <2>2. RepositoryStep /\ Running'
    <3>1. CASE graded
      BY <2>1, <3>1, SameData DEF HandleSubmit
    <3>2. CASE ~graded
      BY <2>1, <3>2, GradeShown DEF HandleSubmit
    <3> QED
      BY <3>1, <3>2
  <2>3. StudyingOK'
    BY <2>1 DEF HandleSubmit, StudyingOK
  <2> QED
    BY <1>1, <2>1, <2>2, <2>3, StayedOnScreen
<1>9. CASE Retry
  <2>1. StudyingOK'
    BY <1>9 DEF Retry, HandleRetry, StudyingOK
  <2> QED
    BY <1>1, <1>2, <1>9, <2>1 DEF Retry, OnQuiz
<1>10. CASE NextExample
  BY <1>1, <1>3, <1>10 DEF NextExample, OnQuiz
<1>11. CASE OpenInCards
  BY <1>11, FollowLinkStep DEF OpenInCards, OnQuiz
<1>12. CASE FilterCards \/ FilterExamples
  BY <1>3, <1>12 DEF FilterCards, FilterExamples, ApplyTagFilter, OnStudy, OnQuiz
<1> QED
  BY <1>4, <1>5, <1>6, <1>7, <1>8, <1>9, <1>10, <1>11, <1>12 DEF Studying

-----------------------------------------------------------------------------
(* The app: the words                                                      *)

LEMMA StayedOnWords ==
  ASSUME AppInv, UNCHANGED <<navigation, importing, pending>>, NotStudying, Running',
         stale' \in BOOLEAN, filter' \in BOOLEAN,
         dialog' \in {"none", "delete", "reset", "tags", "import"}
  PROVE  NavigationOK' /\ StudyingOK' /\ OtherOK'
<1>1. NavigationOK'
  BY DEF navigation, AppInv, ScreenOK, NavigationOK
<1>2. StudyingOK'
  BY DEF NotStudying, AppInv, ScreenOK, StudyingOK
<1>3. OtherOK'
  BY DEF importing, pending, AppInv, ScreenOK, OtherOK
<1> QED
  BY <1>1, <1>2, <1>3

\* Only the list's or the form's own state changes.
LEMMA InListStep ==
  ASSUME AppInv, InList, Running, ListingOK', filter' = filter,
         dialog' \in {"none", "delete", "reset", "tags", "import"}
  PROVE  RepositoryStep /\ ScreenOK'
<1>1. RepositoryStep /\ Running'
  BY SameData DEF InList, AppInv
<1>2. stale' \in BOOLEAN /\ filter' \in BOOLEAN
  BY DEF InList, AppInv, ScreenOK, StudyingOK, OtherOK
<1> QED
  BY <1>1, <1>2, StayedOnWords DEF InList, ScreenOK

LEMMA ListStep ==
  ASSUME AppInv,
         \/ PressAdd \/ (\E w \in Word : PressWord(w)) \/ SelectAll \/ CancelSelection
         \/ AskBulk \/ EditDraft \/ BackToList \/ AskOne
  PROVE  RepositoryStep /\ ScreenOK'
<1>1. dialog \in {"none", "delete", "reset", "tags", "import"} /\ ListingOK
  BY DEF AppInv, ScreenOK, OtherOK
<1>2. CASE PressAdd
  <2>1. ListingOK'
    BY <1>1, <1>2, Zero DEF PressAdd, OpenCreate, ListingOK
  <2> QED
    BY <1>1, <1>2, <2>1, InListStep DEF PressAdd, OnList
<1>3. CASE \E w \in Word : PressWord(w)
  <2>1. PICK w \in Word : PressWord(w)
    BY <1>3
  <2>2. ListingOK'
    <3>1. CASE OpenEdit(w)
      BY <1>1, <2>1, <3>1 DEF PressWord, OpenEdit, ListingOK
    <3>2. CASE ToggleSelection(w)
      BY <1>1, <2>1, <3>2 DEF PressWord, ToggleSelection, ListingOK
    <3>3. CASE StartSelection(w)
      BY <1>1, <2>1, <3>3 DEF PressWord, StartSelection, ListingOK
    <3> QED
      BY <2>1, <3>1, <3>2, <3>3 DEF PressWord
  <2> QED
    BY <1>1, <2>1, <2>2, InListStep DEF PressWord, OnList
<1>4. CASE SelectAll
  <2>1. ListingOK'
    BY <1>1, <1>4 DEF SelectAll, ListedWords, ListingOK
  <2> QED
    BY <1>1, <1>4, <2>1, InListStep DEF SelectAll, OnList
<1>5. CASE CancelSelection
  <2>1. ListingOK'
    BY <1>1, <1>5 DEF CancelSelection, ListingOK
  <2> QED
    BY <1>1, <1>5, <2>1, InListStep DEF CancelSelection, OnList
<1>6. CASE AskBulk
  <2>1. ListingOK'
    BY <1>1, <1>6, ScreenUnchanged DEF AskBulk
  <2> QED
    BY <1>6, <2>1, InListStep DEF AskBulk, OnList
<1>7. CASE EditDraft
  <2>1. ListingOK'
    BY <1>1, <1>7 DEF EditDraft, Draft, ListingOK
  <2> QED
    BY <1>1, <1>7, <2>1, InListStep DEF EditDraft, OnForm
<1>8. CASE BackToList
  <2>1. ListingOK'
    BY <1>1, <1>8, Zero DEF BackToList, FormClosed, ListingOK
  <2> QED
    BY <1>1, <1>8, <2>1, InListStep DEF BackToList, OnForm
<1>9. CASE AskOne
  <2>1. ListingOK'
    BY <1>1, <1>9, ScreenUnchanged DEF AskOne
  <2> QED
    BY <1>9, <2>1, InListStep DEF AskOne, OnForm
<1> QED
  BY <1>2, <1>3, <1>4, <1>5, <1>6, <1>7, <1>8, <1>9

\* Some selected words in some order are a sequence of words, and so is the
\* one word of the form.
LEMMA SomeWords ==
  /\ \A ids \in Ordered : ids \in Seq(Word) \ {<<>>}
  /\ \A ids \in Ordered : \A n \in 1 .. Len(ids) - 1 :
       SubSeq(ids, 1, n) \in Seq(Word) \ {<<>>}
  /\ \A w \in Word : <<w>> \in Seq(Word) \ {<<>>}
<1>1. ASSUME NEW ids \in Ordered PROVE ids \in Seq(Word) \ {<<>>}
  <2>1. PICK n \in 1 .. Cardinality(Word) : ids \in [1 .. n -> Word]
    BY DEF Ordered, Selection
  <2>2. n \in Nat \ {0}
    BY <2>1
  <2>3. ids \in Seq(Word) /\ Len(ids) = n
    BY <2>1, <2>2
  <2> QED
    BY <2>2, <2>3
<1>2. ASSUME NEW ids \in Seq(Word), NEW n \in 1 .. Len(ids) - 1
      PROVE  SubSeq(ids, 1, n) \in Seq(Word) \ {<<>>}
  <2>1. n \in 1 .. Len(ids) /\ Len(ids) \in Nat
    OBVIOUS
  <2>2. SubSeq(ids, 1, n) \in Seq(Word) /\ Len(SubSeq(ids, 1, n)) = n
    BY <2>1
  <2> QED
    BY <2>1, <2>2
<1> QED
  BY <1>1, <1>2

\* Operations on words in some order.
LEMMA WordsOperation ==
  ASSUME RepositoryInv, NEW ids \in Seq(Word) \ {<<>>},
         \/ DeleteWords(ids) \/ ResetMemories(ids)
         \/ \E c \in [Word -> Content] : UpdateWords(ids, c)
  PROVE  RepositoryStep /\ data' \in Snapshot /\ Running'
BY OperationRuns DEF Operation

LEMMA FormStep ==
  ASSUME AppInv, FilterWords \/ Submit \/ ConfirmOne
  PROVE  RepositoryStep /\ ScreenOK'
<1>1. /\ dialog \in {"none", "delete", "reset", "tags", "import"} /\ filter \in BOOLEAN
      /\ ListingOK /\ StudyingOK /\ stale \in BOOLEAN
  BY DEF AppInv, ScreenOK, OtherOK, StudyingOK
<1>2. CASE FilterWords
  <2>1. /\ UNCHANGED <<repositoryVars, navigation, importing, pending, dialog>> /\ Running
        /\ LoadList /\ NotStudying /\ filter' \in BOOLEAN
        /\ UNCHANGED <<sub, chosen, draft, selecting, selected, error>>
    BY <1>2 DEF FilterWords, OnList
  <2>2. RepositoryStep /\ data' \in Snapshot /\ Running'
    BY <2>1, SameData DEF AppInv
  <2>3. ListingOK' /\ stale' \in BOOLEAN
    BY <1>1, <2>1, <2>2, LoadedList DEF ListingOK
  <2> QED
    BY <1>1, <2>1, <2>2, <2>3, StayedOnWords DEF ScreenOK
<1>3. CASE Submit
  <2>1. StayOnWords /\ UNCHANGED dialog /\ Running
    BY <1>3 DEF Submit, OnForm
  <2>2. CASE SubmitCreate
    <3>1. PICK w \in Word : CreateWord(w, draft)
      BY <2>2 DEF SubmitCreate
    <3>2. draft \in {1, 2}
      BY <1>1, <1>3 DEF Submit, ListingOK, Content
    <3>3. RepositoryStep /\ data' \in Snapshot /\ Running'
      BY <3>1, <3>2, OperationRuns DEF Operation, AppInv
    <3>4. ListingOK' /\ stale' \in BOOLEAN /\ UNCHANGED filter
      BY <1>1, <2>2, <3>3, LoadedList, Zero DEF SubmitCreate, FormDone, FormClosed, ListingOK
    <3> QED
      BY <1>1, <2>1, <3>3, <3>4, StayedOnWords DEF ScreenOK, StayOnWords
  <2>3. CASE sub # "create" /\ SubmitUpdate
    <3>1. chosen \in Word /\ sub = "edit"
      BY <1>1, <1>3, <2>3 DEF Submit, OnForm, ListingOK
    <3>2. CASE UpdateWords(<<chosen>>, [listed EXCEPT ![chosen] = draft]) /\ FormDone
      <4>1. [listed EXCEPT ![chosen] = draft] \in [Word -> Content]
        BY <1>1 DEF ListingOK
      <4>2. RepositoryStep /\ data' \in Snapshot /\ Running'
        BY <3>1, <3>2, <4>1, SomeWords, WordsOperation DEF AppInv
      <4>3. ListingOK' /\ stale' \in BOOLEAN /\ UNCHANGED filter
        BY <1>1, <3>2, <4>2, LoadedList, Zero DEF FormDone, FormClosed, ListingOK
      <4> QED
        BY <1>1, <2>1, <4>2, <4>3, StayedOnWords DEF ScreenOK, StayOnWords
    <3>3. CASE /\ error' = TRUE
               /\ UNCHANGED <<repositoryVars, filter, sub, listed, chosen, draft,
                              selecting, selected, stale>>
      <4>1. RepositoryStep /\ Running'
        BY <2>1, <3>3, SameData DEF AppInv
      <4>2. ListingOK' /\ stale' \in BOOLEAN /\ UNCHANGED filter
        BY <1>1, <3>3 DEF ListingOK
      <4> QED
        BY <1>1, <2>1, <4>1, <4>2, StayedOnWords DEF ScreenOK, StayOnWords
    <3> QED
      BY <2>3, <3>2, <3>3 DEF SubmitUpdate
  <2> QED
    BY <1>3, <2>2, <2>3 DEF Submit
<1>4. CASE ConfirmOne
  <2>1. /\ UNCHANGED <<navigation, importing, pending>> /\ NotStudying /\ dialog' = "none"
        /\ UNCHANGED <<filter, selecting, selected>> /\ LoadList /\ FormClosed
        /\ sub = "edit" /\ chosen \in Word
    BY <1>1, <1>4 DEF ConfirmOne, Confirmed, ListingOK
  <2>2. /\ DeleteWords(<<chosen>>) \/ ResetMemories(<<chosen>>)
        /\ error' = error \/ error' = FALSE
    BY <1>4 DEF ConfirmOne, HandleDelete, HandleResetMemory
  <2>3. RepositoryStep /\ data' \in Snapshot /\ Running'
    BY <2>1, <2>2, SomeWords, WordsOperation DEF AppInv
  <2>4. ListingOK' /\ stale' \in BOOLEAN
    BY <1>1, <2>1, <2>2, <2>3, LoadedList, Zero DEF FormClosed, ListingOK
  <2> QED
    BY <1>1, <2>1, <2>3, <2>4, StayedOnWords DEF ScreenOK
<1> QED
  BY <1>2, <1>3, <1>4

LEMMA BulkStep ==
  ASSUME AppInv, ConfirmBulk \/ ApplyTags
  PROVE  RepositoryStep /\ ScreenOK'
<1>1. /\ UNCHANGED <<navigation, importing, pending>> /\ NotStudying /\ dialog' = "none"
      /\ UNCHANGED <<sub, chosen, draft>> /\ Running
  BY DEF ConfirmBulk, ApplyTags, Confirmed
<1>2. /\ filter \in BOOLEAN /\ stale \in BOOLEAN /\ ListingOK
      /\ listed \in [Word -> Content]
  BY DEF AppInv, ScreenOK, OtherOK, StudyingOK, ListingOK
<1>3. ASSUME BulkDone, NEW ids \in Ordered,
             \/ DeleteWords(ids) \/ ResetMemories(ids) \/ UpdateWords(ids, listed)
      PROVE  RepositoryStep /\ ScreenOK'
  <2>1. RepositoryStep /\ data' \in Snapshot /\ Running'
    BY <1>2, <1>3, SomeWords, WordsOperation DEF AppInv
  <2>2. ListingOK' /\ stale' \in BOOLEAN /\ UNCHANGED filter
    BY <1>1, <1>2, <1>3, <2>1, LoadedList DEF BulkDone, ListingOK
  <2> QED
    BY <1>1, <1>2, <2>1, <2>2, StayedOnWords DEF ScreenOK
<1>4. CASE ConfirmBulk
  BY <1>3, <1>4 DEF ConfirmBulk, BulkDelete, BulkResetMemory
<1>5. CASE ApplyTags
  <2>1. PICK ids \in Ordered :
          \/ UpdateWords(ids, listed) /\ BulkDone
          \/ /\ \E n \in 0 .. Len(ids) - 1 :
                  /\ ~Has(data, ids[n + 1])
                  /\ IF n = 0 THEN UNCHANGED repositoryVars
                     ELSE UpdateWords(SubSeq(ids, 1, n), listed)
             /\ error' = TRUE
             /\ UNCHANGED <<filter, listed, selecting, selected, stale>>
    BY <1>5 DEF ApplyTags, BulkChangeTags
  <2>2. CASE UpdateWords(ids, listed) /\ BulkDone
    BY <1>3, <2>2
  <2>3. ASSUME NEW n \in 0 .. Len(ids) - 1,
               IF n = 0 THEN UNCHANGED repositoryVars
               ELSE UpdateWords(SubSeq(ids, 1, n), listed),
               error' = TRUE,
               UNCHANGED <<filter, listed, selecting, selected, stale>>
        PROVE  RepositoryStep /\ ScreenOK'
    <3>1. CASE n = 0
      <4>1. RepositoryStep /\ Running'
        BY <1>1, <2>3, <3>1, SameData DEF AppInv
      <4>2. ListingOK'
        BY <1>1, <1>2, <2>3 DEF ListingOK
      <4> QED
        BY <1>1, <1>2, <2>3, <4>1, <4>2, StayedOnWords DEF ScreenOK
    <3>2. CASE n # 0
      <4>1. SubSeq(ids, 1, n) \in Seq(Word) \ {<<>>}
        <5>1. n \in 1 .. Len(ids) - 1
          BY <3>2
        <5> QED
          BY <5>1, SomeWords
      <4>2. RepositoryStep /\ Running'
        BY <1>2, <2>3, <3>2, <4>1, WordsOperation DEF AppInv
      <4>3. ListingOK'
        BY <1>1, <1>2, <2>3 DEF ListingOK
      <4> QED
        BY <1>1, <1>2, <2>3, <4>2, <4>3, StayedOnWords DEF ScreenOK
    <3> QED
      BY <3>1, <3>2
  <2> QED
    BY <2>1, <2>2, <2>3
<1> QED
  BY <1>4, <1>5

LEMMA CloseDialogStep ==
  ASSUME AppInv, CloseDialog
  PROVE  RepositoryStep /\ ScreenOK'
<1>1. RepositoryStep /\ data' = data
  BY SameData DEF CloseDialog, AppInv
<1>2. NavigationOK' /\ StudyingOK' /\ ListingOK'
  BY <1>1, ScreenUnchanged DEF CloseDialog, AppInv, ScreenOK
<1>3. OtherOK'
  BY DEF CloseDialog, importing, pending, AppInv, ScreenOK, OtherOK
<1> QED
  BY <1>1, <1>2, <1>3 DEF ScreenOK

LEMMA WordsStep ==
  ASSUME AppInv, Words
  PROVE  RepositoryStep /\ ScreenOK'
BY ListStep, FormStep, BulkStep, CloseDialogStep DEF Words

-----------------------------------------------------------------------------
(* The app: the import                                                     *)

LEMMA DataStep ==
  ASSUME AppInv, OpenImport \/ ChooseMode \/ PickFile \/ TimerFires
  PROVE  RepositoryStep /\ ScreenOK'
<1>1. UNCHANGED repositoryVars /\ NotLoaded /\ OtherOK
  BY DEF OpenImport, ChooseMode, PickFile, TimerFires, AppInv, ScreenOK
<1>2. RepositoryStep /\ data' = data
  BY <1>1, SameData DEF AppInv
<1>3. NavigationOK' /\ StudyingOK' /\ ListingOK'
  BY <1>1, <1>2, ScreenUnchanged DEF NotLoaded, AppInv, ScreenOK
<1>4. CASE OpenImport
  <2>1. OtherOK'
    BY <1>1, <1>4 DEF OpenImport, NotLoaded, pending, OtherOK, Mode
  <2> QED
    BY <1>2, <1>3, <2>1 DEF ScreenOK
<1>5. CASE ChooseMode
  <2>1. OtherOK'
    BY <1>1, <1>5 DEF ChooseMode, NotLoaded, pending, OtherOK
  <2> QED
    BY <1>2, <1>3, <2>1 DEF ScreenOK
<1>6. CASE PickFile
  <2>1. PICK file \in File : reading' = [file |-> file, mode |-> importMode]
    BY <1>6 DEF PickFile
  <2>2. reading' \in Import
    BY <1>1, <2>1 DEF OtherOK, Import
  <2>3. OtherOK'
    BY <1>1, <1>6, <2>2 DEF PickFile, NotLoaded, importing, OtherOK
  <2> QED
    BY <1>2, <1>3, <2>3 DEF ScreenOK
<1>7. CASE TimerFires
  <2>1. OtherOK'
    BY <1>1, <1>7 DEF TimerFires, NotLoaded, pending, OtherOK
  <2> QED
    BY <1>2, <1>3, <2>1 DEF ScreenOK
<1> QED
  BY <1>4, <1>5, <1>6, <1>7

LEMMA ImportLandsStep ==
  ASSUME AppInv, ImportLands
  PROVE  RepositoryStep /\ ScreenOK'
<1>1. reading \in Import
  BY DEF ImportLands, AppInv, ScreenOK, OtherOK
<1>2. reading.file \in File /\ reading.mode \in Mode
  BY <1>1 DEF Import
<1>3. RepositoryStep /\ Running'
  BY <1>2, OperationRuns DEF ImportLands, Operation, AppInv
<1>4. NavigationOK'
  BY <1>3 DEF ImportLands, navigation, AppInv, ScreenOK, NavigationOK
<1>5. StudyingOK'
  BY DEF ImportLands, studying, AppInv, ScreenOK, StudyingOK
<1>6. ListingOK'
  BY ScreenUnchanged DEF ImportLands, AppInv, ScreenOK
<1>7. OtherOK'
  BY DEF ImportLands, AppInv, ScreenOK, OtherOK
<1> QED
  BY <1>3, <1>4, <1>5, <1>6, <1>7 DEF ScreenOK

LEMMA ImportFailsStep ==
  ASSUME AppInv, ImportFails
  PROVE  RepositoryStep /\ ScreenOK'
<1>1. RepositoryStep /\ data' = data
  BY SameData DEF ImportFails, AppInv
<1>2. NavigationOK' /\ StudyingOK' /\ ListingOK'
  BY <1>1, ScreenUnchanged DEF ImportFails, screen, AppInv, ScreenOK
<1>3. OtherOK'
  BY DEF ImportFails, screen, importing, AppInv, ScreenOK, OtherOK
<1> QED
  BY <1>1, <1>2, <1>3 DEF ScreenOK

LEMMA ImportingStep ==
  ASSUME AppInv, Importing
  PROVE  RepositoryStep /\ ScreenOK'
BY DataStep, ImportLandsStep, ImportFailsStep DEF Importing

-----------------------------------------------------------------------------
(* The app: starting, stopping and the storage                             *)

LEMMA LaunchStep ==
  ASSUME AppInv, Launch
  PROVE  RepositoryStep /\ ScreenOK'
<1>1. RepositoryStep
  BY DEF Launch, RepositoryStep, RepositoryNext
<1>2. data' \in Snapshot
  BY SeedIsSnapshot
     DEF Launch, Start, Hydrate, HydrateFromSeed, StartWithoutStorage, Seeded, AppInv,
         RepositoryInv, RepositoryTypeOK
<1>3. Running'
  BY <1>2, NoDataAssumption DEF Running
<1>4. /\ trail' \in Seq(Place) /\ left' = trail'
      /\ preferred' \in [{"study", "quiz"} -> Word \cup {NoWord}]
  BY DEF Launch, AppInv, ScreenOK, NavigationOK
<1>5. route' \in Route /\ StudyingOK' /\ ListingOK' /\ OtherOK'
  BY <1>2, <1>4, MountedScreen DEF Launch, AppInv, Route
<1> QED
  BY <1>1, <1>3, <1>4, <1>5 DEF ScreenOK, NavigationOK

LEMMA KillStep ==
  ASSUME AppInv, Kill
  PROVE  RepositoryStep /\ ScreenOK'
<1>1. RepositoryStep
  BY DEF Kill, RepositoryStep, RepositoryNext
<1>2. NavigationOK'
  <2>1. <<>> \in Seq(Place)
    OBVIOUS
  <2> QED
    BY <2>1 DEF Kill, NoPreference, NavigationOK, Route
<1>3. StudyingOK'
  BY ShownNothing DEF Kill
<1>4. ListingOK'
  BY Zero DEF Kill, Mounted, NothingListed, ListingOK
<1>5. OtherOK'
  BY DEF Kill, Mounted, OtherOK, Mode
<1> QED
  BY <1>1, <1>2, <1>3, <1>4, <1>5 DEF ScreenOK

LEMMA BackgroundStep ==
  ASSUME AppInv, Background
  PROVE  RepositoryStep /\ ScreenOK'
<1>1. RepositoryStep /\ data' = data
  BY DEF Background, RepositoryStep, RepositoryNext, StorageWrites, WriteFails,
         StorageUnchanged
<1>2. NavigationOK' /\ StudyingOK' /\ ListingOK' /\ OtherOK'
  BY <1>1, ScreenUnchanged DEF Background, appVars, screen, AppInv, ScreenOK
<1> QED
  BY <1>1, <1>2 DEF ScreenOK

-----------------------------------------------------------------------------
(* The app                                                                 *)

LEMMA NextStep ==
  ASSUME AppInv, [Next]_vars
  PROVE  RepositoryStep /\ ScreenOK'
<1>1. CASE Next
  BY <1>1, LaunchStep, KillStep, BackgroundStep, NavigationStep, StudyingStep, WordsStep,
     ImportingStep DEF Next
<1>2. CASE UNCHANGED vars
  <2>1. RepositoryStep /\ data' = data
    BY <1>2, SameData DEF vars, AppInv
  <2>2. NavigationOK' /\ StudyingOK' /\ ListingOK' /\ OtherOK'
    BY <1>2, <2>1, ScreenUnchanged DEF vars, appVars, screen, AppInv, ScreenOK
  <2> QED
    BY <2>1, <2>2 DEF ScreenOK
<1> QED
  BY <1>1, <1>2

LEMMA AppInvariant == Spec => []AppInv
<1>1. Init => AppInv
  BY RepositoryInvInit, ScreenOKInit DEF Init, AppInv
<1>2. AppInv /\ [Next]_vars => AppInv'
  BY NextStep, RepositoryInvStep DEF AppInv, RepositoryStep
<1> QED
  BY <1>1, <1>2, PTL DEF Spec

\* The variables of the repository and of the screens keep their types,
\* whatever is tapped, imported, killed or not written.
THEOREM TypeCorrect == Spec => []TypeOK
BY AppInvariant, AppInvIsTypeOK, PTL

\* Once the writes of mobileLearningRepository.ts are done and the last one
\* did not fail, the storage holds what the app shows.
THEOREM ChangesReachStorage == Spec => []SettledIsStored
BY AppInvariant, AppInvIsTypeOK, PTL

\* An example is graded at most once as it is shown, however often it is
\* answered (handleSubmit of ExamplesScreen.tsx).
THEOREM ExamplesGradedOnce == Spec => []GradedOncePerShowing
BY AppInvariant, AppInvIsTypeOK, PTL

\* Whatever the screens do to the repository is a step of the repository.
THEOREM AppUsesRepository == Spec => RepositorySpec
<1>1. Init => RepositoryInit
  BY DEF Init
<1>2. AppInv /\ [Next]_vars => [RepositoryNext]_repositoryVars
  BY NextStep DEF RepositoryStep
<1> QED
  BY <1>1, <1>2, AppInvariant, PTL DEF Spec, RepositorySpec

\* A word that is gone from the repository, the storage and the writes under
\* way comes back by an import alone, whatever form or list still has it.
THEOREM GoneWordsStayGone == Spec => NoResurrection
<1>1. ASSUME AppInv, [Next]_vars
      PROVE  [\A w \in issued :
                ~Somewhere(w) /\ Somewhere(w)' =>
                  \E file \in File, mode \in Mode :
                    file.words[w] # 0 /\ ImportVocabFile(file, mode)]_repositoryVars
  <2>1. [RepositoryNext]_repositoryVars /\ RepositoryInv
    BY <1>1, NextStep DEF RepositoryStep, AppInv
  <2> QED
    BY <2>1, StepBringsBack DEF ComesBack
<1> QED
  BY <1>1, AppInvariant, PTL DEF Spec, NoResurrection

LEMMA BackShowsWord ==
  ASSUME AppInv, GoBack, left # <<>>
  PROVE  LET place == left[Len(left)]
         IN  /\ route' = place.route
             /\ Has(data, place.word)
                  /\ (place.route = "quiz" => data.words[place.word] = 2)
                => shown' = place.word
<1> DEFINE place == left[Len(left)]
<1>1. left = trail /\ place \in Place
  BY DEF AppInv, ScreenOK, NavigationOK
<1>2. Mount(place.route) /\ preferred' = [preferred EXCEPT ![place.route] = place.word]
  BY <1>1 DEF GoBack
<1>3. /\ place.route \in {"study", "quiz"} /\ place.word \in Word
      /\ preferred'[place.route] = place.word
  BY <1>1, <1>2 DEF Place, AppInv, ScreenOK, NavigationOK
<1>4. /\ route' = place.route /\ filter' = FALSE
      /\ LoadNext(place.route, place.word)
  BY <1>2, <1>3 DEF Mount, Mounted
<1>5. ASSUME Has(data, place.word), place.route = "quiz" => data.words[place.word] = 2
      PROVE  shown' = place.word
  <2>1. CASE place.route = "study"
    <3>1. NextCards(place.word) = {place.word}
      BY <1>3, <1>5, NoWordAssumption DEF NextCards
    <3> QED
      BY <1>4, <2>1, <3>1 DEF LoadNext, Show
  <2>2. CASE place.route = "quiz"
    <3>1. Listed(data, filter') = {WordsOf(data)}
      BY <1>4 DEF Listed
    <3>2. place.word \in WordsOf(data) \cap WithExamples
      BY <1>3, <1>5, <2>2 DEF WordsOf, WithExamples
    <3>3. NextExamples(place.word) = {place.word}
      BY <3>1, <3>2 DEF NextExamples
    <3> QED
      BY <1>4, <2>2, <3>3 DEF LoadNext, Show
  <2> QED
    BY <1>3, <2>1, <2>2
<1> QED
  BY <1>4, <1>5

\* Back leads to the place the last link was followed from and to its word, if
\* it still has it to show (routeHistoryRef of App.tsx), for a history of any
\* length.
THEOREM BackLeadsBack == Spec => BackRestoresWord
<1>1. ASSUME AppInv, [Next]_vars
      PROVE  [(GoBack \/ GoHome) /\ left # <<>> =>
                LET place == left[Len(left)]
                IN  /\ route' = place.route
                    /\ Has(data, place.word)
                         /\ (place.route = "quiz" => data.words[place.word] = 2)
                       => shown' = place.word]_vars
  <2>1. GoHome => left = <<>>
    BY <1>1 DEF GoHome, AppInv, ScreenOK, NavigationOK
  <2> QED
    BY <1>1, <2>1, BackShowsWord
<1> QED
  BY <1>1, AppInvariant, PTL DEF Spec, BackRestoresWord

-----------------------------------------------------------------------------
(* What the screens show                                                   *)

\* How the state of a screen hangs together, whatever the repository holds.
Arranged ==
  /\ route \in {"words", "data"} => shown = NoWord
  /\ ~selecting => selected = {}
  /\ sub # "list" => ~selecting
  /\ selected \subseteq ListedWords
  /\ dialog = "tags" => sub = "list"

ListCurrent ==
  /\ \A w \in ListedWords : listed[w] = data.words[w]
  /\ ~filter => ListedWords = WordsOf(data)
  /\ sub = "edit" => Has(data, chosen)

ShownCurrent ==
  /\ shown # NoWord => content = data.words[shown] /\ Has(data, shown)
  /\ route = "study" /\ shown = NoWord /\ ~filter => WordsOf(data) = {}

Current == Running /\ ~stale => (route = "words" => ListCurrent) /\ ShownCurrent

CurrentInv == Arranged /\ Current

LEMMA CurrentInvIsCurrent == AppInv /\ CurrentInv => ScreensAreCurrent
<1> SUFFICES ASSUME AppInv, CurrentInv, Running, ~stale
             PROVE  /\ route = "words" =>
                         /\ \A w \in ListedWords : listed[w] = data.words[w]
                         /\ ~filter => ListedWords = WordsOf(data)
                         /\ sub = "edit" => Has(data, chosen)
                         /\ \A w \in selected : Has(data, w)
                    /\ shown # NoWord => content = data.words[shown] /\ Has(data, shown)
                    /\ route = "study" /\ shown = NoWord /\ ~filter => WordsOf(data) = {}
  BY DEF ScreensAreCurrent
<1>1. ASSUME route = "words" PROVE \A w \in selected : Has(data, w)
  BY <1>1 DEF CurrentInv, Current, Arranged, ListCurrent, ListedWords, Has, Running
<1> QED
  BY <1>1 DEF CurrentInv, Current, ListCurrent, ShownCurrent

LEMMA CurrentInvInit == Init => CurrentInv
BY DEF Init, RepositoryInit, CurrentInv, Arranged, Current, Running

LEMMA LoadedListIsCurrent ==
  ASSUME data' \in Snapshot, LoadList, sub' # "edit"
  PROVE  ListCurrent'
<1>1. PICK W \in Listed(data', filter') :
        listed' = [w \in Word |-> IF w \in W THEN data'.words[w] ELSE 0]
  BY DEF LoadList
<1>2. W \subseteq WordsOf(data') /\ (~filter' => W = WordsOf(data'))
  BY <1>1 DEF Listed
<1>3. ListedWords' = W
  BY <1>1, <1>2 DEF ListedWords, WordsOf
<1>4. \A w \in W : listed'[w] = data'.words[w]
  BY <1>1, <1>2 DEF WordsOf
<1> QED
  BY <1>2, <1>3, <1>4 DEF ListCurrent

LEMMA LoadedNextIsCurrent ==
  ASSUME data \in Snapshot, data' \in Snapshot, data'.words = data.words,
         NEW r \in {"study", "quiz"}, NEW p \in Word \cup {NoWord}, LoadNext(r, p),
         route' = "study" => r = "study"
  PROVE  ShownCurrent'
<1>1. \A w : Has(data', w) <=> Has(data, w)
  BY NoDataAssumption DEF Has
<1>2. WordsOf(data') = WordsOf(data)
  BY DEF WordsOf
<1>3. \A W \in Listed(data, filter') :
        W \subseteq WordsOf(data) /\ (~filter' => W = WordsOf(data))
  BY DEF Listed
<1>4. \A w \in WordsOf(data) : w \in Word /\ Has(data, w)
  BY NoDataAssumption DEF WordsOf, Has
<1>5. \A w \in NextCards(p) : w # NoWord => Has(data, w)
  BY <1>3, <1>4 DEF NextCards
<1>6. \A w \in NextExamples(p) : w # NoWord => Has(data, w)
  BY <1>3, <1>4 DEF NextExamples
<1>7. ASSUME NoWord \in NextCards(p), ~filter' PROVE WordsOf(data) = {}
  <2>1. PICK W \in Listed(data, filter') : NoWord \in IF W = {} THEN {NoWord} ELSE W
    BY <1>7 DEF NextCards
  <2> QED
    BY <1>3, <1>4, <1>7, <2>1, NoWordAssumption
<1>8. PICK w \in IF r = "study" THEN NextCards(p) ELSE NextExamples(p) : Show(w)
  BY DEF LoadNext
<1>9. shown' = w /\ (w # NoWord => content' = data'.words[w])
  BY <1>8 DEF Show
<1>10. w # NoWord => Has(data', w)
  BY <1>1, <1>5, <1>6, <1>8
<1>11. route' = "study" /\ w = NoWord /\ ~filter' => WordsOf(data') = {}
  BY <1>2, <1>7, <1>8
<1> QED
  BY <1>9, <1>10, <1>11 DEF ShownCurrent

LEMMA MountedIsCurrent ==
  ASSUME NEW r \in Route, Mount(r), data' \in Snapshot,
         r \in {"study", "quiz"} => data' = data,
         preferred' \in [{"study", "quiz"} -> Word \cup {NoWord}]
  PROVE  CurrentInv'
<1>1. /\ route' = r /\ selecting' = FALSE /\ selected' = {} /\ sub' = "list"
      /\ dialog' = "none"
  BY DEF Mount, Mounted
<1>2. CASE r = "words"
  <2>1. LoadList /\ shown' = NoWord
    BY <1>2 DEF Mount, ShowNothing, Show
  <2>2. ListCurrent'
    BY <1>1, <2>1, LoadedListIsCurrent
  <2> QED
    BY <1>1, <1>2, <2>1, <2>2 DEF CurrentInv, Arranged, Current, ShownCurrent
<1>3. CASE r = "data"
  <2>1. shown' = NoWord
    BY <1>3 DEF Mount, ShowNothing, Show
  <2> QED
    BY <1>1, <1>3, <2>1 DEF CurrentInv, Arranged, Current, ShownCurrent
<1>4. CASE r \in {"study", "quiz"}
  <2>1. LoadNext(r, preferred'[r]) /\ preferred'[r] \in Word \cup {NoWord}
    BY <1>4 DEF Mount
  <2>2. ShownCurrent'
    BY <1>1, <1>4, <2>1, LoadedNextIsCurrent
  <2> QED
    BY <1>1, <1>4, <2>2 DEF CurrentInv, Arranged, Current
<1> QED
  BY <1>2, <1>3, <1>4 DEF Route

\* A step that changes neither what is shown nor the repository.
LEMMA NothingShownChanges ==
  ASSUME CurrentInv,
         UNCHANGED <<route, data, filter, shown, content, stale, sub, listed, chosen,
                     selecting, selected>>,
         dialog' = "tags" => dialog = "tags" \/ sub = "list"
  PROVE  CurrentInv'
<1>1. Arranged'
  BY DEF CurrentInv, Arranged, ListedWords
<1>2. Current'
  BY DEF CurrentInv, Current, ListCurrent, ShownCurrent, ListedWords, WordsOf, Has, Running
<1> QED
  BY <1>1, <1>2 DEF CurrentInv

LEMMA FollowedLinkIsCurrent ==
  ASSUME AppInv, Running, NEW r \in {"study", "quiz"}, FollowLink(r),
         route \in {"study", "quiz"}
  PROVE  CurrentInv'
<1>1. data \in Snapshot /\ data' = data
  BY SameData DEF FollowLink, AppInv
<1>2. ScreenOK' /\ Mount(r)
  BY FollowLinkStep DEF FollowLink, NavigateTo
<1> QED
  BY <1>1, <1>2, MountedIsCurrent DEF ScreenOK, NavigationOK, Route

LEMMA NavigationIsCurrent ==
  ASSUME AppInv, CurrentInv, Navigation
  PROVE  CurrentInv'
<1>1. Running /\ UNCHANGED repositoryVars
  BY DEF Navigation, NavigateToTab, GoBack, GoHome, AppInv, ScreenOK, NavigationOK
<1>2. data \in Snapshot /\ data' = data /\ data' \in Snapshot
  BY <1>1, SameData DEF AppInv
<1>3. preferred' \in [{"study", "quiz"} -> Word \cup {NoWord}]
  BY NavigationStep DEF ScreenOK, NavigationOK
<1>4. ASSUME NEW r \in Route, NavigateToTab(r)
      PROVE  CurrentInv'
  <2>1. CASE r = route
    <3>1. UNCHANGED <<route, screen, pending>>
      BY <1>4, <2>1 DEF NavigateToTab
    <3>2. /\ UNCHANGED <<route, filter, shown, content, stale, sub, listed, chosen,
                        selecting, selected>>
          /\ dialog' = dialog
      BY <3>1 DEF screen, studying, listing
    <3> QED
      BY <1>2, <3>2, NothingShownChanges
  <2>2. CASE r # route
    BY <1>2, <1>3, <1>4, <2>2, MountedIsCurrent DEF NavigateToTab
  <2> QED
    BY <2>1, <2>2
<1>5. CASE GoBack
  <2>1. trail # <<>> /\ trail \in Seq(Place)
    BY <1>5 DEF GoBack, AppInv, ScreenOK, NavigationOK
  <2>2. trail[Len(trail)] \in Place
    BY <2>1
  <2>3. trail[Len(trail)].route \in Route
    BY <2>2 DEF Place, Route
  <2> QED
    BY <1>2, <1>3, <1>5, <2>3, MountedIsCurrent DEF GoBack
<1>6. CASE GoHome
  BY <1>2, <1>3, <1>6, MountedIsCurrent DEF GoHome, Route
<1> QED
  BY <1>4, <1>5, <1>6 DEF Navigation

\* A grade leaves the words as they are.
LEMMA GradedWords ==
  ASSUME AppInv, shown # NoWord, GradeCard(shown)
  PROVE  /\ data \in Snapshot /\ data' \in Snapshot /\ data'.words = data.words
         /\ Running /\ Running'
<1>1. shown \in Word /\ data \in Snapshot /\ data' \in Snapshot /\ Running'
  BY GradeShown DEF AppInv, ScreenOK, StudyingOK
<1>2. data' = Graded(data, shown)
  BY DEF GradeCard, Change
<1> QED
  BY <1>1, <1>2, SnapshotFields, NoDataAssumption DEF Graded, Running

LEMMA StudyingIsCurrent ==
  ASSUME AppInv, CurrentInv, Studying
  PROVE  CurrentInv'
<1>1. NoWord \in Word \cup {NoWord}
  OBVIOUS
<1>2. ASSUME StayOnScreen, route \in {"study", "quiz"}, ShownCurrent'
      PROVE  CurrentInv'
  BY <1>2 DEF StayOnScreen, navigation, listing, CurrentInv, Arranged, Current, ListedWords
<1>3. ASSUME StayOnScreen, UNCHANGED repositoryVars, Running,
             NEW r \in {"study", "quiz"}, route = r, LoadNext(r, NoWord)
      PROVE  CurrentInv'
  <2>1. data \in Snapshot /\ data' = data /\ route' = r
    BY <1>3, SameData DEF AppInv, StayOnScreen, navigation
  <2>2. ShownCurrent'
    BY <1>1, <1>3, <2>1, LoadedNextIsCurrent
  <2> QED
    BY <1>2, <1>3, <2>2
<1>4. ASSUME StayOnScreen, UNCHANGED <<repositoryVars, filter, shown, content, stale>>
      PROVE  CurrentInv'
  BY <1>4, NothingShownChanges
     DEF StayOnScreen, navigation, listing, repositoryVars
<1>5. CASE ShowAnswer
  BY <1>4, <1>5 DEF ShowAnswer
<1>6. CASE Rate
  <2>1. /\ GradeCard(shown) /\ shown # NoWord /\ LoadNext("study", NoWord) /\ StayOnScreen
        /\ route = "study" /\ route' = "study"
    BY <1>6 DEF Rate, Grade, OnStudy, StayOnScreen, navigation
  <2>2. ShownCurrent'
    BY <1>1, <2>1, GradedWords, LoadedNextIsCurrent
  <2> QED
    BY <1>2, <2>1, <2>2
<1>7. CASE ReviewAll
  BY <1>3, <1>7 DEF ReviewAll, OnStudy
<1>8. CASE PracticeInFill
  BY <1>8, FollowedLinkIsCurrent DEF PracticeInFill, OnStudy
<1>9. CASE Check
  <2>1. /\ shown # NoWord /\ HandleSubmit /\ StayOnScreen /\ route = "quiz" /\ Running
        /\ UNCHANGED <<filter, shown, content, stale>>
    BY <1>9 DEF Check, OnQuiz
  <2>2. CASE graded
    BY <1>4, <2>1, <2>2 DEF HandleSubmit
  <2>3. CASE ~graded
    <3>1. GradeCard(shown) /\ data'.words = data.words /\ data' # NoData
      BY <2>1, <2>3, GradedWords DEF HandleSubmit, Running
    <3>2. route' = "quiz" /\ UNCHANGED listing /\ UNCHANGED dialog
      BY <2>1 DEF StayOnScreen, navigation
    <3>3. Current'
      BY <2>1, <3>1, <3>2 DEF CurrentInv, Current, ShownCurrent, Has, Running
    <3>4. Arranged'
      BY <2>1, <3>2 DEF CurrentInv, Arranged, ListedWords, listing
    <3> QED
      BY <3>3, <3>4 DEF CurrentInv
  <2> QED
    BY <2>2, <2>3
<1>10. CASE Retry
  BY <1>4, <1>10 DEF Retry
<1>11. CASE NextExample
  BY <1>3, <1>11 DEF NextExample, OnQuiz
<1>12. CASE OpenInCards
  BY <1>12, FollowedLinkIsCurrent DEF OpenInCards, OnQuiz
<1>13. CASE FilterCards \/ FilterExamples
  BY <1>3, <1>13 DEF FilterCards, FilterExamples, ApplyTagFilter, OnStudy, OnQuiz
<1> QED
  BY <1>5, <1>6, <1>7, <1>8, <1>9, <1>10, <1>11, <1>12, <1>13 DEF Studying

\* A step of the words' list or form that leaves the repository alone.
LEMMA ListIsCurrent ==
  ASSUME AppInv, CurrentInv,
         \/ PressAdd \/ (\E w \in Word : PressWord(w)) \/ SelectAll \/ CancelSelection
         \/ AskBulk \/ EditDraft \/ BackToList \/ AskOne
  PROVE  CurrentInv'
<1>1. /\ UNCHANGED <<route, data, stale, filter, listed>>
      /\ UNCHANGED <<shown, content>>
      /\ Running /\ route = "words"
  BY DEF PressAdd, PressWord, SelectAll, CancelSelection, AskBulk, EditDraft, BackToList,
         AskOne, InList, repositoryVars, navigation, NotStudying, OnList, OnForm, listing
<1>2. ASSUME Arranged', sub' = "edit" /\ ~stale => Has(data, chosen')
      PROVE  CurrentInv'
  BY <1>1, <1>2
     DEF CurrentInv, Current, ListCurrent, ShownCurrent, ListedWords, WordsOf, Has, Running
<1>3. CASE PressAdd
  BY <1>1, <1>2, <1>3 DEF PressAdd, OnList, OpenCreate, CurrentInv, Arranged, ListedWords
<1>4. CASE \E w \in Word : PressWord(w)
  <2>1. PICK w \in Word : PressWord(w)
    BY <1>4
  <2>2. sub = "list" /\ dialog' = "none" /\ w \in ListedWords
    BY <2>1 DEF PressWord, OnList, ListedWords
  <2>3. CASE OpenEdit(w)
    <3>1. ~stale => Has(data, w)
      BY <1>1, <2>2 DEF CurrentInv, Current, ListCurrent, ListedWords, Has, Running
    <3>2. Arranged'
      BY <1>1, <2>2, <2>3 DEF OpenEdit, CurrentInv, Arranged, ListedWords
    <3> QED
      BY <1>2, <2>3, <3>1, <3>2 DEF OpenEdit
  <2>4. CASE ToggleSelection(w)
    BY <1>1, <1>2, <2>2, <2>4 DEF ToggleSelection, CurrentInv, Arranged, ListedWords
  <2>5. CASE StartSelection(w)
    BY <1>1, <1>2, <2>2, <2>5 DEF StartSelection, CurrentInv, Arranged, ListedWords
  <2> QED
    BY <2>1, <2>3, <2>4, <2>5 DEF PressWord
<1>5. CASE SelectAll
  BY <1>1, <1>2, <1>5 DEF SelectAll, OnList, CurrentInv, Arranged, ListedWords
<1>6. CASE CancelSelection
  BY <1>1, <1>2, <1>6 DEF CancelSelection, OnList, CurrentInv, Arranged, ListedWords
<1>7. CASE AskBulk
  BY <1>1, <1>7, NothingShownChanges DEF AskBulk, OnList, listing
<1>8. CASE EditDraft
  BY <1>1, <1>8, NothingShownChanges DEF EditDraft
<1>9. CASE BackToList
  BY <1>1, <1>2, <1>9 DEF BackToList, OnForm, FormClosed, CurrentInv, Arranged, ListedWords
<1>10. CASE AskOne
  BY <1>1, <1>10, NothingShownChanges DEF AskOne, listing
<1> QED
  BY <1>3, <1>4, <1>5, <1>6, <1>7, <1>8, <1>9, <1>10

\* A step that loads the list, with nothing selected and no form open.
LEMMA ReloadedIsCurrent ==
  ASSUME CurrentInv, data' \in Snapshot, LoadList, NotStudying,
         route = "words", route' = route, sub' # "edit", selected' = {},
         sub' # "list" => ~selecting', dialog' # "tags"
  PROVE  CurrentInv'
<1>1. ListCurrent' /\ shown' = NoWord
  BY LoadedListIsCurrent DEF CurrentInv, Arranged, NotStudying
<1> QED
  BY <1>1 DEF CurrentInv, Arranged, Current, ShownCurrent

\* In the form nothing is selected.
LEMMA FormSelectsNothing ==
  CurrentInv /\ sub # "list" => ~selecting /\ selected = {}
BY DEF CurrentInv, Arranged

LEMMA FormIsCurrent ==
  ASSUME AppInv, CurrentInv, FilterWords \/ Submit \/ ConfirmOne
  PROVE  CurrentInv'
<1>1. CASE FilterWords
  <2>1. /\ UNCHANGED <<repositoryVars, navigation, dialog, sub, selecting, selected>>
        /\ Running /\ LoadList /\ NotStudying
        /\ ~selecting /\ sub = "list" /\ dialog = "none" /\ route = "words"
    BY <1>1 DEF FilterWords, OnList
  <2>2. data' \in Snapshot /\ route' = route
    BY <2>1, SameData DEF AppInv, navigation
  <2> QED
    BY <2>1, <2>2, ReloadedIsCurrent DEF CurrentInv, Arranged
<1>2. CASE Submit
  <2>1. /\ NotStudying /\ route = "words" /\ route' = route /\ sub # "list" /\ Running
        /\ dialog = "none" /\ dialog' = dialog
    BY <1>2 DEF Submit, OnForm, StayOnWords, navigation
  <2>2. ASSUME FormDone, data' \in Snapshot
        PROVE  CurrentInv'
    BY <2>1, <2>2, ReloadedIsCurrent, FormSelectsNothing DEF FormDone, FormClosed
  <2>3. CASE SubmitCreate
    <3>1. PICK w \in Word : CreateWord(w, draft)
      BY <2>3 DEF SubmitCreate
    <3>2. draft \in {1, 2}
      BY <1>2 DEF Submit, AppInv, ScreenOK, ListingOK, Content
    <3>3. data' \in Snapshot
      BY <3>1, <3>2, OperationRuns DEF Operation, AppInv
    <3> QED
      BY <2>2, <2>3, <3>3 DEF SubmitCreate
  <2>4. CASE sub # "create" /\ SubmitUpdate
    <3>1. chosen \in Word /\ [listed EXCEPT ![chosen] = draft] \in [Word -> Content]
      BY <2>1, <2>4 DEF AppInv, ScreenOK, ListingOK
    <3>2. CASE UpdateWords(<<chosen>>, [listed EXCEPT ![chosen] = draft]) /\ FormDone
      <4>1. data' \in Snapshot
        BY <3>1, <3>2, SomeWords, WordsOperation DEF AppInv
      <4> QED
        BY <2>2, <3>2, <4>1
    <3>3. CASE UNCHANGED <<repositoryVars, filter, sub, listed, chosen, draft,
                           selecting, selected, stale>>
      <4>1. data' = data /\ UNCHANGED <<shown, content>>
        BY <2>1, <3>3 DEF repositoryVars, NotStudying
      <4> QED
        BY <2>1, <3>3, <4>1, NothingShownChanges
    <3> QED
      BY <2>4, <3>2, <3>3 DEF SubmitUpdate
  <2> QED
    BY <1>2, <2>3, <2>4 DEF Submit
<1>3. CASE ConfirmOne
  <2>1. /\ NotStudying /\ route = "words" /\ route' = route /\ dialog' = "none"
        /\ UNCHANGED <<selecting, selected>> /\ LoadList /\ FormClosed /\ sub = "edit"
    BY <1>3 DEF ConfirmOne, Confirmed, navigation
  <2>2. chosen \in Word /\ (DeleteWords(<<chosen>>) \/ ResetMemories(<<chosen>>))
    BY <1>3, <2>1
       DEF ConfirmOne, HandleDelete, HandleResetMemory, AppInv, ScreenOK, ListingOK
  <2>3. data' \in Snapshot
    BY <2>2, SomeWords, WordsOperation DEF AppInv
  <2> QED
    BY <2>1, <2>3, ReloadedIsCurrent, FormSelectsNothing DEF FormClosed
<1> QED
  BY <1>1, <1>2, <1>3

LEMMA BulkIsCurrent ==
  ASSUME AppInv, CurrentInv, ConfirmBulk \/ ApplyTags
  PROVE  CurrentInv'
<1>1. /\ NotStudying /\ route = "words" /\ route' = route /\ dialog' = "none" /\ Running
      /\ UNCHANGED <<sub, chosen, draft>> /\ sub = "list"
  BY DEF ConfirmBulk, ApplyTags, Confirmed, navigation, CurrentInv, Arranged
<1>2. ASSUME BulkDone, NEW ids \in Ordered,
             \/ DeleteWords(ids) \/ ResetMemories(ids) \/ UpdateWords(ids, listed)
      PROVE  CurrentInv'
  <2>1. listed \in [Word -> Content]
    BY DEF AppInv, ScreenOK, ListingOK
  <2>2. data' \in Snapshot
    BY <1>2, <2>1, SomeWords, WordsOperation DEF AppInv
  <2> QED
    BY <1>1, <1>2, <2>2, ReloadedIsCurrent DEF BulkDone
<1>3. CASE ConfirmBulk
  BY <1>2, <1>3 DEF ConfirmBulk, BulkDelete, BulkResetMemory
<1>4. CASE ApplyTags
  <2>1. PICK ids \in Ordered :
          \/ UpdateWords(ids, listed) /\ BulkDone
          \/ /\ \E n \in 0 .. Len(ids) - 1 : ~Has(data, ids[n + 1])
             /\ UNCHANGED <<filter, listed, selecting, selected, stale>>
    BY <1>4 DEF ApplyTags, BulkChangeTags
  <2>2. CASE UpdateWords(ids, listed) /\ BulkDone
    BY <1>2, <2>2
  <2>3. ASSUME NEW n \in 0 .. Len(ids) - 1, ~Has(data, ids[n + 1]),
               UNCHANGED <<filter, listed, selecting, selected, stale>>
        PROVE  CurrentInv'
    <3>1. n + 1 \in 1 .. Len(ids) /\ ids \in Seq(Word)
      BY SomeWords
    <3>2. ids[n + 1] \in selected
      BY <3>1 DEF Ordered, Range
    <3>3. stale
      BY <1>1, <2>3, <3>2, CurrentInvIsCurrent DEF ScreensAreCurrent
    <3>4. Arranged'
      BY <1>1, <2>3 DEF CurrentInv, Arranged, NotStudying, ListedWords
    <3> QED
      BY <2>3, <3>3, <3>4 DEF CurrentInv, Current
  <2> QED
    BY <2>1, <2>2, <2>3
<1> QED
  BY <1>3, <1>4

LEMMA DataIsCurrent ==
  ASSUME AppInv, CurrentInv, Importing
  PROVE  CurrentInv'
<1>1. CASE ImportLands
  <2>1. /\ UNCHANGED <<route, shown, content, sub, listed, chosen, selecting, selected, filter>>
        /\ dialog' = dialog /\ stale' = (route # "data")
    BY <1>1 DEF ImportLands, navigation, studying, listing
  <2>2. Arranged'
    BY <2>1 DEF CurrentInv, Arranged, ListedWords
  <2>3. ~stale' => route' = "data" /\ shown' = NoWord
    BY <2>1 DEF CurrentInv, Arranged
  <2> QED
    BY <2>2, <2>3 DEF CurrentInv, Current, ShownCurrent
<1>2. CASE ImportFails
  <2>1. UNCHANGED <<route, data, filter, shown, content, stale, sub, listed, chosen,
                    selecting, selected>> /\ dialog' = dialog
    BY <1>2 DEF ImportFails, navigation, studying, listing, screen, repositoryVars
  <2> QED
    BY <2>1, NothingShownChanges
<1>3. CASE OpenImport \/ ChooseMode \/ PickFile \/ TimerFires
  <2>1. UNCHANGED <<route, data, filter, shown, content, stale, sub, listed, chosen,
                    selecting, selected>>
    BY <1>3 DEF OpenImport, ChooseMode, PickFile, TimerFires, NotLoaded, navigation,
                studying, listing, repositoryVars
  <2>2. dialog' = dialog \/ dialog' # "tags"
    BY <1>3 DEF OpenImport, ChooseMode, PickFile, TimerFires
  <2> QED
    BY <2>1, <2>2, NothingShownChanges
<1> QED
  BY <1>1, <1>2, <1>3 DEF Importing

LEMMA CurrentInvStep ==
  ASSUME AppInv, CurrentInv, [Next]_vars
  PROVE  CurrentInv'
<1>1. CASE Launch
  <2>1. data' \in Snapshot
    BY <1>1, SeedIsSnapshot
       DEF Launch, Start, Hydrate, HydrateFromSeed, StartWithoutStorage, Seeded, AppInv,
           RepositoryInv, RepositoryTypeOK
  <2>2. ScreenOK' /\ Mount("words")
    BY <1>1, LaunchStep DEF Launch
  <2> QED
    BY <2>1, <2>2, MountedIsCurrent DEF ScreenOK, NavigationOK, Route
<1>2. CASE Kill
  BY <1>2 DEF Kill, Killed, Mounted, ShowNothing, Show, CurrentInv, Arranged, Current, Running
<1>3. CASE Background
  <2>1. UNCHANGED <<route, data, filter, shown, content, stale, sub, listed, chosen,
                    selecting, selected>> /\ dialog' = dialog
    BY <1>3 DEF Background, StorageWrites, WriteFails, StorageUnchanged, appVars, screen,
                navigation, studying, listing
  <2> QED
    BY <2>1, NothingShownChanges
<1>4. CASE CloseDialog
  <2>1. UNCHANGED <<route, data, filter, shown, content, stale, sub, listed, chosen,
                    selecting, selected>> /\ dialog' = "none"
    BY <1>4 DEF CloseDialog, navigation, studying, listing, repositoryVars
  <2> QED
    BY <2>1, NothingShownChanges
<1>5. CASE Words
  BY <1>4, <1>5, ListIsCurrent, FormIsCurrent, BulkIsCurrent DEF Words
<1>6. CASE UNCHANGED vars
  <2>1. UNCHANGED <<route, data, filter, shown, content, stale, sub, listed, chosen,
                    selecting, selected>> /\ dialog' = dialog
    BY <1>6 DEF vars, repositoryVars, appVars, screen, navigation, studying, listing
  <2> QED
    BY <2>1, NothingShownChanges
<1> QED
  BY <1>1, <1>2, <1>3, <1>5, <1>6, NavigationIsCurrent, StudyingIsCurrent, DataIsCurrent
     DEF Next

LEMMA CurrentInvariant == Spec => []CurrentInv
BY AppInvariant, CurrentInvInit, CurrentInvStep, PTL DEF Spec

\* Unless an import has landed since, every screen shows what the repository
\* holds, after any handler of any screen.
THEOREM ScreensStayCurrent == Spec => []ScreensAreCurrent
BY AppInvariant, CurrentInvariant, CurrentInvIsCurrent, PTL

-----------------------------------------------------------------------------
(* Memory states without a word                                            *)

NoNewOrphan ==
  \A w \in Word : data'.memory[w] # 0 /\ ~Has(data', w) => data.memory[w] # 0 /\ ~Has(data, w)

LEMMA OperationMakesNoOrphan ==
  ASSUME RepositoryInv, data \in Snapshot,
         \/ \E v \in Word : Has(data, v) /\ GradeCard(v)
         \/ \E v \in Word, c \in {1, 2} : CreateWord(v, c)
         \/ \E ids \in Seq(Word) \ {<<>>} :
              \/ DeleteWords(ids) \/ ResetMemories(ids)
              \/ \E c \in [Word -> Content] :
                   UpdateWords(ids, c) /\ \A i \in 1 .. Len(ids) : c[ids[i]] # 0
  PROVE  NoNewOrphan
<1>1. data' # NoData
  <2>1. Operation
    BY DEF Operation
  <2> QED
    BY <2>1, OperationRuns DEF Running
<1>2. data # NoData /\ data.words \in [Word -> Content] /\ data.memory \in [Word -> Memory]
  BY NoDataAssumption, SnapshotFields
<1>3. ASSUME NEW v \in Word, Has(data, v), GradeCard(v)
      PROVE  NoNewOrphan
  <2>1. data' = Graded(data, v)
    BY <1>3 DEF GradeCard, Change
  <2>2. data'.words = data.words /\ \A w \in Word \ {v} : data'.memory[w] = data.memory[w]
    BY <1>2, <2>1, SnapshotFields DEF Graded
  <2> QED
    BY <1>1, <1>2, <1>3, <2>2 DEF NoNewOrphan, Has
<1>4. ASSUME NEW v \in Word, NEW c \in {1, 2}, CreateWord(v, c)
      PROVE  NoNewOrphan
  <2>1. data' = Created(data, v, c)
    BY <1>4 DEF CreateWord, Change
  <2>2. /\ data'.words[v] # 0
        /\ \A w \in Word \ {v} :
             data'.words[w] = data.words[w] /\ data'.memory[w] = data.memory[w]
    BY <1>2, <2>1 DEF Created
  <2> QED
    BY <1>1, <1>2, <2>2 DEF NoNewOrphan, Has
<1>5. ASSUME NEW ids \in Seq(Word) \ {<<>>}
      PROVE  Len(ids) \in 1 .. Len(ids)
  BY <1>5
<1>6. ASSUME NEW ids \in Seq(Word) \ {<<>>}, DeleteWords(ids)
      PROVE  NoNewOrphan
  <2>1. data' = Deleted(data, UpTo(ids, Len(ids)))
    BY <1>5, <1>6 DEF DeleteWords, Change
  <2> QED
    BY <1>1, <1>2, <2>1 DEF NoNewOrphan, Has, Deleted
<1>7. ASSUME NEW ids \in Seq(Word) \ {<<>>}, ResetMemories(ids)
      PROVE  NoNewOrphan
  <2>1. data' = MemoryReset(data, UpTo(ids, Len(ids)))
    BY <1>5, <1>7 DEF ResetMemories, Change
  <2>2. data'.words = data.words
        /\ \A w \in Word : data'.memory[w] # 0 => data.memory[w] # 0
    BY <1>2, <2>1, SnapshotFields DEF MemoryReset
  <2> QED
    BY <1>1, <1>2, <2>2 DEF NoNewOrphan, Has
<1>8. ASSUME NEW ids \in Seq(Word) \ {<<>>}, NEW c \in [Word -> Content],
             UpdateWords(ids, c), \A i \in 1 .. Len(ids) : c[ids[i]] # 0
      PROVE  NoNewOrphan
  <2>1. data' = Updated(data, UpTo(ids, Len(ids)), c)
    BY <1>5, <1>8 DEF UpdateWords, Change
  <2>2. \A w \in UpTo(ids, Len(ids)) : c[w] # 0
    BY <1>8 DEF UpTo
  <2>3. /\ data'.memory = data.memory
        /\ \A w \in Word : data.words[w] # 0 => data'.words[w] # 0
    BY <1>2, <2>1, <2>2, SnapshotFields DEF Updated
  <2> QED
    BY <1>1, <1>2, <2>3 DEF NoNewOrphan, Has
<1> QED
  BY <1>3, <1>4, <1>6, <1>7, <1>8

LEMMA SameDataNoOrphan == data' = data => NoNewOrphan
BY DEF NoNewOrphan, Has

\* Only a word that the screen has is graded, and it is there.
LEMMA GradeMakesNoOrphan ==
  ASSUME AppInv, CurrentInv, Running, ~stale, shown # NoWord, GradeCard(shown)
  PROVE  NoNewOrphan
<1>1. shown \in Word /\ data \in Snapshot
  BY GradeShown DEF AppInv, ScreenOK, StudyingOK
<1>2. Has(data, shown)
  BY DEF CurrentInv, Current, ShownCurrent
<1> QED
  BY <1>1, <1>2, OperationMakesNoOrphan DEF AppInv

\* A selected word is listed, so that an update writes it, and not nothing.
LEMMA BulkMakesNoOrphan ==
  ASSUME AppInv, CurrentInv, ConfirmBulk \/ ApplyTags
  PROVE  NoNewOrphan
<1>1. Running /\ data \in Snapshot /\ RepositoryInv
  BY DataIsSnapshot DEF ConfirmBulk, ApplyTags, Confirmed, AppInv, RepositoryInv
<1>2. listed \in [Word -> Content]
  BY DEF AppInv, ScreenOK, ListingOK
<1>3. \A ids \in Ordered : \A i \in 1 .. Len(ids) : listed[ids[i]] # 0
  <2>1. ASSUME NEW ids \in Ordered, NEW i \in 1 .. Len(ids) PROVE listed[ids[i]] # 0
    <3>1. ids[i] \in selected
      BY <2>1, SomeWords DEF Ordered, Range
    <3> QED
      BY <3>1 DEF CurrentInv, Arranged, ListedWords
  <2> QED
    BY <2>1
<1>4. CASE ConfirmBulk
  BY <1>1, <1>4, SomeWords, OperationMakesNoOrphan
     DEF ConfirmBulk, BulkDelete, BulkResetMemory
<1>5. CASE ApplyTags
  <2>1. PICK ids \in Ordered :
          \/ UpdateWords(ids, listed)
          \/ \E n \in 0 .. Len(ids) - 1 :
               IF n = 0 THEN UNCHANGED repositoryVars
               ELSE UpdateWords(SubSeq(ids, 1, n), listed)
    BY <1>5 DEF ApplyTags, BulkChangeTags
  <2>2. CASE UpdateWords(ids, listed)
    BY <1>1, <1>2, <1>3, <2>2, SomeWords, OperationMakesNoOrphan
  <2>3. ASSUME NEW n \in 0 .. Len(ids) - 1,
               IF n = 0 THEN UNCHANGED repositoryVars
               ELSE UpdateWords(SubSeq(ids, 1, n), listed)
        PROVE  NoNewOrphan
    <3>1. CASE n = 0
      BY <2>3, <3>1, SameDataNoOrphan DEF repositoryVars
    <3>2. CASE n # 0
      <4>1. n \in 1 .. Len(ids) - 1 /\ ids \in Seq(Word) \ {<<>>}
        BY <3>2, SomeWords
      <4>2. SubSeq(ids, 1, n) \in Seq(Word) \ {<<>>}
        BY <4>1, SomeWords
      <4>3. \A i \in 1 .. Len(SubSeq(ids, 1, n)) : listed[SubSeq(ids, 1, n)[i]] # 0
        BY <1>3, <4>1
      <4> QED
        BY <1>1, <1>2, <2>3, <3>2, <4>2, <4>3, OperationMakesNoOrphan
    <3> QED
      BY <3>1, <3>2
  <2> QED
    BY <2>1, <2>2, <2>3
<1> QED
  BY <1>4, <1>5

LEMMA FormMakesNoOrphan ==
  ASSUME AppInv, CurrentInv, Submit \/ ConfirmOne
  PROVE  NoNewOrphan
<1>1. Running /\ data \in Snapshot /\ RepositoryInv
  BY DataIsSnapshot DEF Submit, OnForm, ConfirmOne, Confirmed, AppInv, RepositoryInv
<1>2. CASE Submit /\ SubmitCreate
  <2>1. PICK w \in Word : CreateWord(w, draft)
    BY <1>2 DEF SubmitCreate
  <2>2. draft \in {1, 2}
    BY <1>2 DEF Submit, AppInv, ScreenOK, ListingOK, Content
  <2> QED
    BY <1>1, <2>1, <2>2, OperationMakesNoOrphan
<1>3. CASE Submit /\ sub # "create" /\ SubmitUpdate
  <2> DEFINE c == [listed EXCEPT ![chosen] = draft]
  <2>1. chosen \in Word /\ listed \in [Word -> Content] /\ draft \in Content /\ draft # 0
    BY <1>3 DEF Submit, OnForm, AppInv, ScreenOK, ListingOK
  <2>2. c \in [Word -> Content] /\ c[chosen] # 0
    BY <2>1
  <2>3. CASE UpdateWords(<<chosen>>, c)
    <3>1. <<chosen>> \in Seq(Word) \ {<<>>} /\ \A i \in 1 .. Len(<<chosen>>) : c[<<chosen>>[i]] # 0
      BY <2>1, <2>2
    <3> HIDE DEF c
    <3> QED
      BY <1>1, <2>2, <2>3, <3>1, OperationMakesNoOrphan
  <2>4. CASE UNCHANGED repositoryVars
    BY <2>4, SameDataNoOrphan DEF repositoryVars
  <2> QED
    BY <1>3, <2>3, <2>4 DEF SubmitUpdate
<1>4. CASE ConfirmOne
  <2>1. chosen \in Word
    BY <1>4 DEF ConfirmOne, AppInv, ScreenOK, ListingOK
  <2>2. DeleteWords(<<chosen>>) \/ ResetMemories(<<chosen>>)
    BY <1>4 DEF ConfirmOne, HandleDelete, HandleResetMemory
  <2> QED
    BY <1>1, <2>1, <2>2, SomeWords, OperationMakesNoOrphan
<1> QED
  BY <1>2, <1>3, <1>4 DEF Submit

LEMMA StepMakesNoOrphan ==
  ASSUME AppInv, CurrentInv, Next, Running, Running', ~stale, ~ImportLands
  PROVE  NoNewOrphan
<1>1. ~Launch /\ ~Kill
  BY DEF Launch, Start, Hydrate, HydrateFromSeed, StartWithoutStorage, Seeded, Kill, Killed,
         Running
<1>2. CASE Background \/ Navigation
  BY <1>2, SameDataNoOrphan
     DEF Background, StorageWrites, WriteFails, StorageUnchanged, Navigation, NavigateToTab,
         GoBack, GoHome, repositoryVars
<1>3. CASE Studying
  <2>1. CASE Rate \/ (Check /\ ~graded)
    <3>1. shown # NoWord /\ GradeCard(shown)
      BY <2>1 DEF Rate, Grade, Check, HandleSubmit
    <3> QED
      BY <3>1, GradeMakesNoOrphan
  <2>2. CASE ~Rate /\ (Check => graded)
    <3>1. UNCHANGED repositoryVars
      BY <1>3, <2>2
         DEF Studying, ShowAnswer, ReviewAll, PracticeInFill, FollowLink, Check,
             HandleSubmit, Retry, NextExample, OpenInCards, FilterCards, FilterExamples,
             ApplyTagFilter
    <3> QED
      BY <3>1, SameDataNoOrphan DEF repositoryVars
  <2> QED
    BY <2>1, <2>2
<1>4. CASE Words
  <2>1. CASE Submit \/ ConfirmOne \/ ConfirmBulk \/ ApplyTags
    BY <2>1, FormMakesNoOrphan, BulkMakesNoOrphan
  <2>2. CASE ~(Submit \/ ConfirmOne \/ ConfirmBulk \/ ApplyTags)
    <3>1. UNCHANGED repositoryVars
      BY <1>4, <2>2
         DEF Words, FilterWords, PressAdd, PressWord, SelectAll, CancelSelection, AskBulk,
             CloseDialog, EditDraft, BackToList, AskOne, InList
    <3> QED
      BY <3>1, SameDataNoOrphan DEF repositoryVars
  <2> QED
    BY <2>1, <2>2
<1>5. CASE Importing
  BY <1>5, SameDataNoOrphan
     DEF Importing, OpenImport, ChooseMode, PickFile, ImportFails, TimerFires, repositoryVars
<1> QED
  BY <1>1, <1>2, <1>3, <1>4, <1>5 DEF Next

\* As long as the screen was loaded after the last import, no step but an
\* import makes a memory state without its word (gradeCard asks for none).
THEOREM NoOrphansAreMade == Spec => NoOrphanMade
<1>1. ASSUME AppInv, CurrentInv, [Next]_vars
      PROVE  [Running /\ Running' /\ ~stale =>
                \/ ImportLands
                \/ \A w \in Word :
                     data'.memory[w] # 0 /\ ~Has(data', w) =>
                       data.memory[w] # 0 /\ ~Has(data, w)]_vars
  BY <1>1, StepMakesNoOrphan DEF NoNewOrphan
<1> QED
  BY <1>1, AppInvariant, CurrentInvariant, PTL DEF Spec, NoOrphanMade

\* A word that is gone comes back by an import alone, and as long as the screen
\* was loaded after the last one no handler makes a memory state for it.
THEOREM DeletedWordsStayDeleted == Spec => WordsStayGone
BY GoneWordsStayGone, NoOrphansAreMade, PTL DEF WordsStayGone
=============================================================================
