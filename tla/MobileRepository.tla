-------------------------- MODULE MobileRepository --------------------------
(***************************************************************************)
(* The mobile app's repository of words and memory states, kept in memory  *)
(* and written to the device's storage as one snapshot after each change   *)
(* (mobileLearningRepository.ts).                                          *)
(*                                                                         *)
(* The writes are not awaited: they are carried out in the order of the    *)
(* calls (AsyncStorage, the default runtime), each of them may fail, and   *)
(* those under way are lost when the app is killed.  A word is abstracted  *)
(* to whether it has example sentences, a memory state to whether it has   *)
(* been reviewed; the sync fields of the snapshot are left out, nothing    *)
(* that is mounted reads them.                                             *)
(***************************************************************************)
EXTENDS Integers, Sequences, FiniteSets, Functions

CONSTANTS
  Word,         (* what generateUUID may draw for a word                   *)
  SeedSize,     (* the words the constructor makes (2 in the code)         *)
  NoData,       (* stands for no snapshot                                  *)
  File,         (* the files that may be imported, normalised              *)
  MaxChanges    (* bound: the changes of the repository                    *)

Content == 0 .. 2       \* no such word, one without and one with examples
Memory == 0 .. 2        \* no memory state, a new one, one of a reviewed word
Snapshot == [words : [Word -> Content], memory : [Word -> Memory]]

Mode == {"merge", "overwrite"}

ASSUME NoDataAssumption == NoData \notin Snapshot
ASSUME FileAssumption == File \subseteq Snapshot
ASSUME BoundAssumption == SeedSize \in Nat /\ MaxChanges \in Nat

\* Some words in some order.
Selection == {ids \in UNION {[1 .. n -> Word] : n \in 1 .. Cardinality(Word)} :
                IsInjective(ids)}

VARIABLES
  data,       (* the repository's words and memoryMap; NoData: not running *)
  persisted,  (* whether it is the repository that writes to the storage   *)
  stored,     (* the snapshot in the storage                               *)
  writes,     (* the snapshots of the persist calls under way              *)
  failed,     (* whether the write that ended last failed                  *)
  (* history *)
  issued,     (* the ids drawn or imported so far                          *)
  changes     (* how many changes there were                               *)

repositoryVars == <<data, persisted, stored, writes, failed, issued, changes>>

RepositoryTypeOK ==
  /\ data \in Snapshot \cup {NoData}
  /\ persisted \in BOOLEAN
  /\ stored \in Snapshot \cup {NoData}
  /\ writes \in Seq(Snapshot)
  /\ failed \in BOOLEAN
  /\ issued \in SUBSET Word
  /\ changes \in 0 .. MaxChanges

Running == data # NoData

RepositoryInit ==
  /\ data = NoData
  /\ persisted = FALSE
  /\ stored = NoData
  /\ writes = <<>>
  /\ failed = FALSE
  /\ issued = {}
  /\ changes = 0

-----------------------------------------------------------------------------
(* What is asked of a snapshot                                             *)

Has(s, w) == s # NoData /\ s.words[w] # 0

WordsOf(s) == {w \in Word : s.words[w] # 0}

\* repository.listWords with a filter lists any part of the words: which tags
\* and which text a word has is abstracted.
Listed(s, filter) == IF filter THEN SUBSET WordsOf(s) ELSE {WordsOf(s)}

-----------------------------------------------------------------------------
(* What the operations make of a snapshot                                  *)

NoWords == [words |-> [w \in Word |-> 0], memory |-> [w \in Word |-> 0]]

Created(s, w, c) ==
  [words |-> [s.words EXCEPT ![w] = c], memory |-> [s.memory EXCEPT ![w] = 1]]

\* Of the words W at once; their order plays no part in the outcome.
Updated(s, W, c) ==
  [s EXCEPT !.words = [w \in Word |-> IF w \in W THEN c[w] ELSE @[w]]]

Deleted(s, W) ==
  [words |-> [w \in Word |-> IF w \in W THEN 0 ELSE s.words[w]],
   memory |-> [w \in Word |-> IF w \in W THEN 0 ELSE s.memory[w]]]

MemoryReset(s, W) ==
  [s EXCEPT !.memory =
     [w \in Word |-> IF w \in W /\ @[w] # 0 THEN 1 ELSE @[w]]]

\* Whether there is such a word is not asked.
Graded(s, w) == [s EXCEPT !.memory[w] = 2]

\* "merge": words and memory states are added where there is none.
Merged(s, file) ==
  [words |-> [w \in Word |->
     IF s.words[w] # 0 THEN s.words[w] ELSE file.words[w]],
   memory |-> [w \in Word |->
     IF s.memory[w] # 0 THEN s.memory[w] ELSE file.memory[w]]]

Imported(s, file, mode) == IF mode = "overwrite" THEN file ELSE Merged(s, file)

-----------------------------------------------------------------------------
(* Changes: each one persists what it leaves                               *)

\* void this.persist() after each change: the snapshot is taken at the call.
Writes(steps) == IF persisted THEN writes \o steps ELSE writes

\* The repository goes through the snapshots of steps.
Change(steps, ids) ==
  /\ Running
  /\ changes < MaxChanges
  /\ data' = steps[Len(steps)]
  /\ writes' = Writes(steps)
  /\ issued' = issued \cup ids
  /\ changes' = changes + 1
  /\ UNCHANGED <<persisted, stored, failed>>

CreateWord(w, c) == w \notin issued /\ Change(<<Created(data, w, c)>>, {w})

\* The words of ids are deleted, reset, updated one after the other.
UpTo(ids, i) == {ids[j] : j \in 1 .. i}

DeleteWords(ids) ==
  Change([i \in 1 .. Len(ids) |-> Deleted(data, UpTo(ids, i))], {})

ResetMemories(ids) ==
  Change([i \in 1 .. Len(ids) |-> MemoryReset(data, UpTo(ids, i))], {})

\* Mutant: updateWord adds a word that is not there.
UpdateOrAddWords(ids, c) ==
  Change([i \in 1 .. Len(ids) |-> Updated(data, UpTo(ids, i), c)], {})

\* updateWord throws at a word that is gone (see the screens for what then
\* becomes of an update of several words).
UpdateWords(ids, c) ==
  /\ \A i \in 1 .. Len(ids) : Has(data, ids[i])
  /\ Change([i \in 1 .. Len(ids) |-> Updated(data, UpTo(ids, i), c)], {})

GradeCard(w) == Change(<<Graded(data, w)>>, {})

ImportVocabFile(file, mode) ==
  Change(<<Imported(data, file, mode)>>,
         {w \in Word : file.words[w] # 0 \/ file.memory[w] # 0})

-----------------------------------------------------------------------------
(* The storage                                                             *)

StorageUnchanged == UNCHANGED <<data, persisted, issued, changes>>

StorageWrites ==
  /\ writes # <<>>
  /\ stored' = Head(writes)
  /\ writes' = Tail(writes)
  /\ failed' = FALSE
  /\ StorageUnchanged

\* The rejection of persist is not handled: the snapshot is dropped.
WriteFails ==
  /\ writes # <<>>
  /\ writes' = Tail(writes)
  /\ failed' = TRUE
  /\ StorageUnchanged
  /\ UNCHANGED stored

-----------------------------------------------------------------------------
(* Starting and stopping                                                   *)

\* The words of the constructor, under ids drawn at this start.
Seed(S) ==
  [words |-> [w \in Word |-> IF w \in S THEN 2 ELSE 0],
   memory |-> [w \in Word |-> IF w \in S THEN 1 ELSE 0]]

Seeded(S) ==
  /\ ~Running
  /\ S \subseteq Word \ issued /\ Cardinality(S) = SeedSize
  /\ data' = Seed(S)
  /\ issued' = issued \cup S
  /\ UNCHANGED <<writes, failed, changes>>

\* hydrate: the snapshot of the storage replaces the seeded words.
Hydrate ==
  /\ ~Running
  /\ stored # NoData
  /\ data' = stored
  /\ persisted' = TRUE
  /\ UNCHANGED <<stored, writes, failed, issued, changes>>

\* Mutant: the seeded words are not written.
SeedNotWritten(S) == Seeded(S) /\ persisted' = TRUE /\ UNCHANGED stored

\* Nothing is stored, or it cannot be read or parsed: the seeded words are
\* written over it.
HydrateFromSeed(S) ==
  /\ Seeded(S)
  /\ persisted' = TRUE
  /\ stored' = Seed(S)

\* The storage cannot be written either, or there is no adapter for it: the
\* app runs on a repository that writes nothing.
StartWithoutStorage(S) == Seeded(S) /\ persisted' = FALSE /\ UNCHANGED stored

Killed ==
  /\ Running
  /\ data' = NoData
  /\ persisted' = FALSE
  /\ writes' = <<>>
  /\ failed' = FALSE
  /\ UNCHANGED <<stored, issued, changes>>

-----------------------------------------------------------------------------

Start ==
  \/ Hydrate
  \/ \E S \in SUBSET Word : HydrateFromSeed(S) \/ StartWithoutStorage(S)

\* What the screens may ask for; c: the words as they have them.
Operation ==
  \/ \E w \in Word, c \in {1, 2} : CreateWord(w, c)
  \/ \E ids \in Seq(Word) \ {<<>>} :
       \/ DeleteWords(ids)
       \/ ResetMemories(ids)
       \/ \E c \in [Word -> Content] : UpdateWords(ids, c)
  \/ \E w \in Word : GradeCard(w)
  \/ \E file \in File, mode \in Mode : ImportVocabFile(file, mode)

RepositoryNext == Start \/ Operation \/ StorageWrites \/ WriteFails \/ Killed

RepositorySpec == RepositoryInit /\ [][RepositoryNext]_repositoryVars

-----------------------------------------------------------------------------
(* Properties                                                              *)

\* Once no write is under way and the last one did not fail, the storage holds
\* what the app shows, whatever failed before: every change and every start
\* writes the whole of it (persist after each change, and in hydrate).
SettledIsStored ==
  persisted /\ writes = <<>> /\ ~failed => stored = data

Somewhere(w) ==
  \/ Has(data, w)
  \/ Has(stored, w)
  \/ \E i \in 1 .. Len(writes) : Has(writes[i], w)

\* A word that has left the repository, the storage and the writes under way
\* comes back by an import of a file that has it, and in no other way: not by
\* the update of a stale form or list, nor by a restart (updateWord, hydrate).
NoResurrection ==
  [][\A w \in issued :
       ~Somewhere(w) /\ Somewhere(w)' =>
         \E file \in File, mode \in Mode :
           file.words[w] # 0 /\ ImportVocabFile(file, mode)]_repositoryVars
=============================================================================
