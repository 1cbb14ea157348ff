-------------------------- MODULE VaultStoreProofs --------------------------
(***************************************************************************)
(* Proofs about VaultStore, for every set of accounts, names and words and *)
(* every bound of the clock.                                               *)
(***************************************************************************)
EXTENDS VaultStore, TLAPS

-----------------------------------------------------------------------------
(* The operators                                                           *)

\* Stamps compare as numbers.
LEMMA StampsAreNumbers == Stamp \subseteq Int /\ 0 \in Stamp
BY MaxClockAssumption DEF Stamp

\* What loading gives, with _ensure_user_files, is a file.
LEMMA LoadedIsFile ==
  ASSUME TypeOK, NEW u \in UserId
  PROVE  Words(u) \in File /\ Memory(u) \in File /\ Nothing \in File
BY StampsAreNumbers DEF TypeOK, Words, Memory, Nothing, File

\* Merging two files gives a file that is nowhere older than either.
LEMMA MergedBounds ==
  ASSUME NEW old \in File, NEW new \in File
  PROVE  /\ Merged(old, new) \in File
         /\ \A w \in Word : Merged(old, new)[w] >= old[w] /\ Merged(old, new)[w] >= new[w]
BY StampsAreNumbers, MaxClockAssumption DEF Merged, File, Stamp

\* A date that is missing is filled in with the clock.
LEMMA DatedIsStamp ==
  ASSUME TypeOK, NEW date \in Stamp \cup {Undated}
  PROVE  /\ Dated(date) \in Stamp
         /\ date # 0 => Dated(date) # 0
         /\ date # Undated => Dated(date) = date
BY MaxClockAssumption, UndatedAssumption DEF TypeOK, Stamp, Dated

\* What a request makes of a file is a vault. A drawn id has the date of its
\* entry, any other id that of the file.
LEMMA NormalizedIsVault ==
  ASSUME TypeOK, NEW u \in UserId, NEW file \in ImportFile, NEW id \in Draws(u, file)
  PROVE  /\ Normalized(file, id) \in Vault
         /\ Normalized(file, id).words \in File
         /\ Normalized(file, id).memory = file.memory
         /\ file.memory \in File
         /\ Range(id) \subseteq Word
         /\ \A w \in Word :
              IF w \in Range(id)
              THEN Unused(u, w) /\ file.words[w] = 0 /\ Normalized(file, id).words[w] # 0
              ELSE Normalized(file, id).words[w] = Dated(file.words[w])
<1> DEFINE Of(w) == \E e \in Unnamed(file) : id[e] = w
           The(w) == CHOOSE e \in Unnamed(file) : id[e] = w
           date(w) == IF Of(w) THEN Dated(file.unnamed[The(w)]) ELSE Dated(file.words[w])
           app == Normalized(file, id)
<1>1. file \in AppDataForImport
  BY ImportFileAssumption
<1>2. /\ file.words \in [Word -> Stamp \cup {Undated}]
      /\ file.unnamed \in [Entry -> Stamp \cup {Undated}]
      /\ file.memory \in File
  BY <1>1 DEF AppDataForImport
<1>3. /\ id \in [Unnamed(file) -> Word]
      /\ \A e \in Unnamed(file) : Unused(u, id[e]) /\ file.words[id[e]] = 0
  BY DEF Draws, Injection
<1>4. Unnamed(file) \subseteq Entry /\ \A e \in Unnamed(file) : file.unnamed[e] # 0
  BY DEF Unnamed
<1>5. \A w \in Word : Of(w) => The(w) \in Unnamed(file) /\ id[The(w)] = w
  OBVIOUS
<1>6. \A w \in Word : Of(w) <=> w \in Range(id)
  BY <1>3 DEF Range
<1>7. \A w \in Word : date(w) \in Stamp
  <2> TAKE w \in Word
  <2>1. CASE Of(w)
    <3>1. file.unnamed[The(w)] \in Stamp \cup {Undated}
      BY <2>1, <1>2, <1>4, <1>5
    <3> HIDE DEF Of, The
    <3> QED
      BY <2>1, <3>1, DatedIsStamp
  <2>2. CASE ~Of(w)
    <3>1. file.words[w] \in Stamp \cup {Undated}
      BY <1>2
    <3> HIDE DEF Of, The
    <3> QED
      BY <2>2, <3>1, DatedIsStamp
  <2> QED
    BY <2>1, <2>2
<1>8. app = [words |-> [w \in Word |-> date(w)], memory |-> file.memory]
  BY DEF Normalized
<1>9. /\ app.words = [w \in Word |-> date(w)] /\ app.memory = file.memory
      /\ app = [words |-> app.words, memory |-> app.memory]
  BY <1>8
<1>10. app.words \in File
  BY <1>7, <1>9 DEF File
<1>11. app \in Vault
  BY <1>2, <1>9, <1>10 DEF Vault
<1>12. ASSUME NEW w \in Word, w \in Range(id)
       PROVE  Unused(u, w) /\ file.words[w] = 0 /\ app.words[w] # 0
  <2>1. Of(w) /\ The(w) \in Unnamed(file) /\ id[The(w)] = w
    BY <1>5, <1>6, <1>12
  <2>2. Unused(u, w) /\ file.words[w] = 0
    BY <2>1, <1>3
  <2>3. file.unnamed[The(w)] \in Stamp \cup {Undated} /\ file.unnamed[The(w)] # 0
    BY <2>1, <1>2, <1>4
  <2>4. app.words[w] = Dated(file.unnamed[The(w)])
    BY <2>1, <1>9
  <2> HIDE DEF Of, The, app
  <2>5. app.words[w] # 0
    BY <2>3, <2>4, DatedIsStamp
  <2> QED
    BY <2>2, <2>5
<1>13. ASSUME NEW w \in Word, w \notin Range(id)
       PROVE  app.words[w] = Dated(file.words[w])
  BY <1>6, <1>9, <1>13
<1>14. Range(id) \subseteq Word
  BY <1>3 DEF Range
<1> HIDE DEF app
<1>15. \A w \in Word : IF w \in Range(id)
                       THEN Unused(u, w) /\ file.words[w] = 0 /\ app.words[w] # 0
                       ELSE app.words[w] = Dated(file.words[w])
  BY <1>12, <1>13
<1> USE DEF app
<1> QED
  BY <1>2, <1>9, <1>10, <1>11, <1>14, <1>15

\* A merge gives a vault.
LEMMA AfterMergeIsVault ==
  ASSUME TypeOK, NEW u \in UserId, NEW app \in Vault
  PROVE  /\ AfterMerge(u, app) \in Vault
         /\ AfterMerge(u, app).words = Merged(Words(u), app.words)
         /\ AfterMerge(u, app).memory = Merged(Memory(u), app.memory)
         /\ AfterMerge(u, app).words \in File
         /\ AfterMerge(u, app).memory \in File
BY LoadedIsFile, MergedBounds DEF AfterMerge, MergedMemory, Vault

\* What is saved is what is loaded next, and other vaults stay.
LEMMA SavedIsLoaded ==
  ASSUME TypeOK, NEW u \in UserId, NEW w \in File, NEW m \in File, Saved(u, w, m)
  PROVE  /\ words' \in [UserId -> File \cup {NoFile}]
         /\ memory' \in [UserId -> File \cup {NoFile}]
         /\ Words(u)' = w /\ Memory(u)' = m
         /\ words'[u] = w /\ memory'[u] = m
         /\ \A v \in UserId \ {u} :
              /\ words'[v] = words[v] /\ memory'[v] = memory[v]
              /\ Words(v)' = Words(v) /\ Memory(v)' = Memory(v)
BY NoFileAssumption DEF TypeOK, Saved, Words, Memory

-----------------------------------------------------------------------------
(* What the steps have in common                                           *)

\* A request of an account that exists: both files are saved, and nothing
\* changes of anybody else.
Served(u) ==
  /\ Authorized(u)
  /\ \E w \in File, m \in File : Saved(u, w, m)
  /\ AccountsUnchanged
  /\ \E p \in File : promised' = [promised EXCEPT ![u] = p]
  /\ torn' \in {NoImport} \cup TornMerge

LEMMA RequestIsServed ==
  ASSUME TypeOK, NEW u \in UserId,
         WholeVault(u) \/ \E w \in Word : OneWord(u, w)
  PROVE  Served(u)
<1> DEFINE W == Words(u)
           M == Memory(u)
<1>1. W \in File /\ M \in File /\ Nothing \in File /\ promised[u] \in File
  BY LoadedIsFile DEF TypeOK
<1>2. promised = [promised EXCEPT ![u] = promised[u]]
  BY DEF TypeOK
<1>3. clock \in Stamp /\ 0 \in Stamp
  BY MaxClockAssumption DEF TypeOK, Stamp
<1>4. \A f \in File, w \in Word, t \in Stamp : [f EXCEPT ![w] = t] \in File
  BY DEF File
<1>5. \A w \in Word, t \in Stamp : Promise(u, w, t) =>
        \E p \in File : promised' = [promised EXCEPT ![u] = p]
  <2> SUFFICES ASSUME NEW w \in Word, NEW t \in Stamp, Promise(u, w, t)
               PROVE  \E p \in File : promised' = [promised EXCEPT ![u] = p]
    OBVIOUS
  <2>1. [promised[u] EXCEPT ![w] = t] \in File
    BY <1>1, <1>4
  <2>2. promised' = [promised EXCEPT ![u] = [promised[u] EXCEPT ![w] = t]]
    BY DEF Promise
  <2> QED
    BY <2>1, <2>2
<1>6. CASE Open(u)
  BY <1>6, <1>1, <1>2 DEF Open, Served, TypeOK
<1>7. ASSUME NEW app \in Vault, Overwrite(u, app) \/ OverwriteDies(u, app) PROVE Served(u)
  BY <1>7, <1>1 DEF Vault, Overwrite, OverwriteDies, Served
<1>8. ASSUME NEW file \in ImportFile, NEW id \in Draws(u, file),
             Merge(u, file, id) \/ MergeDies(u, file, id)
      PROVE  Served(u)
  <2> DEFINE app == Normalized(file, id)
             p == [w \in Word |-> IF app.words[w] > promised[u][w]
                                  THEN app.words[w] ELSE promised[u][w]]
  <2>1. app \in Vault /\ app.words \in File /\ Range(id) \subseteq Word
        /\ file \in AppDataForImport
    BY NormalizedIsVault, ImportFileAssumption
  <2>2. AfterMerge(u, app) \in Vault /\ AfterMerge(u, app).words \in File
        /\ AfterMerge(u, app).memory \in File
    BY <2>1, AfterMergeIsVault
  <2>3. \A done \in BOOLEAN : torn \in TornMerge => Retried(id, done) \in TornMerge
    BY <2>1 DEF Retried, TornMerge
  <2>4. p \in File
    BY <1>1, <2>1 DEF File
  <2>5. Authorized(u) /\ AccountsUnchanged
        /\ \E m \in File : Saved(u, AfterMerge(u, app).words, m)
    BY <1>1, <1>8, <2>2 DEF Merge, MergeDies
  <2>6. promised' = [promised EXCEPT ![u] = p] \/ promised' = promised
    BY <1>8 DEF Merge, MergeDies
  <2>7. torn' \in {NoImport} \cup TornMerge
    <3>1. \A w \in Vault : [user |-> u, file |-> file, want |-> w,
                            again |-> {}, done |-> FALSE] \in TornMerge
      BY <2>1 DEF TornMerge
    <3>2. \/ torn' = NoImport
          \/ IsRetry(u, file) /\ \E done \in BOOLEAN : torn' = Retried(id, done)
          \/ torn' = [user |-> u, file |-> file, want |-> AfterMerge(u, app),
                      again |-> {}, done |-> FALSE]
      BY <1>8 DEF Merge, MergeDies
    <3>3. IsRetry(u, file) => torn \in TornMerge
      BY DEF IsRetry, TypeOK
    <3> HIDE DEF app, p
    <3> QED
      BY <2>2, <2>3, <3>1, <3>2, <3>3
  <2> HIDE DEF app, p
  <2>8. \E q \in File : promised' = [promised EXCEPT ![u] = q]
    BY <1>1, <1>2, <2>4, <2>6
  <2> QED
    BY <2>2, <2>5, <2>7, <2>8 DEF Served
<1>9. ASSUME NEW file \in ImportFile, NEW id \in Draws(u, file)
      PROVE  Normalized(file, id) \in Vault
  BY NormalizedIsVault
<1>10. ASSUME NEW w \in Word, CreateWord(u, w) \/ UpdateWord(u, w) PROVE Served(u)
  <2>1. /\ Authorized(u) /\ AccountsUnchanged /\ torn' = NoImport
        /\ Saved(u, [W EXCEPT ![w] = clock], M) /\ Promise(u, w, clock)
    BY <1>10 DEF CreateWord, UpdateWord
  <2> HIDE DEF W, M
  <2> QED
    BY <2>1, <1>1, <1>3, <1>4, <1>5 DEF Served
<1>11. ASSUME NEW w \in Word, DeleteWord(u, w) \/ DeleteWordDies(u, w) PROVE Served(u)
  <2>1. PICK m \in {M, [M EXCEPT ![w] = 0]} : RemoveWord(u, w, m)
    BY <1>11 DEF DeleteWord, DeleteWordDies
  <2>2. /\ Authorized(u) /\ AccountsUnchanged /\ torn' = NoImport
        /\ Saved(u, [W EXCEPT ![w] = 0], m) /\ Promise(u, w, 0)
    BY <2>1 DEF RemoveWord
  <2>3. m \in File
    BY <1>1, <1>3, <1>4
  <2> HIDE DEF W, M
  <2> QED
    BY <2>2, <2>3, <1>1, <1>3, <1>4, <1>5 DEF Served
<1>12. ASSUME NEW w \in Word, GradeCard(u, w) \/ ResetMemory(u, w) PROVE Served(u)
  <2>1. clock .. MaxClock \subseteq Stamp
    BY MaxClockAssumption DEF TypeOK, Stamp
  <2>2. PICK due \in Stamp : SetMemory(u, w, due)
    BY <1>12, <1>3, <2>1 DEF GradeCard, ResetMemory
  <2>3. /\ Authorized(u) /\ AccountsUnchanged /\ torn' = NoImport
        /\ Saved(u, W, [M EXCEPT ![w] = due]) /\ promised' = promised
    BY <2>2 DEF SetMemory
  <2> HIDE DEF W, M
  <2> QED
    BY <2>3, <1>1, <1>2, <1>4 DEF Served
<1> QED
  BY <1>6, <1>7, <1>8, <1>9, <1>10, <1>11, <1>12 DEF WholeVault, OneWord

\* A registration, finished or not, creates files of the new account only.
LEMMA RegistrationCreates ==
  ASSUME TypeOK, NEW u \in UserId, NEW n \in Username,
         Register(u, n) \/ RegisterDies(u, n)
  PROVE  /\ NewAccount(u, n)
         /\ words' \in [UserId -> File \cup {NoFile}]
         /\ memory' \in [UserId -> File \cup {NoFile}]
         /\ words'[u] \in {words[u], Words(u)}
         /\ memory'[u] \in {memory[u], Memory(u)}
         /\ memory'[u] # memory[u] => words'[u] # NoFile
         /\ \A v \in UserId : Words(v)' = Words(v) /\ Memory(v)' = Memory(v)
         /\ \A v \in UserId \ {u} : words'[v] = words[v] /\ memory'[v] = memory[v]
<1>1. Words(u) \in File /\ Memory(u) \in File
  BY LoadedIsFile
<1>2. CASE Register(u, n)
  <2>1. NewAccount(u, n) /\ Saved(u, Words(u), Memory(u))
    BY <1>2 DEF Register
  <2> QED
    BY <2>1, <1>1, SavedIsLoaded, NoFileAssumption
<1>3. CASE RegisterDies(u, n)
  <2>1. NewAccount(u, n)
    BY <1>3 DEF RegisterDies
  <2>2. CASE UNCHANGED <<words, memory>>
    BY <2>1, <2>2 DEF TypeOK, Words, Memory
  <2>3. CASE Saved(u, Words(u), memory[u])
    BY <2>1, <2>3, <1>1, NoFileAssumption DEF Saved, TypeOK, Words, Memory
  <2> QED
    BY <2>2, <2>3, <1>3 DEF RegisterDies, WordsCreatedFirst
<1> QED
  BY <1>2, <1>3

\* The removal of an account touches its own files only, and forgets what was
\* promised about them.
LEMMA RemovalRemoves ==
  ASSUME TypeOK, NEW u \in UserId, DeleteUser(u) \/ DeleteUserFails(u)
  PROVE  /\ RemoveAccount(u)
         /\ words' \in [UserId -> File \cup {NoFile}]
         /\ memory' \in [UserId -> File \cup {NoFile}]
         /\ \A v \in UserId \ {u} : words'[v] = words[v] /\ memory'[v] = memory[v]
         /\ \/ deleted' = deleted
            \/ deleted' = deleted \cup {u} /\ words'[u] = NoFile /\ memory'[u] = NoFile
<1>1. PICK w \in {words[u], NoFile}, m \in {memory[u], NoFile} : Saved(u, w, m)
  BY DEF DeleteUser, DeleteUserFails
<1>2. words[u] \in File \cup {NoFile} /\ memory[u] \in File \cup {NoFile}
  BY DEF TypeOK
<1>3. CASE DeleteUser(u)
  BY <1>3 DEF DeleteUser, TypeOK, Saved
<1>4. CASE DeleteUserFails(u)
  BY <1>1, <1>2, <1>4 DEF DeleteUserFails, TypeOK, Saved
<1> QED
  BY <1>3, <1>4

-----------------------------------------------------------------------------
(* Types                                                                   *)

\* An id that was never drawn has no account and no directory.
UndrawnIsUnused ==
  \A u \in UserId \ issued :
    account[u] = Nobody /\ words[u] = NoFile /\ memory[u] = NoFile

\* The types are inductive with that only: a registration that dies keeps the
\* files its directory already had.
TInv == TypeOK /\ UndrawnIsUnused

LEMMA TypeInit == Init => TInv
<1>1. Nothing \in File
  BY StampsAreNumbers DEF Nothing, File
<1> QED
  BY <1>1, MaxClockAssumption DEF Init, TInv, TypeOK, UndrawnIsUnused

LEMMA TypeStep == TInv /\ [Next]_vars => TInv'
<1> SUFFICES ASSUME TypeOK, UndrawnIsUnused, [Next]_vars
             PROVE  TInv'
  BY DEF TInv
<1>1. CASE UNCHANGED vars
  BY <1>1 DEF vars, TInv, TypeOK, UndrawnIsUnused
<1>2. CASE Tick
  BY <1>2, MaxClockAssumption DEF Tick, TInv, TypeOK, UndrawnIsUnused
<1>3. ASSUME NEW u \in UserId, WholeVault(u) \/ \E w \in Word : OneWord(u, w)
      PROVE  TInv'
  <2>1. Served(u)
    BY <1>3, RequestIsServed
  <2>2. PICK w \in File, m \in File : Saved(u, w, m)
    BY <2>1 DEF Served
  <2>3. /\ words' \in [UserId -> File \cup {NoFile}]
        /\ memory' \in [UserId -> File \cup {NoFile}]
        /\ words'[u] = w
        /\ \A v \in UserId \ {u} : words'[v] = words[v] /\ memory'[v] = memory[v]
    BY <2>2, SavedIsLoaded
  <2>4. UNCHANGED <<account, clock, issued, deleted>>
    BY <2>1 DEF Served, AccountsUnchanged
  <2>5. \A v \in UserId : account'[v] # Nobody /\ words'[v] = NoFile => memory'[v] = NoFile
    BY <2>3, <2>4, NoFileAssumption DEF TypeOK
  <2>6. promised' \in [UserId -> File] /\ torn' \in {NoImport} \cup TornMerge
    BY <2>1 DEF Served, TypeOK
  <2>7. u \in issued
    BY <2>1 DEF Served, Authorized, UndrawnIsUnused
  <2>8. UndrawnIsUnused'
    BY <2>3, <2>4, <2>7 DEF UndrawnIsUnused
  <2> QED
    BY <2>3, <2>4, <2>5, <2>6, <2>8 DEF TInv, TypeOK
<1>4. ASSUME NEW u \in UserId, NEW n \in Username, Register(u, n) \/ RegisterDies(u, n)
      PROVE  TInv'
  <2>1. NewAccount(u, n)
    BY <1>4, RegistrationCreates
  <2>2. u \notin issued /\ words[u] = NoFile /\ memory[u] = NoFile
    BY <2>1 DEF NewAccount, Drawn, UndrawnIsUnused
  <2>3. /\ words' \in [UserId -> File \cup {NoFile}]
        /\ memory' \in [UserId -> File \cup {NoFile}]
        /\ words'[u] = NoFile => memory'[u] = NoFile
        /\ \A v \in UserId \ {u} : words'[v] = words[v] /\ memory'[v] = memory[v]
    BY <1>4, <2>2, RegistrationCreates
  <2>4. /\ account' = [account EXCEPT ![u] = n]
        /\ issued' = issued \cup {u}
        /\ UNCHANGED <<clock, deleted, promised, torn>>
    BY <2>1 DEF NewAccount
  <2>5. \A v \in UserId : account'[v] # Nobody /\ words'[v] = NoFile => memory'[v] = NoFile
    BY <2>3, <2>4 DEF TypeOK
  <2>6. UndrawnIsUnused'
    BY <2>3, <2>4 DEF UndrawnIsUnused, TypeOK
  <2> QED
    BY <2>3, <2>4, <2>5, <2>6 DEF TInv, TypeOK
<1>5. ASSUME NEW u \in UserId, DeleteUser(u) \/ DeleteUserFails(u)
      PROVE  TInv'
  <2>1. /\ RemoveAccount(u)
        /\ words' \in [UserId -> File \cup {NoFile}]
        /\ memory' \in [UserId -> File \cup {NoFile}]
        /\ \A v \in UserId \ {u} : words'[v] = words[v] /\ memory'[v] = memory[v]
        /\ deleted' \in {deleted, deleted \cup {u}}
    BY <1>5, RemovalRemoves
  <2>2. /\ account' = [account EXCEPT ![u] = Nobody]
        /\ promised' = [promised EXCEPT ![u] = Nothing]
        /\ torn' = NoImport
        /\ UNCHANGED <<clock, issued>>
        /\ u \in issued
    BY <2>1 DEF RemoveAccount, Authorized, UndrawnIsUnused
  <2>3. Nothing \in File
    BY LoadedIsFile
  <2>4. UndrawnIsUnused'
    BY <2>1, <2>2 DEF UndrawnIsUnused, TypeOK
  <2> QED
    BY <2>1, <2>2, <2>3, <2>4 DEF TInv, TypeOK
<1> QED
  BY <1>1, <1>2, <1>3, <1>4, <1>5 DEF Next, Account

\* What the theorems below rest on.
LEMMA TInvHolds == Spec => []TInv
BY TypeInit, TypeStep, PTL DEF Spec

\* Every file, account and history variable keeps its type, whatever requests
\* come and wherever the process dies; memory.json is never without words.json.
THEOREM TypeCorrect == Spec => []TypeOK
<1>1. TInv => TypeOK
  BY DEF TInv
<1> QED
  BY <1>1, TInvHolds, PTL

-----------------------------------------------------------------------------
(* Accounts and their directories                                          *)

\* A deleted account has no username any more: what it needs to be inductive.
DInv == DeletedStaysDeleted /\ \A u \in deleted : account[u] = Nobody

LEMMA DeletedStep == TInv /\ TInv' /\ DInv /\ [Next]_vars => DInv'
<1> SUFFICES ASSUME TypeOK, TypeOK', UndrawnIsUnused, DInv, [Next]_vars
             PROVE  DInv'
  BY DEF TInv
<1> USE DEF DInv, DeletedStaysDeleted
<1>1. CASE UNCHANGED vars
  BY <1>1 DEF vars
<1>2. CASE Tick
  BY <1>2 DEF Tick
<1>3. ASSUME NEW u \in UserId, WholeVault(u) \/ \E w \in Word : OneWord(u, w)
      PROVE  DInv'
  <2>1. Served(u)
    BY <1>3, RequestIsServed
  <2>2. u \notin deleted
    BY <2>1 DEF Served, Authorized
  <2>3. \A v \in UserId \ {u} : words'[v] = words[v] /\ memory'[v] = memory[v]
    BY <2>1, SavedIsLoaded DEF Served
  <2>4. UNCHANGED <<account, deleted>>
    BY <2>1 DEF Served, AccountsUnchanged
  <2> QED
    BY <2>2, <2>3, <2>4 DEF TypeOK
<1>4. ASSUME NEW u \in UserId, NEW n \in Username, Register(u, n) \/ RegisterDies(u, n)
      PROVE  DInv'
  <2>1. /\ u \notin issued /\ deleted' = deleted
        /\ account' = [account EXCEPT ![u] = n]
        /\ \A v \in UserId \ {u} : words'[v] = words[v] /\ memory'[v] = memory[v]
    BY <1>4, RegistrationCreates DEF NewAccount, Drawn
  <2>2. u \notin deleted
    BY <2>1 DEF TypeOK
  <2> QED
    BY <2>1, <2>2 DEF TypeOK
<1>5. ASSUME NEW u \in UserId, DeleteUser(u) \/ DeleteUserFails(u)
      PROVE  DInv'
  <2>1. /\ RemoveAccount(u)
        /\ \A v \in UserId \ {u} : words'[v] = words[v] /\ memory'[v] = memory[v]
        /\ \/ deleted' = deleted
           \/ deleted' = deleted \cup {u} /\ words'[u] = NoFile /\ memory'[u] = NoFile
    BY <1>5, RemovalRemoves
  <2>2. account[u] # Nobody /\ account' = [account EXCEPT ![u] = Nobody]
    BY <2>1 DEF RemoveAccount, Authorized
  <2> QED
    BY <2>1, <2>2 DEF TypeOK
<1> QED
  BY <1>1, <1>2, <1>3, <1>4, <1>5 DEF Next, Account

\* A deleted account's directory never comes back, for any accounts and words.
THEOREM DeletedAccountsStayDeleted == Spec => []DeletedStaysDeleted
<1>1. Init => DInv
  BY DEF Init, DInv, DeletedStaysDeleted
<1>2. DInv => DeletedStaysDeleted
  BY DEF DInv
<1> QED
  BY <1>1, <1>2, TInvHolds, DeletedStep, PTL DEF Spec

\* An account starts with an empty vault, whatever deletions left behind.
THEOREM NewAccountsAreEmpty == Spec => NewAccountStartsEmpty
<1> DEFINE Step == \A u \in UserId :
       account[u] = Nobody /\ account'[u] # Nobody =>
         /\ words'[u] \in {NoFile, Nothing}
         /\ memory'[u] \in {NoFile, Nothing}
<1>1. TInv /\ [Next]_vars => [Step]_vars
  <2> SUFFICES ASSUME TypeOK, UndrawnIsUnused, Next, NEW v \in UserId,
                      account[v] = Nobody, account'[v] # Nobody
               PROVE  words'[v] \in {NoFile, Nothing} /\ memory'[v] \in {NoFile, Nothing}
    BY DEF TInv
  <2>1. ASSUME NEW u \in UserId, NEW n \in Username, Register(u, n) \/ RegisterDies(u, n)
        PROVE  words'[v] \in {NoFile, Nothing} /\ memory'[v] \in {NoFile, Nothing}
    <3>1. /\ u \notin issued /\ account' = [account EXCEPT ![u] = n]
          /\ words'[u] \in {words[u], Words(u)} /\ memory'[u] \in {memory[u], Memory(u)}
      BY <2>1, RegistrationCreates DEF NewAccount, Drawn
    <3>2. u = v
      BY <3>1 DEF TypeOK
    <3>3. words[u] = NoFile /\ memory[u] = NoFile
      BY <3>1 DEF UndrawnIsUnused
    <3> QED
      BY <3>1, <3>2, <3>3 DEF Words, Memory
  <2>2. ASSUME NEW u \in UserId, WholeVault(u) \/ \E w \in Word : OneWord(u, w)
        PROVE  FALSE
    BY <2>2, RequestIsServed DEF Served, AccountsUnchanged
  <2>3. ASSUME NEW u \in UserId, DeleteUser(u) \/ DeleteUserFails(u)
        PROVE  FALSE
    <3>1. account' = [account EXCEPT ![u] = Nobody]
      BY <2>3, RemovalRemoves DEF RemoveAccount
    <3> QED
      BY <3>1 DEF TypeOK
  <2>4. ~Tick
    BY DEF Tick
  <2> QED
    BY <2>1, <2>2, <2>3, <2>4 DEF Next, Account
<1> QED
  BY <1>1, TInvHolds, PTL DEF Spec, NewAccountStartsEmpty

-----------------------------------------------------------------------------
(* What was answered is kept                                               *)

\* The part of the invariant about one account.
KeptOf(u) == \A w \in Word : Words(u)[w] >= promised[u][w]

\* A promise about one word is kept if the word was saved with its stamp.
LEMMA OneWordKept ==
  ASSUME TypeOK, NEW u \in UserId, NEW w \in Word, NEW t \in Stamp, NEW m \in File,
         KeptOf(u), Saved(u, [Words(u) EXCEPT ![w] = t], m), Promise(u, w, t)
  PROVE  KeptOf(u)'
<1>1. Words(u) \in File /\ promised[u] \in File
  BY LoadedIsFile DEF TypeOK
<1>2. [Words(u) EXCEPT ![w] = t] \in File
  BY <1>1 DEF File
<1>3. Words(u)' = [Words(u) EXCEPT ![w] = t]
  BY <1>2, SavedIsLoaded
<1>4. promised'[u] = [promised[u] EXCEPT ![w] = t]
  BY DEF Promise, TypeOK
<1>5. t >= t
  BY StampsAreNumbers
<1> QED
  BY <1>1, <1>3, <1>4, <1>5 DEF KeptOf, File

LEMMA KeptStep == TInv /\ AnsweredWordsSurvive /\ [Next]_vars => AnsweredWordsSurvive'
<1> SUFFICES ASSUME TypeOK, \A v \in UserId : KeptOf(v), [Next]_vars, NEW v \in UserId
             PROVE  KeptOf(v)'
  BY DEF TInv, AnsweredWordsSurvive, KeptOf
<1>1. CASE UNCHANGED vars
  BY <1>1 DEF vars, KeptOf, Words
<1>2. CASE Tick
  BY <1>2 DEF Tick, KeptOf, Words
<1>3. ASSUME NEW u \in UserId, WholeVault(u) \/ \E w \in Word : OneWord(u, w)
      PROVE  KeptOf(v)'
  <2>1. CASE u # v
    <3>1. Words(v)' = Words(v) /\ promised'[v] = promised[v]
      BY <1>3, <2>1, RequestIsServed, SavedIsLoaded DEF Served, TypeOK
    <3> QED
      BY <3>1 DEF KeptOf
  <2>2. CASE u = v
    <3> USE <2>2
    <3>1. Words(u) \in File /\ Memory(u) \in File /\ promised[u] \in File
      BY LoadedIsFile DEF TypeOK
    <3>2. KeptOf(u) /\ clock \in Stamp /\ 0 \in Stamp
      BY MaxClockAssumption DEF TypeOK, Stamp
    <3>3. CASE Open(u)
      BY <3>1, <3>2, <3>3, SavedIsLoaded DEF Open, KeptOf
    <3>4. ASSUME NEW app \in Vault, Overwrite(u, app) PROVE KeptOf(u)'
      <4>1. app.words \in File /\ app.memory \in File
        BY DEF Vault
      <4>2. Words(u)' = app.words /\ promised'[u] = app.words
        BY <3>4, <4>1, SavedIsLoaded DEF Overwrite, TypeOK
      <4> QED
        BY <4>1, <4>2, MaxClockAssumption DEF KeptOf, File, Stamp
    <3>5. ASSUME NEW app \in Vault, OverwriteDies(u, app) PROVE KeptOf(u)'
      <4>1. app.words \in File
        BY DEF Vault
      <4>2. Words(u)' = app.words /\ promised'[u] = Nothing
        BY <3>5, <3>1, <4>1, SavedIsLoaded DEF OverwriteDies, TypeOK
      <4> QED
        BY <4>1, <4>2, MaxClockAssumption DEF KeptOf, File, Nothing, Stamp
    <3>6. ASSUME NEW file \in ImportFile, NEW id \in Draws(u, file), Merge(u, file, id)
          PROVE  KeptOf(u)'
      <4> DEFINE app == Normalized(file, id)
      <4>1. app \in Vault /\ app.words \in File /\ Saved(u, AfterMerge(u, app).words, AfterMerge(u, app).memory)
        BY <3>6, NormalizedIsVault DEF Merge
      <4>2. Words(u)' = Merged(Words(u), app.words)
        BY <4>1, AfterMergeIsVault, SavedIsLoaded
      <4>3. promised'[u] = [w \in Word |-> IF app.words[w] > promised[u][w]
                                          THEN app.words[w] ELSE promised[u][w]]
        BY <3>6 DEF Merge, TypeOK
      <4>4. \A w \in Word : /\ Merged(Words(u), app.words)[w] >= Words(u)[w]
                            /\ Merged(Words(u), app.words)[w] >= app.words[w]
                            /\ Merged(Words(u), app.words)[w] \in Stamp
        BY <3>1, <4>1, MergedBounds DEF File
      <4>5. \A w \in Word : /\ Words(u)[w] \in Stamp /\ app.words[w] \in Stamp
                            /\ promised[u][w] \in Stamp
                            /\ Words(u)[w] >= promised[u][w]
        BY <3>1, <3>2, <4>1 DEF File, KeptOf
      <4> QED
        BY <4>2, <4>3, <4>4, <4>5, MaxClockAssumption DEF KeptOf, Stamp
    <3>7. ASSUME NEW file \in ImportFile, NEW id \in Draws(u, file), MergeDies(u, file, id)
          PROVE  KeptOf(u)'
      <4> DEFINE app == Normalized(file, id)
      <4>1. app \in Vault /\ app.words \in File /\ Saved(u, AfterMerge(u, app).words, Memory(u))
        BY <3>7, NormalizedIsVault DEF MergeDies
      <4>2. Words(u)' = Merged(Words(u), app.words) /\ promised' = promised
        BY <3>1, <3>7, <4>1, AfterMergeIsVault, SavedIsLoaded DEF MergeDies
      <4>3. \A w \in Word : /\ Merged(Words(u), app.words)[w] >= Words(u)[w]
                            /\ Merged(Words(u), app.words)[w] \in Stamp
        BY <3>1, <4>1, MergedBounds DEF File
      <4>4. \A w \in Word : /\ Words(u)[w] \in Stamp /\ promised[u][w] \in Stamp
                            /\ Words(u)[w] >= promised[u][w]
        BY <3>1, <3>2 DEF File, KeptOf
      <4> QED
        BY <4>2, <4>3, <4>4, MaxClockAssumption DEF KeptOf, Stamp
    <3>8. ASSUME NEW w \in Word, CreateWord(u, w) \/ UpdateWord(u, w) PROVE KeptOf(u)'
      BY <3>1, <3>2, <3>8, OneWordKept DEF CreateWord, UpdateWord
    <3>9. ASSUME NEW w \in Word, DeleteWord(u, w) \/ DeleteWordDies(u, w) PROVE KeptOf(u)'
      <4>1. [Memory(u) EXCEPT ![w] = 0] \in File
        BY <3>1, <3>2 DEF File
      <4> QED
        BY <3>1, <3>2, <3>9, <4>1, OneWordKept DEF DeleteWord, DeleteWordDies, RemoveWord
    <3>10. ASSUME NEW w \in Word, GradeCard(u, w) \/ ResetMemory(u, w) PROVE KeptOf(u)'
      <4>1. clock .. MaxClock \subseteq Stamp
        BY MaxClockAssumption DEF TypeOK, Stamp
      <4>2. PICK due \in Stamp : SetMemory(u, w, due)
        BY <3>2, <3>10, <4>1 DEF GradeCard, ResetMemory
      <4>3. [Memory(u) EXCEPT ![w] = due] \in File
        BY <3>1 DEF File
      <4>4. Words(u)' = Words(u) /\ promised' = promised
        BY <3>1, <4>2, <4>3, SavedIsLoaded DEF SetMemory
      <4> QED
        BY <3>2, <4>4 DEF KeptOf
    <3>11. \A file \in ImportFile : \A id \in Draws(u, file) : Normalized(file, id) \in Vault
      BY NormalizedIsVault
    <3> QED
      BY <1>3, <3>3, <3>4, <3>5, <3>6, <3>7, <3>8, <3>9, <3>10, <3>11 DEF WholeVault, OneWord
  <2> QED
    BY <2>1, <2>2
<1>4. ASSUME NEW u \in UserId, NEW n \in Username, Register(u, n) \/ RegisterDies(u, n)
      PROVE  KeptOf(v)'
  <2>1. Words(v)' = Words(v) /\ promised' = promised
    BY <1>4, RegistrationCreates DEF NewAccount
  <2> QED
    BY <2>1 DEF KeptOf
<1>5. ASSUME NEW u \in UserId, DeleteUser(u) \/ DeleteUserFails(u)
      PROVE  KeptOf(v)'
  <2>1. /\ promised' = [promised EXCEPT ![u] = Nothing]
        /\ words' \in [UserId -> File \cup {NoFile}]
        /\ \A x \in UserId \ {u} : words'[x] = words[x]
    BY <1>5, RemovalRemoves DEF RemoveAccount
  <2>2. CASE u # v
    BY <2>1, <2>2 DEF KeptOf, Words, TypeOK
  <2>3. CASE u = v
    <3>1. promised'[v] = Nothing /\ Words(v)' \in File
      BY <2>1, <2>3, LoadedIsFile DEF TypeOK, Words
    <3> QED
      BY <3>1, MaxClockAssumption DEF KeptOf, File, Nothing, Stamp
  <2> QED
    BY <2>2, <2>3
<1> QED
  BY <1>1, <1>2, <1>3, <1>4, <1>5 DEF Next, Account

\* No answered creation, update or import is undone by anything but a deletion
\* or an overwriting import, however requests die and old files are merged.
THEOREM AnsweredWordsAreKept == Spec => []AnsweredWordsSurvive
<1>1. Init => AnsweredWordsSurvive
  BY DEF Init, AnsweredWordsSurvive, Words, Nothing
<1> QED
  BY <1>1, TInvHolds, KeptStep, PTL DEF Spec

-----------------------------------------------------------------------------
(* Interrupted merges                                                      *)

\* What an interrupted merge and its retries have made of one word so far.
WordAsGood(w) ==
  LET got == Words(torn.user)[w]
      want == torn.want.words[w]
      sent == torn.file.words[w]
  IN  /\ w \in torn.again => got # 0 /\ want = 0
      /\ w \notin torn.again => IF sent = Undated THEN got >= want ELSE got = want
      /\ w \notin torn.again /\ sent # Undated => want >= sent

\* Until the retry, sending the file again leaves what it would have left.
RetryIsAsGood ==
  torn # NoImport =>
    /\ \A w \in Word : WordAsGood(w)
    /\ IF torn.done THEN Memory(torn.user) = torn.want.memory
       ELSE Merged(Memory(torn.user), torn.file.memory) = torn.want.memory

\* It is about the files of that account only.
LEMMA RetryNeedsFilesOnly ==
  ASSUME TypeOK, RetryIsAsGood, torn' = torn,
         \A v \in UserId : Words(v)' = Words(v) /\ Memory(v)' = Memory(v)
  PROVE  RetryIsAsGood'
<1>1. CASE torn = NoImport
  BY <1>1 DEF RetryIsAsGood
<1>2. CASE torn # NoImport
  <2>1. torn.user \in UserId /\ torn.done \in BOOLEAN
    BY <1>2 DEF TypeOK, TornMerge
  <2>2. Words(torn.user)' = Words(torn.user) /\ Memory(torn.user)' = Memory(torn.user)
    BY <2>1
  <2> QED
    BY <1>2, <2>1, <2>2 DEF RetryIsAsGood, WordAsGood
<1> QED
  BY <1>1, <1>2

\* A retry leaves every word as good as it was: one that the file names is
\* there already, and what it adds anew is a copy.
LEMMA RetryKeepsWords ==
  ASSUME TypeOK, RetryIsAsGood, NEW u \in UserId, NEW file \in ImportFile,
         NEW id \in Draws(u, file), IsRetry(u, file), NEW done \in BOOLEAN,
         torn' = Retried(id, done),
         Words(u)' = Merged(Words(u), Normalized(file, id).words)
  PROVE  \A w \in Word : WordAsGood(w)'
<1> DEFINE app == Normalized(file, id)
<1>1. /\ torn # NoImport /\ torn \in TornMerge /\ torn.user = u /\ torn.file = file
      /\ file \in AppDataForImport
  BY ImportFileAssumption DEF IsRetry, TypeOK
<1>2. /\ torn'.user = u /\ torn'.file = file /\ torn'.want = torn.want
      /\ torn'.again = torn.again \cup Range(id)
  BY <1>1 DEF Retried, TornMerge
<1> SUFFICES ASSUME NEW w \in Word PROVE WordAsGood(w)'
  OBVIOUS
<1> DEFINE got == Words(u)[w]
           want == torn.want.words[w]
           sent == file.words[w]
           new == app.words[w]
           left == Words(u)'[w]
<1>3. /\ got \in Stamp /\ want \in Stamp /\ new \in Stamp
      /\ sent \in Stamp \cup {Undated}
  BY <1>1, LoadedIsFile, NormalizedIsVault DEF File, TornMerge, Vault, AppDataForImport
<1>4. /\ w \in torn.again => got # 0 /\ want = 0
      /\ w \notin torn.again => IF sent = Undated THEN got >= want ELSE got = want
      /\ w \notin torn.again /\ sent # Undated => want >= sent
  BY <1>1 DEF RetryIsAsGood, WordAsGood
<1>5. left = IF new # 0 /\ (got = 0 \/ new >= got) THEN new ELSE got
  BY DEF Merged
<1>6. IF w \in Range(id) THEN got = 0 /\ sent = 0 /\ new # 0
                         ELSE new = Dated(sent)
  BY NormalizedIsVault DEF Unused
<1>7. sent # Undated => Dated(sent) = sent
  BY <1>3, DatedIsStamp
<1>8. Undated # 0
  BY UndatedAssumption, StampsAreNumbers
<1>9. /\ w \in torn'.again => left # 0 /\ want = 0
      /\ w \notin torn'.again => IF sent = Undated THEN left >= want ELSE left = want
      /\ w \notin torn'.again /\ sent # Undated => want >= sent
  <2> HIDE DEF got, want, sent, new, left
  <2>1. got \in 0 .. MaxClock /\ want \in 0 .. MaxClock /\ new \in 0 .. MaxClock
    BY <1>3 DEF Stamp
  <2>2. CASE w \in Range(id)
    BY <2>1, <2>2, <1>2, <1>4, <1>5, <1>6, <1>8
  <2>3. CASE w \notin Range(id) /\ w \in torn.again
    BY <2>1, <2>3, <1>2, <1>4, <1>5
  <2>4. CASE w \notin Range(id) /\ w \notin torn.again /\ sent = Undated
    BY <2>1, <2>4, <1>2, <1>4, <1>5, MaxClockAssumption
  <2>5. CASE w \notin Range(id) /\ w \notin torn.again /\ sent # Undated
    <3>1. new = sent /\ got = want /\ want >= sent
      BY <2>5, <1>4, <1>6, <1>7
    <3>2. left = want
      BY <3>1, <2>1, <1>5, MaxClockAssumption
    <3> QED
      BY <2>5, <3>1, <3>2, <1>2
  <2> QED
    BY <2>2, <2>3, <2>4, <2>5
<1> QED
  BY <1>2, <1>9 DEF WordAsGood

\* A merge that dies for the first time has written the words it wants.
LEMMA DeathKeepsWords ==
  ASSUME TypeOK, NEW u \in UserId, NEW file \in ImportFile, NEW id \in Draws(u, file),
         torn' = [user |-> u, file |-> file, want |-> AfterMerge(u, Normalized(file, id)),
                  again |-> {}, done |-> FALSE],
         Words(u)' = Merged(Words(u), Normalized(file, id).words)
  PROVE  \A w \in Word : WordAsGood(w)'
<1> DEFINE app == Normalized(file, id)
           left == Merged(Words(u), app.words)
<1>1. /\ torn'.user = u /\ torn'.file = file /\ torn'.again = {}
      /\ torn'.want.words = left /\ Words(u)' = left
  BY DEF AfterMerge
<1>2. left \in File /\ \A w \in Word : left[w] >= app.words[w] /\ left[w] >= left[w]
  <2>1. Words(u) \in File /\ app.words \in File
    BY LoadedIsFile, NormalizedIsVault
  <2>2. left \in File /\ \A w \in Word : left[w] >= app.words[w]
    BY <2>1, MergedBounds
  <2> HIDE DEF left, app
  <2>3. \A w \in Word : left[w] \in Int
    BY <2>2, StampsAreNumbers DEF File
  <2> QED
    BY <2>2, <2>3
<1>3. ASSUME NEW w \in Word, file.words[w] # Undated
      PROVE  left[w] >= file.words[w]
  <2>1. file.words[w] \in Stamp
    BY <1>3, ImportFileAssumption DEF AppDataForImport
  <2>2. IF w \in Range(id) THEN file.words[w] = 0 ELSE app.words[w] = file.words[w]
    BY <1>3, <2>1, NormalizedIsVault, DatedIsStamp
  <2>3. left[w] \in 0 .. MaxClock
    BY <1>2 DEF File, Stamp
  <2> HIDE DEF left, app
  <2> QED
    BY <1>2, <2>2, <2>3
<1> HIDE DEF left, app
<1> QED
  BY <1>1, <1>2, <1>3 DEF WordAsGood

LEMMA RetryStep == TInv /\ RetryIsAsGood /\ [Next]_vars => RetryIsAsGood'
<1> SUFFICES ASSUME TypeOK, RetryIsAsGood, [Next]_vars
             PROVE  RetryIsAsGood'
  BY DEF TInv
<1>1. CASE UNCHANGED vars \/ Tick
  BY <1>1, RetryNeedsFilesOnly DEF vars, Tick, Words, Memory
<1>2. ASSUME torn' = NoImport PROVE RetryIsAsGood'
  BY <1>2 DEF RetryIsAsGood
<1>3. ASSUME NEW u \in UserId, NEW n \in Username, Register(u, n) \/ RegisterDies(u, n)
      PROVE  RetryIsAsGood'
  BY <1>3, RegistrationCreates, RetryNeedsFilesOnly DEF NewAccount
<1>4. ASSUME NEW u \in UserId, Open(u)
      PROVE  RetryIsAsGood'
  <2>1. Saved(u, Words(u), Memory(u)) /\ torn' = torn
    BY <1>4 DEF Open
  <2>2. \A v \in UserId : Words(v)' = Words(v) /\ Memory(v)' = Memory(v)
    BY <2>1, LoadedIsFile, SavedIsLoaded
  <2> QED
    BY <2>1, <2>2, RetryNeedsFilesOnly
<1>5. ASSUME NEW u \in UserId, NEW file \in ImportFile, NEW id \in Draws(u, file),
             Merge(u, file, id), IsRetry(u, file)
      PROVE  RetryIsAsGood'
  <2> DEFINE app == Normalized(file, id)
  <2>1. /\ torn # NoImport /\ torn \in TornMerge /\ torn.user = u /\ torn.file = file
        /\ ~torn.done /\ torn' = Retried(id, TRUE)
        /\ Saved(u, AfterMerge(u, app).words, AfterMerge(u, app).memory)
    BY <1>5 DEF IsRetry, Merge, TypeOK
  <2>2. Words(u)' = Merged(Words(u), app.words) /\ Memory(u)' = Merged(Memory(u), file.memory)
    BY <2>1, NormalizedIsVault, AfterMergeIsVault, SavedIsLoaded
  <2>3. Memory(u)' = torn.want.memory
    BY <2>1, <2>2 DEF RetryIsAsGood
  <2>4. torn'.user = u /\ torn'.want = torn.want /\ torn'.done = TRUE
    BY <2>1 DEF Retried, TornMerge
  <2>5. \A w \in Word : WordAsGood(w)'
    BY <1>5, <2>1, <2>2, RetryKeepsWords
  <2> QED
    BY <2>3, <2>4, <2>5 DEF RetryIsAsGood
<1>6. ASSUME NEW u \in UserId, NEW file \in ImportFile, NEW id \in Draws(u, file),
             MergeDies(u, file, id)
      PROVE  RetryIsAsGood'
  <2> DEFINE app == Normalized(file, id)
  <2>1. /\ Words(u)' = Merged(Words(u), app.words) /\ Memory(u)' = Memory(u)
        /\ AfterMerge(u, app).memory = Merged(Memory(u), file.memory)
    BY <1>6, LoadedIsFile, NormalizedIsVault, AfterMergeIsVault, SavedIsLoaded DEF MergeDies
  <2>2. CASE IsRetry(u, file)
    <3>1. /\ torn # NoImport /\ torn \in TornMerge /\ torn.user = u /\ torn.file = file
          /\ ~torn.done /\ torn' = Retried(id, FALSE)
      BY <1>6, <2>2 DEF IsRetry, MergeDies, TypeOK
    <3>2. torn'.user = u /\ torn'.file = file /\ torn'.want = torn.want /\ torn'.done = FALSE
      BY <3>1 DEF Retried, TornMerge
    <3>3. \A w \in Word : WordAsGood(w)'
      BY <2>1, <2>2, <3>1, RetryKeepsWords
    <3> QED
      BY <2>1, <3>1, <3>2, <3>3 DEF RetryIsAsGood
  <2>3. CASE ~IsRetry(u, file)
    <3>1. torn' = [user |-> u, file |-> file, want |-> AfterMerge(u, app),
                   again |-> {}, done |-> FALSE]
      BY <1>6, <2>3 DEF MergeDies
    <3>2. \A w \in Word : WordAsGood(w)'
      BY <2>1, <3>1, DeathKeepsWords
    <3> QED
      BY <2>1, <3>1, <3>2 DEF RetryIsAsGood
  <2> QED
    BY <2>2, <2>3
<1>7. ASSUME NEW u \in UserId, WholeVault(u) PROVE RetryIsAsGood'
  <2>1. CASE Open(u)
    BY <1>4, <2>1
  <2>2. CASE \E file \in {f \in ImportFile : FromThePast(f)} : \E id \in Draws(u, file) :
               \/ Overwrite(u, Normalized(file, id))
               \/ OverwriteDies(u, Normalized(file, id))
               \/ Merge(u, file, id)
               \/ MergeDies(u, file, id)
    <3>0. PICK file \in ImportFile : \E id \in Draws(u, file) :
               \/ Overwrite(u, Normalized(file, id))
               \/ OverwriteDies(u, Normalized(file, id))
               \/ Merge(u, file, id)
               \/ MergeDies(u, file, id)
      BY <2>2
    <3>1. PICK id \in Draws(u, file) :
               \/ Overwrite(u, Normalized(file, id))
               \/ OverwriteDies(u, Normalized(file, id))
               \/ Merge(u, file, id)
               \/ MergeDies(u, file, id)
      BY <3>0
    <3>2. CASE \/ Overwrite(u, Normalized(file, id))
               \/ OverwriteDies(u, Normalized(file, id))
      BY <1>2, <3>2 DEF Overwrite, OverwriteDies
    <3>3. CASE Merge(u, file, id) /\ ~IsRetry(u, file)
      BY <1>2, <3>3 DEF Merge
    <3> QED
      BY <1>5, <1>6, <3>1, <3>2, <3>3
  <2> QED
    BY <1>7, <2>1, <2>2 DEF WholeVault
<1>8. ASSUME NEW u \in UserId, NEW w \in Word, OneWord(u, w) PROVE torn' = NoImport
  BY <1>8 DEF OneWord, CreateWord, UpdateWord, DeleteWord, DeleteWordDies, RemoveWord,
              GradeCard, ResetMemory, SetMemory
<1>9. ASSUME NEW u \in UserId, DeleteUser(u) \/ DeleteUserFails(u) PROVE torn' = NoImport
  BY <1>9 DEF DeleteUser, DeleteUserFails, RemoveAccount
<1> QED
  BY <1>1, <1>2, <1>3, <1>7, <1>8, <1>9 DEF Next, Account

\* A merge that died is completed by sending the file again, however many
\* times it dies, for any vault and any file -- also one whose words lack ids
\* or dates: what is left differs only by what the file leaves open.
THEOREM RetriesComplete == Spec => []RetriedImportCompletes
<1>1. Init => RetryIsAsGood
  BY DEF Init, RetryIsAsGood
<1>2. RetryIsAsGood => RetriedImportCompletes
  BY DEF RetryIsAsGood, RetriedImportCompletes, WordAsGood
<1> QED
  BY <1>1, <1>2, TInvHolds, RetryStep, PTL DEF Spec
=============================================================================
