---------------------------- MODULE VaultStore ----------------------------
(***************************************************************************)
(* The server's accounts and their vaults: users.json, and words.json and  *)
(* memory.json in data/vault/u_<userId>/, with the requests of /words,     *)
(* /study, /io and the registration and deletion of accounts              *)
(* (app/services.py and the routers over it).                              *)
(*                                                                         *)
(* A request is served in one step: one worker, and nothing is awaited     *)
(* under the user's lock.  But it may write two files, and the process may *)
(* die between them: the ...Dies actions.  A word is abstracted to its     *)
(* updatedAt and a memory state to its dueAt, which is what the merge      *)
(* looks at; the files are functions of the word's id, 0 for none.         *)
(*                                                                         *)
(* A file to import may be written by hand: its words may lack the id, the *)
(* date, or both, and each request that carries it draws and dates anew.   *)
(***************************************************************************)
EXTENDS Integers, Functions

CONSTANTS
  UserId,     (* what uuid4 may draw for an account                        *)
  Username,
  Nobody,     (* stands for the username of a userId not in users.json     *)
  Word,       (* ids of words                                              *)
  Entry,      (* words of a file that come without an id                   *)
  Undated,    (* stands for the date of a word that comes without one      *)
  ImportFile, (* the files that may be sent, as import_api receives them   *)
  NoFile,     (* stands for a file that does not exist                     *)
  NoImport,   (* stands for: no interrupted import is looked at            *)
  MaxClock    (* bound of the clock and of what is due                     *)

ASSUME NobodyAssumption == Nobody \notin Username
ASSUME MaxClockAssumption == MaxClock \in Nat \ {0}

VARIABLES
  account,    (* users.json: the username of each userId                   *)
  words,      (* words.json of each userId                                 *)
  memory,     (* memory.json of each userId                                *)
  clock,
  (* history *)
  issued,     (* the userIds drawn so far                                  *)
  deleted,    (* the accounts whose deletion was answered 200              *)
  promised,   (* per word, the updatedAt an answered request left it with  *)
  torn        (* the merge that was interrupted last, and its retries      *)

fileVars == <<account, words, memory>>
vars == <<account, words, memory, clock, issued, deleted, promised, torn>>

Stamp == 0 .. MaxClock
File == [Word -> Stamp]
Vault == [words : File, memory : File]

\* AppDataForImport: the words with an id, those without, the memory states.
AppDataForImport ==
  [words : [Word -> Stamp \cup {Undated}],
   unnamed : [Entry -> Stamp \cup {Undated}],
   memory : File]

\* want: what the merge would have left; again: the ids its retries drew.
TornMerge == [user : UserId, file : AppDataForImport, want : Vault,
              again : SUBSET Word, done : BOOLEAN]

ASSUME NoFileAssumption == NoFile \notin File
ASSUME UndatedAssumption == Undated \notin Stamp
ASSUME ImportFileAssumption == ImportFile \subseteq AppDataForImport
ASSUME NoImportAssumption == NoImport \notin TornMerge

TypeOK ==
  /\ account \in [UserId -> Username \cup {Nobody}]
  /\ words \in [UserId -> File \cup {NoFile}]
  /\ memory \in [UserId -> File \cup {NoFile}]
  /\ \A u \in UserId :
       account[u] # Nobody /\ words[u] = NoFile => memory[u] = NoFile
  /\ clock \in 1 .. MaxClock
  /\ issued \in SUBSET UserId
  /\ deleted \in SUBSET issued
  /\ promised \in [UserId -> File]
  /\ torn \in {NoImport} \cup TornMerge

Nothing == [w \in Word |-> 0]

Init ==
  /\ account = [u \in UserId |-> Nobody]
  /\ words = [u \in UserId |-> NoFile]
  /\ memory = [u \in UserId |-> NoFile]
  /\ clock = 1
  /\ issued = {}
  /\ deleted = {}
  /\ promised = [u \in UserId |-> Nothing]
  /\ torn = NoImport

-----------------------------------------------------------------------------
(* Loading and saving                                                      *)

\* load_words and load_memory: _ensure_user_files creates what is missing.
Words(u) == IF words[u] = NoFile THEN Nothing ELSE words[u]
Memory(u) == IF memory[u] = NoFile THEN Nothing ELSE memory[u]

\* The files once a request has saved them.
Saved(u, w, m) ==
  /\ words' = [words EXCEPT ![u] = w]
  /\ memory' = [memory EXCEPT ![u] = m]

\* Mutant: the access token is trusted without looking the user up.
AnyoneIssued(u) == u \in issued

\* require_auth: find_user_by_id; an access token outlives its account.
Authorized(u) == account[u] # Nobody

Promise(u, w, t) == promised' = [promised EXCEPT ![u][w] = t]

AccountsUnchanged == UNCHANGED <<account, clock, issued, deleted>>

-----------------------------------------------------------------------------
(* Accounts                                                                *)

\* Mutant: an id is drawn again when the deletion of its account had failed.
Redrawn(u) == account[u] = Nobody /\ u \notin deleted

\* uuid4: an id that was never drawn before.
Drawn(u) == u \notin issued

NewAccount(u, n) ==
  /\ Drawn(u)
  /\ \A v \in UserId : account[v] # n
  /\ account' = [account EXCEPT ![u] = n]
  /\ issued' = issued \cup {u}
  /\ UNCHANGED <<clock, deleted, promised, torn>>

Register(u, n) == NewAccount(u, n) /\ Saved(u, Words(u), Memory(u))

\* Mutant: memory.json is created first.
MemoryCreatedFirst(u) == Saved(u, words[u], Memory(u))

WordsCreatedFirst(u) == Saved(u, Words(u), memory[u])

\* The process dies after users.json is written, or after words.json is.
RegisterDies(u, n) ==
  /\ NewAccount(u, n)
  /\ UNCHANGED <<words, memory>> \/ WordsCreatedFirst(u)

RemoveAccount(u) ==
  /\ Authorized(u)
  /\ account' = [account EXCEPT ![u] = Nobody]
  /\ promised' = [promised EXCEPT ![u] = Nothing]
  /\ torn' = NoImport
  /\ UNCHANGED <<clock, issued>>

DeleteUser(u) ==
  /\ RemoveAccount(u)
  /\ Saved(u, NoFile, NoFile)
  /\ deleted' = deleted \cup {u}

\* The process dies, or rmtree fails and the answer is 500, after users.json
\* was written: any of the directory's files may be left.
DeleteUserFails(u) ==
  /\ RemoveAccount(u)
  /\ \E w \in {words[u], NoFile}, m \in {memory[u], NoFile} : Saved(u, w, m)
  /\ UNCHANGED deleted

-----------------------------------------------------------------------------
(* Words and study                                                         *)

\* GET /words, /study/next, /study/tags and /io/export, and what is answered
\* 404: the files are created if they were missing.
Open(u) ==
  /\ Authorized(u)
  /\ Saved(u, Words(u), Memory(u))
  /\ AccountsUnchanged
  /\ UNCHANGED <<promised, torn>>

\* uuid4 for a word: an id that is nowhere in the vault.
Unused(u, w) == Words(u)[w] = 0 /\ Memory(u)[w] = 0

\* create_word_api; it makes no memory state.
CreateWord(u, w) ==
  /\ Authorized(u)
  /\ Unused(u, w)
  /\ Saved(u, [Words(u) EXCEPT ![w] = clock], Memory(u))
  /\ Promise(u, w, clock)
  /\ torn' = NoImport
  /\ AccountsUnchanged

UpdateWord(u, w) ==
  /\ Authorized(u)
  /\ Words(u)[w] # 0
  /\ Saved(u, [Words(u) EXCEPT ![w] = clock], Memory(u))
  /\ Promise(u, w, clock)
  /\ torn' = NoImport
  /\ AccountsUnchanged

\* delete_word: words.json, then memory.json; "dies" between the two.
RemoveWord(u, w, m) ==
  /\ Authorized(u)
  /\ Words(u)[w] # 0
  /\ Saved(u, [Words(u) EXCEPT ![w] = 0], m)
  /\ Promise(u, w, 0)
  /\ torn' = NoImport
  /\ AccountsUnchanged

DeleteWord(u, w) == RemoveWord(u, w, [Memory(u) EXCEPT ![w] = 0])
DeleteWordDies(u, w) == RemoveWord(u, w, Memory(u))

\* grade_card and reset_memory: whether there is such a word is not asked.
SetMemory(u, w, due) ==
  /\ Authorized(u)
  /\ Saved(u, Words(u), [Memory(u) EXCEPT ![w] = due])
  /\ torn' = NoImport
  /\ AccountsUnchanged
  /\ UNCHANGED promised

GradeCard(u, w) == \E due \in clock .. MaxClock : SetMemory(u, w, due)
ResetMemory(u, w) == SetMemory(u, w, 0)

-----------------------------------------------------------------------------
(* Import                                                                  *)

\* The words of the file that lack an id.
Unnamed(file) == {e \in Entry : file.unnamed[e] # 0}

\* The ids that one request may draw for them: nowhere, and not in the file.
Draws(u, file) ==
  {id \in Injection(Unnamed(file), Word) : \A e \in Unnamed(file) :
     Unused(u, id[e]) /\ file.words[id[e]] = 0 /\ file.memory[id[e]] = 0}

Dated(date) == IF date = Undated THEN clock ELSE date

\* _normalize_app_data_for_import, when id is what it draws.
Normalized(file, id) ==
  [words |-> [w \in Word |->
     IF \E e \in Unnamed(file) : id[e] = w
     THEN Dated(file.unnamed[CHOOSE e \in Unnamed(file) : id[e] = w])
     ELSE Dated(file.words[w])],
   memory |-> file.memory]

\* No word of the file is from the future.
FromThePast(file) ==
  /\ \A w \in Word : Dated(file.words[w]) <= clock
  /\ \A e \in Entry : Dated(file.unnamed[e]) <= clock

\* Mutant: the comparison of updatedAt is the wrong way round.
MergedBackwards(old, new) ==
  [w \in Word |->
     IF new[w] # 0 /\ (old[w] = 0 \/ new[w] <= old[w]) THEN new[w] ELSE old[w]]

\* The merge by id: the one with the later updatedAt (dueAt) is kept.
Merged(old, new) ==
  [w \in Word |->
     IF new[w] # 0 /\ (old[w] = 0 \/ new[w] >= old[w]) THEN new[w] ELSE old[w]]

\* Mutant: the memory state is taken of the words this import changes only.
MergedWhereChanged(known, old, app) ==
  [w \in Word |-> IF Merged(known, app.words)[w] # known[w]
                  THEN Merged(old, app.memory)[w] ELSE old[w]]

\* known: the words before the import; memory states are merged whatever
\* becomes of their words.
MergedMemory(known, old, app) == Merged(old, app.memory)

\* The vault a merge leaves if nothing interrupts it.
AfterMerge(u, app) ==
  [words |-> Merged(Words(u), app.words),
   memory |-> MergedMemory(Words(u), Memory(u), app)]

\* The file whose merge died is sent again, and done says whether it dies again.
IsRetry(u, file) ==
  torn # NoImport /\ torn.user = u /\ torn.file = file /\ ~torn.done

Retried(id, done) == [torn EXCEPT !.again = @ \cup Range(id), !.done = done]

Overwrite(u, app) ==
  /\ Authorized(u)
  /\ Saved(u, app.words, app.memory)
  /\ promised' = [promised EXCEPT ![u] = app.words]
  /\ torn' = NoImport
  /\ AccountsUnchanged

\* The process dies between save_words and save_memory.
OverwriteDies(u, app) ==
  /\ Authorized(u)
  /\ Saved(u, app.words, Memory(u))
  /\ promised' = [promised EXCEPT ![u] = Nothing]
  /\ torn' = NoImport
  /\ AccountsUnchanged

Merge(u, file, id) ==
  LET app == Normalized(file, id) IN
  /\ Authorized(u)
  /\ Saved(u, AfterMerge(u, app).words, AfterMerge(u, app).memory)
  /\ promised' = [promised EXCEPT ![u] =
       [w \in Word |-> IF app.words[w] > @[w] THEN app.words[w] ELSE @[w]]]
  /\ torn' = IF IsRetry(u, file) THEN Retried(id, TRUE) ELSE NoImport
  /\ AccountsUnchanged

MergeDies(u, file, id) ==
  LET app == Normalized(file, id) IN
  /\ Authorized(u)
  /\ Saved(u, AfterMerge(u, app).words, Memory(u))
  /\ torn' = IF IsRetry(u, file) THEN Retried(id, FALSE)
             ELSE [user |-> u, file |-> file, want |-> AfterMerge(u, app),
                   again |-> {}, done |-> FALSE]
  /\ AccountsUnchanged
  /\ UNCHANGED promised

-----------------------------------------------------------------------------

Tick ==
  /\ clock < MaxClock
  /\ clock' = clock + 1
  /\ UNCHANGED <<account, words, memory, issued, deleted, promised, torn>>

Account(u) ==
  \/ \E n \in Username : Register(u, n) \/ RegisterDies(u, n)
  \/ DeleteUser(u)
  \/ DeleteUserFails(u)

OneWord(u, w) ==
  \/ CreateWord(u, w)
  \/ UpdateWord(u, w)
  \/ DeleteWord(u, w)
  \/ DeleteWordDies(u, w)
  \/ GradeCard(u, w)
  \/ ResetMemory(u, w)

WholeVault(u) ==
  \/ Open(u)
  \/ \E file \in {f \in ImportFile : FromThePast(f)} : \E id \in Draws(u, file) :
       \/ Overwrite(u, Normalized(file, id))
       \/ OverwriteDies(u, Normalized(file, id))
       \/ Merge(u, file, id)
       \/ MergeDies(u, file, id)

Next ==
  \/ \E u \in UserId : Account(u) \/ WholeVault(u)
  \/ \E u \in UserId, w \in Word : OneWord(u, w)
  \/ Tick

Spec == Init /\ [][Next]_vars

-----------------------------------------------------------------------------
(* Properties                                                              *)

\* What a request was answered 200 for is not lost: a word is never older than
\* an answered creation, update or import left it, unless its deletion or an
\* overwriting import was asked for later -- whatever imports of old files
\* follow and wherever the process dies (the merge of import_appdata).
AnsweredWordsSurvive ==
  \A u \in UserId, w \in Word : Words(u)[w] >= promised[u][w]

\* A merge that died between words.json and memory.json is completed by
\* sending the file again (save_words before save_memory in import_appdata):
\* the memory states are those an uninterrupted merge would have left, and so
\* are the words -- but for what the file leaves open. A word without a date
\* is dated anew; a word without an id is added once more by each request
\* that is tried, and these copies are all that is added.
RetriedImportCompletes ==
  torn # NoImport /\ torn.done =>
    /\ Memory(torn.user) = torn.want.memory
    /\ \A w \in Word :
         LET got == Words(torn.user)[w]
             want == torn.want.words[w]
         IN  IF w \in torn.again THEN got # 0 /\ want = 0 ELSE
             IF torn.file.words[w] = Undated THEN got >= want ELSE
             got = want

\* Once the deletion of an account has been answered, its directory never
\* comes back, though access tokens of it are still valid and every request
\* creates the files it misses (_ensure_user_files).
DeletedStaysDeleted ==
  \A u \in deleted : words[u] = NoFile /\ memory[u] = NoFile

\* An account starts with an empty vault, also when an account of the same
\* name was deleted by a request that left files behind (register_user).
NewAccountStartsEmpty ==
  [][\A u \in UserId :
       account[u] = Nobody /\ account'[u] # Nobody =>
         /\ words'[u] \in {NoFile, Nothing}
         /\ memory'[u] \in {NoFile, Nothing}]_vars
=============================================================================
