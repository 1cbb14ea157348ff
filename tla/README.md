# Formal model of LinguisticNode (LexiMemory)

LinguisticNode is an offline-first vocabulary trainer: a web client (React,
IndexedDB), a mobile client, and a FastAPI server that stores JSON files. This
directory holds TLA+ modules that model its stateful parts, TLC configurations
that check them on small instances, and TLAPS proofs for every instance.

Paths below are relative to `src/`; `FE` is `frontend/src`, `MOB` is
`frontend/apps/mobile/src` (its `App.tsx` is one directory up).

## 1. The system

### 1.1 Components

| Component | State it keeps | Operations | Talks to |
|---|---|---|---|
| Server vocabulary (`app/routers/vocab.py`, `app/storage.py`) | `vocab.json`, `vocab_meta.json` (serverRev, updatedByClientId), `backups/vocab_backup_rev<n>.json` per user | GET, PUT (409 unless based on the current revision), PUT with force (backup, overwrite, clean-up) | web and mobile sync |
| Web synchronisation (`FE/db/syncService.ts`, `FE/core/sync/*`, `FE/components/Sync*.tsx`) | activations suspended in an await, the conflict dialog, local backups in localStorage | syncToServer, resolveConflictWithServer, resolveConflictWithLocal, withRetry | IndexedDB, server vocabulary |
| Local repository (`FE/db/localRepository.ts`, `FE/db/indexeddb.ts`) | object stores `vocab` (the file) and `sync` (metadata: serverRev, dirty) | word and memory edits, markDirty, replaceVocabFile, queries | IndexedDB |
| Pending sync (`FE/core/sync/syncOrchestrationService.ts`) | one flag in localStorage | set when a sync is asked for by a guest; get and remove after the login | synchronisation, sessions |
| Refresh tokens (`app/infra/token_store_json.py`, `app/service/auth_service.py`) | `auth/refresh_store.json` | login, rotate, detect a reuse, revoke, expire | session routers |
| Sessions (`FE/auth/AuthContext.tsx`, `FE/core/auth`, `FE/api/auth.ts`, `FE/api/client.ts`, `app/routers/auth.py`) | per tab: auth state and access token in memory; per browser: the cookie | initialize, authenticate, API call, recovery from a 401, logout | refresh tokens, JWT |
| Access tokens (`app/infra/jwt_provider.py`) | none (signed, 15 minutes) | create, verify | sessions |
| Server vault (`app/services.py`, routers words, io) | `words.json`, `memory.json` | word CRUD, grade, reset, import (merge, overwrite), export | study router |
| Accounts (`app/services.py`, `app/routers/auth.py`) | `users.json`, the vault directory | register, delete | sessions, vault |
| Spaced repetition (`app/services.py`, `FE/api/study.offline.ts`, `MOB/domain/mobileLearningRepository.ts`) | memory states | grade, next card: three implementations | vault, local and mobile repositories |
| Web import and export (`FE/api/io.offline.ts`) | none of its own | overwrite and merge import, export | local repository |
| Web pages (`FE/pages`, `FE/rnw/components`, `FE/hooks/useTagFilterState.ts`) | per page: what it shows, its search, filter and link, the answer, the loads under way; per scope a stored filter | mount, search, filter, answer, links, forms, dialogs, import | local repository, spaced repetition |
| Online status (`FE/utils/onlineStatusStore.ts`) | status, retry timer | browser events, health checks, the end of every request | API client, synchronisation |
| Versioned storage (`FE/core/storage/storageMigrationPolicy.ts`) | version record, primary and fallback adapters | prepare, migrate, restore | localStorage adapters |
| Mobile repository (`MOB/domain`, `MOB/storage`, `MOB/app`) | words and memory states in memory, one snapshot in the device's storage, written without awaiting | edits, grade, import; hydrate or seed at the start | mobile screens |
| Mobile screens (`App.tsx`, `MOB/screens`) | the route and its history; per screen what it has loaded, selected and drafted | tabs, links, Back; list, form, bulk operations; card; example; import | mobile repository |
| Mobile synchronisation (`MOB/infra/mobileSyncGateway.ts`, `SyncScreen`) | serverRev, dirty | sync, conflict resolution; not mounted | server vocabulary |
| Speech, draft policy, logging, other UI | presentation and preferences | - | - |

### 1.2 What is hard, and what correctness means

* **Server vocabulary.** Handlers run without an `await` between taking the
  user's lock and answering, and uvicorn runs one worker, so requests are
  atomic among themselves; a death of the process between two `os.replace`
  calls is not. Correct: an acknowledged revision names one content for ever
  (conflict detection rests on that number alone); a backup holds what it says;
  the newest backups are kept.
* **Synchronisation.** Everything is `async` over two object stores without a
  transaction across them, in several tabs, with retries of requests that may
  have been served. Correct: no ordinary sync drops a change another device
  synchronised; what is overwritten by a resolution can be found in a backup;
  the dirty flag covers what was never sent; every operation ends. Where the code
  does not achieve this, the model records which changes it lets go, and the
  properties say that no others are lost or left clean (2.2).
* **Sessions.** Rotating refresh tokens with reuse detection, one cookie shared
  by all tabs, requests that overlap, recovery from a 401 that nobody awaits.
  Correct: a detected reuse kills the family for good; a login is usable by one
  token at a time; a browser is mistaken for a thief only when its own requests
  overlap or an answer is lost; a logged-out tab stays logged out.
* **Vault, accounts.** Two files per operation, written one after the other, and
  an account whose directory is removed after its entry. Correct: what an
  answered request left of a word is not lost, not even by a request that dies;
  an import that died is completed by its retry, which adds nothing but another
  copy of each word that was sent without an id; nothing of a deleted account
  comes back, neither for its old token nor for a new account of that name.
* **Spaced repetition.** Three graders with their own roundings and bounds, two
  of them over the same memory states; words are graded out of turn. Correct:
  no level, ease or interval falls below its range; better answers come back
  later; no due word is starved; a session ends. Only the server's grader also
  keeps the upper ends that `docs/MEMORY_LEVEL_SPEC.md` names (section 4).
* **Online status, sync button, pending sync.** The status is set by whichever
  request ends last; the retry timer goes on only while its own check says
  offline; the sync kept for after the login hangs on a timer that an effect
  sets, which runs at each change of session and status and never clears it. Correct: an offline client is always about to check
  again and notices a server that answers; the button becomes usable again; a
  kept request starts one sync, and does start it.
* **Web pages.** Every page asks the database several times, the answers come in
  any order, and nothing aborts a load whose question is out of date; an edit
  goes on when its page is left, and its end navigates or reloads whatever is
  there by then. Correct: a page at rest shows what the file holds by its search
  and filter, unless one of four named things happened; a word that is gone is
  neither brought back nor given a memory state by a page that still shows it.
* **Mobile.** Writes that are not awaited and may fail, an app killed at any
  time, screens that load once and write back what they loaded, and an import
  that lands on whatever screen is shown when its file has been read. Correct:
  the storage ends up with what the app shows; a deleted word is not brought
  back by a stale form or list; each screen shows what the repository holds;
  Back leads to the word that was left; an example is graded once.

The hazards with their lines are in `PROJECT.json`; those without a property
have a note that says why.

## 2. The modules

```
VocabServer            the server's files, GET/PUT as operators, deaths inside a PUT
 |- VocabServerRequests   ... under any requests                  (Proofs)
 `- VocabSync             ... under devices that edit and sync    (MCVocabSync, Proofs)
      `- implements VocabRegister   a register with a revision and an archive
RefreshTokens          refresh_store.json and the operations over it
 `- AuthSession           ... under the tabs of one browser       (MCAuthSession, Proofs)
Srs                    grading and the next card, three programs (MCSrs, Proofs)
VaultStore             accounts and vaults under requests and deaths (MCVaultStore, Proofs)
WebShell               online status, sync button and pending sync of one tab (Proofs)
WebPages               the pages of one tab over the vocabulary file (MCWebPages, Proofs)
MobileRepository       the mobile app's data and its storage
 `- MobileApp             ... under the app's screens             (MCMobileApp, MobileProofs)
```

`(Proofs)` is the module's name with `Proofs` behind it, which extends it; the
two users of `VocabServer` both prove the few lemmas they need of it.

### 2.1 VocabServer, VocabServerRequests

A vocabulary file is the set of user changes it incorporates: adding, editing,
deleting or grading a word is a change, and a file that "has" it was produced
from one that had. That is all the properties tell apart. `vocab`, `serverRev`,
`updatedBy` and `backups` are the four places in the file system.
`_read_vocab_data` ignores the metadata when `vocab.json` is missing
(`CurrentRev`); `_write_vocab_data` writes the content first and the metadata
second (`WriteVocabData`, and `PutVocabCut` for a death in between). A forced
PUT is backup, content, metadata, clean-up, and `PutVocabForceCut` has every
point at which it can stop. `_cleanup_old_backups` sorts file *names*;
`NameBefore` does too, by comparing revisions digit by digit.

`VocabServerRequests` sends every PUT with every base revision and content, and
records what was held, acknowledged and archived.

### 2.2 VocabSync and VocabRegister

A *flow* is one activation of an async function: an edit, a push
(`syncToServer`), a force (`resolveConflictWithLocal`), a fetch
(`resolveConflictWithServer`), or a component waiting for its user, with or
without the conflict dialog. Its `pc` is the call it awaits; `rev` and `file`
are the local variables that survive the await; `tries` is withRetry's counter.
Two flows with the same `ClientOf` are two tabs (or two components of one tab)
over the same IndexedDB.

| Action | Code |
|---|---|
| `BeginEdit`, `SaveEdit`, `MarkRead`, `MarkSave`, `CutEdit` | the edits of localRepository: getVocabFile, saveVocabFile, then markDirty's read and write |
| `BeginPush`, `ReadMetadata`, `ReadFile`, `PutAnswered`, `SaveMetadata` | syncToServer; the same chain for `BeginForce` |
| `PutRefused`, `ShowConflict`, `CancelConflict` | the 409 branch, GET for the dialog, the dialog closed |
| `BeginFetch`, `GetAnswered`, `BackupLocalFile`, `BackupFails`, `SaveFetchedFile` | resolveConflictWithServer |
| `NetworkError`, `RequestLate`, `LateArrives`, `ServerDies`, `Unauthorized`, `StorageError`, `CloseTab` | what can go wrong in each await, with `AfterError` = withRetry |

Merged into one step because nothing that matters can come in between: the two
reads of resolveConflictWithServer with the backup of what was read, and the
writes and pruning of one local backup.

Everything may overlap and everything may fail, and some of that certainly loses
data, as no document promises otherwise: two edits of one device, or an edit and a
fetch, each read the whole file, change it and write it back. Three histories
record what the code lets go, each where it happens, and the properties claim
that nothing else is lost:

| History | What it records | Written by |
|---|---|---|
| `astray`, per device | changes that an edit wrote over with an older copy of the file, or a fetch with a version older than what the device has learnt of (`Outdated`); what a server took in a PUT that it died in, without a new revision | `SaveCopy`, `SaveFetchedFile`, `Die` |
| `unmarked` | changes saved while a sync of the device had read the file and was yet to clear the flag (`Syncing`); changes whose edit ended before `markDirty` did | `SaveCopy`, `CutEdit` |
| `unbacked` | changes left out of a backup (it was refused, or they were saved between a fetch's backup and its save), or in one that was pruned or replaced | `SaveCopy`, `BackupFails`, `MakeBackup`, `Accept` |

`BaseIsCurrent` and the register exempt `astray`, `DirtyButForUnmarked` exempts
`unmarked`, `NoChangeVanishes` exempts `astray` and `unbacked`. A change in none of
them must be safe, with any number of others lost around it.

`VocabRegister` says what the devices are promised: a write replaces a content
that is archived, or drops at most what is `astray` on one device. `VocabSync`
implements it with `content <- Held(vocab)`, `revision <- CurrentRev`,
`archive <- backups`.

`Overlap` names which operations of one device may overlap. The code excludes no
pair; the theorems are about every choice, and a run takes one to keep its size
in hand.

### 2.3 RefreshTokens and AuthSession

`store` maps each token that can be drawn to its record (family, replacedBy,
revoked, expired) or `NoRecord`; a token stands for its id, secret and hash. A
service operation is one step, as its awaits only take a lock that is always
free; `RotateCut` is a death between `add_token` and `mark_replaced`. `load()`
answers an *empty store* when it cannot read the file, and the next `add_token`
saves that: `LoginBlind`, `RotateBlind`.

In `AuthSession` an *activation* is one async function of a tab awaiting one
request, with the cookie and bearer it was sent with and the answer once there
is one. Serving (`Serve...`) and receiving (`...Answered`) are separate steps,
so requests overlap and answers are reordered freely. The cookie jar changes
when an answer is received. A 401 starts the recovery without being awaited: the
activation that got it goes on as the recovery. `NetworkError`, `RequestLate`,
`LateArrives`, `ServerDies`, `ServeBlindly`, `Reload`, `TokenExpires`,
`AccessExpires` are what may go wrong.

Not in the model: registration and a refused login (they touch no token),
lastUsedAt, `cleanup_expired` (never called), deletion of the account, a second
user in the same browser.

### 2.4 Srs

`apps` says which programs grade the words: the server its vault, or the web and
the mobile client the vocabulary they synchronise. Each rating of each grader is
an operator from a memory state to the states it may become (`ServerHard`,
`WebGood`, ...). The ease is counted in hundredths, exactly as the programs add
to it; they multiply it as a binary fraction, which may fall on either side of a
rounding boundary, so `Rounded` and `Floored` return both results there. Time
runs in slots, as the server's "again" waits ten minutes and everything else
whole days. `NextCards` has the words that may come first; which of several
equal ones does is the order of the file.

A word without a memory state is `New`. The clients take it as due; the server
does not, because it reads the clock for it after the clock it compares with, so
such a word (imported or reset) is asked after all due ones. `Study` grades the
next card of any choice of tags, `GradeChosen` any card: opened from the word
list, in the examples test, or by a request. Words begin new, just created, worn
(always forgotten) or learnt, so that a few answers reach the floors and
ceilings. "Just created" is the state of defaults, which the mobile client gives a
word it creates and a hand-written import brings to the server; a word that the
server or the web client creates is new. `passed` records for each due word who was graded since.

`lastRating`, `lastReviewedAt` and `lapseCount` decide nothing and are left out;
overlapping grades are overlapping edits of `VocabSync`.

### 2.5 VaultStore

`account` is users.json, `words` and `memory` are the two files of each vault, as
functions from word ids to the `updatedAt` of the word and the `dueAt` of its
memory state, which is all the merge looks at; 0 is none, `NoFile` a file that
does not exist. A request is one step, since there is one worker and nothing is
awaited under the user's lock. Where a request writes two files there is a
second action for the process dying in between: `RegisterDies`,
`DeleteWordDies`, `OverwriteDies`, `MergeDies`, and `DeleteUserFails` for an
account that is gone with its directory still there. `Open` is the first request
of a vault (`_ensure_user_files`). Requests come from whoever is `Authorized`:
require_auth looks the account up, so a token that outlives its account is
refused.

The histories say what was `promised`: the stamp at which an answered request
left each word; an import promises the words it names, and a request to delete or
overwrite takes promises back. `torn` is the merge that died last, with the file
as it was sent, what the merge would have left, and the ids that its retries drew
(`again`), until another request changes that vault.

A file to import (`AppDataForImport`) may be written by hand: a word of it may
lack its id (`unnamed`) or its date (`Undated`). Each request that carries the
file draws ids that are not in use (`Draws`) and takes the clock for the dates
(`_normalize_app_data_for_import`, `Normalized`), so the retry of a merge that
died does not send the same data: a word without an id, which the first request
has added already, is added once more, and a word without a date is dated later.
`RetriedImportCompletes` says that this is all: the memory states and every other
word are what an uninterrupted merge would have left.

Assumed of the requests (`FromThePast`): stamps parse and are not from the
future, and a file names each id once (`validate_import_data` warns of
duplicates but lets them pass). settings.json, which nothing reads, is left out.

### 2.6 WebShell

One tab of the web client. `online`, `timer` and `call` are the online status
store and the requests whose end changes it: a health check (`check`), a probe
(the retry timer's check and the one of the browser's online event, which end in
setOnline(true) whatever comes of them), and the calls of a sync. `SetOnline`
is `setOnline` with its retry timer; every handler that calls it does.

`syncing`, `prompt` and `conflict` belong to the SyncButton, `pending` is the
flag of `SyncOrchestrationService`. `EffectRuns` is the effect of SyncButton over
`[isAuthenticated, isOnline]`: it consumes the flag (`Consume`) and arms a timer
whose firing (`ArmedSync`) starts the sync. The flag is read and removed in one
step: both awaits of consumePendingSyncIfReady are of localStorage, so nothing but
promise callbacks comes between them in this tab; another tab that reads the flag
there is not modelled. A sync goes through the calls of
VocabSync with what they answer, but without data. A page may be left at any
time, with its requests and timers going on, and loaded again.

An HTTP error sets the status offline, and a failed health check of the probe
sets it online: that is what `client.ts` and the two callers do, although
`onlineStatusStore.ts` speaks of network errors. The model has it as it is.

Opening the SyncDetailsModal and pressing Sync Now is one action; the request
for its counts is one of `check`.

### 2.7 WebPages

One tab with one mounted page at a time. `page` is its React state: what it
shows, the text and the filter, the link of its address (`word`, and `linked` as
long as it has not served), the answer, the last example, and the flag that the
page is loading. `loads` is the bag of its queries under way, each with the text,
filter and link of the rendering that asked it; `Answer` takes any of them, so
answers overtake each other, and `LoadFails` ends one with an error. The reads of
one load (`NextCard` has up to three, each a transaction of its own) are one step;
a card put together from before and after a save is not modelled, and the load
that ends the edit follows it. `file` is
the vocabulary in IndexedDB, with words told apart by what the queries look at.

| Action | Code |
|---|---|
| `OpenPage`, `OpenForm`, `SelectWord`, `FollowLink` | the routes and the bar of links; the state of the page that is left is lost (`Mount`) |
| `Restored`, `SetFilter`, `TypeSearch`, `ClearSearch`, `Refresh` | useTagFilterState and its storage, RnwSearchPanel; each runs the effects that depend on it (`RunEffects`) or the load handler (`Reload`) |
| `Answer`, `LoadFails`, `ShowAnswer`, `GoOn` | the load of each page, the two cards |
| `SubmitCreate`, `SubmitUpdate`, `ConfirmDelete`, `ConfirmReset`, `Rate`, `ImportFile`, `FetchServerFile` | the handler up to its first await |
| `SaveCreated`, ..., `SaveWhole`, `MergeWord`, `MergeMemory`, `Merged` | the write of localRepository; a merge writes once per word and memory state |
| `Done`, `Thrown` | what the handler does after its last await, or in its catch |

An edit takes a step at its save and one at its end, and between them everything
else may happen: its page may be left, filtered or loaded. `edit.here` says
whether the page it was begun on is still mounted. `behind` is a history: the
page may show something older, because a load failed, an older question was
answered last, an edit landed whose page was left, or a merge or a fetch failed
half-way. One edit is under way at a time, as overlapping ones are `VocabSync`'s
subject; a sync is there the file it leaves.

Left out: the browser's history, links to a page of the same kind (the detail
page has none), export, and the second and further examples of a word.

### 2.8 MobileRepository and MobileApp

`data` is the repository in memory (`NoData`: the app does not run), `stored` the
snapshot in the storage, `writes` the snapshots of the `persist` calls under way,
oldest first. Each change persists a snapshot of what it leaves and awaits
nothing: `StorageWrites` and `WriteFails` take them off one by one. An operation
on several words goes through several snapshots (`Change`), since each word is a
call of its own. At the start the storage is hydrated or, if there is nothing or
nothing readable in it, overwritten with the words of the constructor
(`HydrateFromSeed`); without a usable storage the app runs in memory only
(`StartWithoutStorage`). `Killed` may come at any point and loses the writes.

A word is abstracted to whether it has examples, a memory state to whether it
was reviewed. The words of one list, in any order, are a sequence; a filter
lists any part of the words, as what a tag or a text matches is not modelled,
and the next card is any candidate, as due dates are `Srs`'s subject.

`MobileApp` adds `App.tsx` (`route`, `trail`, `preferred`) and the four mounted
screens. Only one screen is mounted at a time, so one set of variables serves
them all; leaving a screen loses its state (`Mounted`), entering one loads it
(`Mount`). A handler is one step: the gateways it awaits are synchronous, and
React renders what it left before the next tap. (A second tap on a rating before
that grades twice; nothing in StudyScreen guards against it.) The import is two
steps, `PickFile` and `ImportLands`, as it awaits the reading of the file, and in
between anything may happen to the screen. `stale` says that an import has
landed since the screen was loaded: only then may it show something else than
the repository holds, and only then may a bulk change of tags meet a word that
is gone and stop half-way (`BulkChangeTags`).

Left out: export, licences, theme, speech; the order of writes under the sqlite
runtime, which is not the default; an import with a malformed word.

## 3. The runs

| Run | Question | Instance |
|---|---|---|
| `vocab_server` | Do revisions and backups mean what they say under any PUTs and deaths? | 1 client, 1 change, 2 backups kept, revisions up to 4 |
| `backup_retention` | ... and from revision 10 on? **Violated.** | 5 backups kept, revisions up to 12 |
| `sync_overlap` | Can overlapping operations of two devices, or a fault, lose a change or leave it clean, but in the ways recorded? | 2 devices, one with two tabs, 1 change, edits overlapping anything and a sync overlapping a fetch (`BusyTabs`), 1 fault of any kind |
| `sync_failures` | Does every operation end, whatever fails? | 1 device, one operation at a time, 2 changes, 2 retries, any number of network errors and 2 faults of the seven other kinds, 1 backup kept on either side |
| `dirty_flag` | Does the dirty flag survive an edit during a sync? **Violated.** | 1 device, 2 activations, no fault |
| `auth_sessions` | Are reuse detection, rotation and the cookie right under overlaps and failures? | 2 tabs, 3 activations, 3 tokens, 1 fault of any kind |
| `logout_undone` | Does a logout last? **Violated.** | 1 tab, 1 activation, no fault |
| `srs` | Is no word starved, is every better answer later, does a session end? | 2 words, 3 answers and any resets, 2 slots a day, 2 slots, intervals up to 12 days |
| `vault` | Do the files mean what the requests were answered, wherever the process dies? | 2 userIds under 1 name, 2 word ids, files of one word, 2 moments |
| `web_shell` | Does the status follow the server, and every sync end, or begin when it was asked for? | 1 sync at a time, 1 retry, 1 request without a session, 1 probe and 1 check at a time |
| `web_pages` | Does each page show what the file holds, and does a word that is gone stay gone, whatever page is left, loaded or answered late? | 3 ids, 2 words and 1 other file, 2 edits, tours of 3 word pages or 2 practice pages, 1 to 3 loads under way |
| `mobile` | Do storage, repository and screens agree whatever is tapped, imported, killed or not written? | 2 words, 1 seeded, 2 changes, links 2 deep, one file at a time with one reviewed word |

What each property says is in the comment above it. Every property of a passing
run has a mutant in `PROJECT.json`: a plausible bug in a mapped definition that
makes that run fail.

**Bounds.** `MaxRev` stops new PUTs, `MaxFaults` what goes wrong, `Token` the
logins and rotations. They leave room for each scenario to happen in full: four
revisions with two backups kept rotate the archive twice; a conflict needs two
devices and one change, one fault reaches the crash, loss or delay of any
request, and two tabs give two writers to one IndexedDB and a third party;
three tokens are a login, a rotation and a reuse, or two logins and a rotation.
`sync_overlap` has no retry: a retry starts the operation again with nothing
read, as a new activation does, and the one fault it takes for it is a PUT that is
accepted and whose sender fails (`NetworkError` or `StorageError` after it, or a
late PUT that arrives); `sync_failures` has retries. One change is enough to be
lost, but not for an edit to write over another one's; larger instances than fit 5
minutes hold too: all pairs of overlaps with one change and a late PUT (3.3
million states), two changes with late PUTs and edits overlapping anything (3.8
million), two changes and all overlaps with seven kinds of fault up to revision 1.
The theorems cover every choice. The larger instances that
were tried hold too: `auth_sessions` with one tab, four tokens and two faults,
and with two tabs of one activation each and four tokens. In `srs` three answers
after a worn, learnt or new beginning reach every branch of the graders and both
ends of their ranges; longer intervals count as `MaxInterval`, which keeps their
order. Symmetry is used in `sync_overlap`, between the two tabs of one device,
in `srs` and in `mobile`, between the words; no liveness is checked there.

Two word ids are enough in `vault` because every operation but the imports touches
one word, and the imports treat each word by itself: the second id is the one a
retry draws for a word without an id. The files hold one word, with an old date,
without a date, or without an id (`MCImportFile`); files that mix them were
checked with three ids and one account. Two moments give an old and a present
stamp. Two accounts, one after the other under one name,
are what an inheritance takes; a third would repeat them. In `web_shell` one
retry leads through both branches of `withRetry`, and one slot suffices because
the button, the prompt, the dialog and the details each start a sync only when
theirs is over or the page was left. In `mobile` two changes make one that is
lost, written late or fails and one after it; a card and an example of two words
and a trail of two links reach every order of following and going back. Three
changes, or three words, pass 5 minutes; the branch of `BulkChangeTags` that
updates some words before the one that is gone needs three words and is reached
by the proofs alone.

In `web_pages` a tour has the list, the form and the detail page, or the study and
the examples page: within one, pages are left for each other with loads and
edits going on, and the detail page's end leads to the list. Edits from one tour
that end in the other are reached by the proofs alone, as all five pages at once
pass 5 minutes. `MaxLoads` stops asking, not answering, and never the load that
ends an edit. With 3 loads in the list and 2 in the study and detail pages, one
that was asked for earlier is under way with those that overtake it; with 1 in
the examples page that second load comes only from the end of an edit. Loads of
a changed filter that overtake the first one there are reached by the proofs
alone. The file to
import lacks one word, has a memory state the tab's file lacks, and a third id is
left to draw. TypeOK of `VocabSync` is checked in `sync_overlap` and holds for
every instance by its theorem.

**Fairness.** `OperationsEnd` and `ActivationsEnd` assume weak fairness of what
an activation does of itself: in `VocabSync` of `Proceed(f)`, in `AuthSession`
of `Serve(f) \/ Answered(f)`. The event loop resumes every function whose call
has completed, IndexedDB completes every request with success or error, and the
server answers what reaches it. In `WebShell` every request ends, every timer fires
and every effect runs. `EffectRuns` is strongly fair because a status that
changes back and forth may make and unmake the reason for it, but React runs the
effect of every rendering; so is `ArmedSync`, as its slot is a bound of the model: in the browser the
timer fires whatever else is under way. `PendingIsServed` has the premise that the
page stays, the user stays logged in and the client online. Users and failures
are not fair: nobody has to sync, nothing has to break. Network errors are unlimited in `sync_failures`, so
that it is withRetry's bound, and not the model's, that ends a sync. `WebPages`
states no fairness: its properties are about what is shown, not when.

**Deadlock** is not checked where the bounds stop the model and users need not
go on; in `Srs` it is.

## 4. What the code does against what it says

* `backup_retention`: `sorted(glob(...))` puts `vocab_backup_rev10.json` before
  `vocab_backup_rev9.json`; from revision 10 on a forced PUT deletes the backup
  it has just made ("Keep only the most recent N backups",
  `app/routers/vocab.py:90`).
* `dirty_flag`: syncToServer writes back, with `dirty = false`, the metadata it
  read before the PUT. An edit in between is clean and was never sent ("Flag
  indicating unsynchronized local changes", `FE/db/types.ts:29`). The change is
  still in the file and goes out with the next sync the user asks for.
* An edit that ends between `saveVocabFile` and the end of `markDirty`, because the
  tab is closed or IndexedDB rejects a call (the error is swallowed: "dirty flag is
  informational", `FE/db/localRepository.ts:38`), leaves its change clean, against
  the same line of `FE/db/types.ts`. `CutEdit` has the step; it needs no overlap, and
  `DirtyButForUnmarked` exempts its change. It has no run of its own: `dirty_flag`
  shows the same property violated.
* `logout_undone`: `/auth/logout` demands a valid access token; when it has
  expired, the 401 starts a recovery with the cookie that was not revoked, and
  the tab is logged in again (`docs/OPENAPI_SWAGGER.md:55`,
  `app/routers/auth.py:329`).

Further disagreements have no run of their own:

* The reply of an accepted PUT is lost, withRetry repeats the PUT with the old
  revision and gets a 409 for its own write; "The server data has been updated
  from another device." (`FE/components/SyncButton.tsx:235`). `VocabSync` has
  those steps. The user who then chooses the server's version loses nothing but
  edits made since.
* A merge import of the web client creates each word under a new id
  (`MergeWord`, `FE/api/io.offline.ts:133`) and keeps the old ids of the memory
  states (`MergeMemory`), which then belong to no word; a second import of the
  same file doubles it ("add new words, skip existing ones").
* "Open in Study" leads to the linked word only if that has a memory state
  (`NextCard`, `FE/api/study.offline.ts:94`); for a word that was never graded
  another card opens.
* A form or the dialog for deleting goes to the list when its edit is done, also
  when the user has left for another page by then (`Done`); a card that another
  load replaces leaves the answer open (`Answer`).
* Levels are 0 to 5 and the ease 1.3 to 2.5 (`docs/MEMORY_LEVEL_SPEC.md:31`,
  `:59`, `:158`), and the web client's grader "should match the server-side logic"
  (`FE/api/study.offline.ts:22`). Only the server's grader keeps these ranges. The
  web client raises the level at each good or easy answer and the ease by 0.15 at
  each easy one, without a limit (`:50-70` there), the mobile client the
  level also at a hard one, and the synchronised file carries what they store.
  `States` in `Srs` says for whom which end holds, so `TypeOK` of that module does
  not claim the documented ranges for the clients; imports, whose levels and ease
  nobody checks, are outside of it.
* The import dialog of the web client says of a merge "Duplicates are
  overwritten." (`FE/rnw/components/RnwImportDialog.tsx:76`); the merge skips them
  (`FE/api/io.offline.ts:133`), as `MergeWord` has it.
* On the server an interval of one day at the lowest ease stays one day however
  often it is answered good, as `round(1 * 1.3)` is 1
  (`docs/MEMORY_LEVEL_SPEC.md:186` has it grow slowly); `Srs` has that rounding.

## 5. What is proved

All for arbitrary sets of clients, changes, activations, tabs and tokens and
arbitrary bounds, from the named ASSUMEs of the modules alone. The one further
assumption is `[]OneDigit`, of `NewestBackupsAreKept` and `SyncImplementsRegister`.

**VocabServerRequestsProofs.** `TypeCorrect`; `AckedRevisionsAreUnique`;
`BackupsAreGenuine`. `AckedRevisionNamesOneFile` is not inductive: a new
acknowledgement has revision `CurrentRev + 1`, so `HistoryInv` adds that every
acknowledged revision is at most the current one, together with
`BackupIsWhatWasHeld` and that what is held now is in `held`.
`NewestBackupsAreKept`: while revisions have one digit (`OneDigit`, which
`backup_retention` shows to be needed), whatever is archived and not among the
backups has `Keep` newer ones there. The inductive `KeptInv` says that backups
have revisions of their own, at most the current one, and that each archived
revision is `Covered`; the lemmas about names show that sorting them
sorts one-digit revisions (`NamesSortByNumber`) and that keeping any number of
the last ones, but no fewer than `Keep`, leaves everything covered
(`LastByNameCovers`), which is what a death half-way through the clean-up does.

**VocabSyncProofs.** Nothing is assumed about what overlaps or fails: all are
`THEOREM Spec => ...`, for any `Overlap` and any `Fault`, the register alone with
one-digit revisions. `TypeCorrect`. `BaseStaysCurrent`: a device whose serverRev is
the server's holds everything the server holds, but for what is astray. The
invariant `BaseInv` carries that knowledge through the awaits: `Knows` says what each
activation's `rev` and `file` are worth at its pc, `RevisionsKnown` that no revision
from the future is around, and `LateCovers` that a request whose sender is gone
still satisfies what an accepted PUT needs. The overlap that would break it, an older
file written beside a newer revision, is where `astray` grows, and so is the
death of the server between its two files.
`SyncImplementsRegister`: every step then maps to `Write`, `CutWrite`, `GoAstray` or
a stutter, as long as revisions have one digit (`OneDigit`; beyond, the archive loses
what it should keep: `backup_retention`). Each exemption is needed: without it, TLC
finds a sync that drops what another device had synchronised.

`DirtyFlagIsTrue`: a change that the server never stored is on a dirty device, or
it is `unmarked`. `DirtyInv` adds what an activation knows at each of its awaits
(`Backed`): while a PUT is under way, the file holds nothing but what is stored, in
that PUT, or unmarked; when the metadata is about to be written with the flag
cleared, all of it is stored or unmarked. So no late request, death, overlapping
sync or fetch leaves a change clean, but only the two steps that record it.

`ChangesNeverVanish`: a change that was saved is in some file, at the server, or in
a backup, or it is astray or `unbacked`. `PresenceInv` says where a change is when a
fetch is about to overwrite the file that has it: in a local backup, or it was
saved after that was made (`BackedUp`). Pruning and replacing of backups on
either side are in it, and so are late forced PUTs.

**AuthSessionProofs.** `SessionInv` is inductive: types; families named by drawn
tokens; a token that is in the jar or in a request has been answered before
(`CarriedIsAnswered`); a token in an answer under way is nowhere else and not
yet replaced (`GivenIsNew`); and `ReusedFamilyIsDead`, `OneUsableToken`,
`JarIsCurrent`. Each action is summarised once by its effect on tokens
(`Recorded`), on what travels (`Moved`) and on the rest (`OwnTypes`), and each
conjunct is shown to survive the summaries. Theorems: `TypeCorrect`,
`ReusedFamiliesStayDead`, `OneTokenPerLogin`, `CookieIsCurrent`, and
`TokensOnlyDie` for the action property `UnusableStaysUnusable`.
Its first part supplies the effect of every store operation and that records
only age (`StoreStepAges`).

**SrsProofs.** `TypeCorrect`: with any number of words and answers the server
stays within its ranges and no program stores a negative level, ease or
interval, on whichever side of a boundary a product falls (`ServerGrades`,
`ClientGrades`). `NobodyOvertakes`: `NoOvertaking` is not inductive;
`PassedIsLater` is: a word graded since another became due is itself due later
than that one, because a grade moves its word past `now` (`GradedComesLater`),
and `EarliestIsFair` turns that into who is asked. `BetterAnswersWait`: in every
reachable state, for each grader and on whichever side its products are rounded,
a better answer gives no earlier due date. On the server this needs more than the
types: *good* multiplies the interval by the ease and *hard* by 1.2, and for a
word that was reviewed at most twice good has the fixed steps 1, 3, 7, so the
invariant bounds the interval by the review count (`Paced`); the rest is
arithmetic on rounded products (`HardBeforeGood`, `GoodBeforeEasy`), which holds
because the ease stays within 1.3 and 2.5.

**VaultStoreProofs.** `TypeCorrect` needs that what was not drawn yet has neither
account nor file (`UndrawnIsUnused`). `DeletedAccountsStayDeleted` adds that a
deleted account is not in users.json, so that `Authorized` keeps its token out;
`NewAccountsAreEmpty` follows from the same. `AnsweredWordsAreKept` is inductive
with the types: a request leaves a word's stamp, raises it, or takes the promise
back. `RetriesComplete` is the one that needs an idea: when a merge has died the
words are merged and the memory states are not. `NormalizedIsVault` says what a
request makes of a file: a drawn id was nowhere in the vault or the file, any
other id keeps its date unless it had none. So, as long as no other request
changes the vault (`torn` is forgotten then), the retry meets the words it names
with a date as late as its own or later, and leaves them; what it dates anew can
only get later; and what it draws was not there (`WordAsGood`,
`RetryKeepsWords`). The memory states are still to be merged, and merging them
gives what the first time would have given (`RetryIsAsGood`), however often the
retry dies as well.

**MobileProofs.** Every operation of the repository is a `Change` through some
snapshots (`OperationIsChange`), which is all the invariant has to know:
`SettledIsStored` is inductive with `WritesLead`, that the last write under way
is what the app shows. `NoResurrection` follows operation by operation from what
each leaves of a word that is not there (`WordsAfter`); an update does not add one
because it throws at the first word that is gone. These are about any sequence
of words, so the case of a half-done bulk update is in them. `AppUsesRepository`
then shows that each action of each screen is a step of `RepositorySpec` or
leaves it alone, which needs that the form edits a word and that the app runs
whenever it has a history; with it and `ScreenOK`, the types of the screens,
`TypeCorrect`, `ChangesReachStorage`, `GoneWordsStayGone` and
`ExamplesGradedOnce` hold of the whole app. `BackLeadsBack`: the history of Back
is where the links were followed from (`left = trail`), and a screen that has just
been mounted has no filter that would hide the word.
`ScreensStayCurrent` is inductive as `CurrentInv`: `Arranged`, how the state of a
screen hangs together (nothing is selected unless the list is selecting, what is
selected is listed, no card lies on a screen that has none), and `Current`, that
list, form and card are the repository's as long as no import landed behind the
screen. Its one hard case is a bulk change that throws half-way: it leaves the
list unrefreshed, and throws only at a word that is gone, so only behind an
import. `NoOrphansAreMade` follows: what a screen grades or edits is shown on it,
and what is shown is there. `DeletedWordsStayDeleted` puts both together, as the
run checks them (`WordsStayGone`).

**WebShellProofs.** `ShellInv` is inductive as it stands: the types, which say
that an online client has no retry timer and an idle sync no call, with
`OfflineIsRetried` and `OneSyncPerRequest`. Theorems: `TypeCorrect`,
`OfflineClientsRetry`, `RequestsSyncOnce`, for any number of syncs at once,
retries and requests. A request is at one of three places, the storage, the timer
or the syncs started, and each handler takes it from one to the next or drops it.

**WebPagesProofs.** `PagesInv` is inductive. `ViewIsCurrent` alone is not, as it
speaks of pages at rest: `ViewInv` says the same while an edit is under way, up
to the moment at which it changes the file (`Landing`), for pages whose filter is
not restored yet, and of a card that was opened by a link. Around it stand the
types, with what ties a page to its loads and an edit to its data; `PlaceInv`,
where an edit can have been begun that does not reload its page; and `WordInv`,
that an up-to-date page grades or resets a word the file has. Every handler of a
page leaves a load under way, an older page that is known to be older, or what was
shown (`QueryStep`); every save is a `SaveStep`. Theorems: `TypeCorrect`,
`ViewsAreCurrent`, `GoneWordsStayGone`, for any words, files and numbers of loads
and edits, and for tours through all pages, which the run cannot afford.

**Model-checked only.** Liveness, which is out of the prover's reach:
`OperationsEnd`, `ActivationsEnd`, `SyncingEnds`, `StatusFollowsServer`,
`PendingIsServed` and `SessionEnds`. Every safety property of the passing runs has
a theorem.

## 6. Not modelled

* Rendering, speech, the policy of drafts, logging: no shared state or pure
  output. Export: it reads.
* Password hashing and JWT signing: cryptography.
* The mobile synchronisation: `App.tsx` has its screen and gateway commented out.
* `prepareVersionedStorage`, `initializeSyncFromServer`, `clearDB`,
  `cleanup_expired`: nothing but tests calls them.
* A second user in one browser, and registration in a browser.

What would come next: a second user who logs in where the first one left a
vocabulary and a pending sync, which takes AuthSession, WebShell and VocabSync
together; the mobile synchronisation over `VocabServer` once its screen is
mounted.
