----------------------------- MODULE MobileApp -----------------------------
(***************************************************************************)
(* The mobile app over its repository: the tabs and the history of the     *)
(* Back button (App.tsx) and the screens Words, Cards (study), Fill (quiz) *)
(* and Settings (data).                                                    *)
(*                                                                         *)
(* A handler is one step: the gateways only await what is already there,   *)
(* so nothing comes between its awaits, and what it leaves is rendered     *)
(* before the next tap.  The exception is the import, which awaits the     *)
(* reading of the file and lands whatever screen is shown by then.  Only   *)
(* one screen is mounted; its state is lost when another one is.           *)
(***************************************************************************)
EXTENDS MobileRepository

CONSTANTS
  NoWord,       (* stands for null where an id may be                      *)
  NoImport,     (* stands for: no file is being read                       *)
  MaxTrail      (* bound: the length of the history                        *)

ASSUME NoWordAssumption == NoWord \notin Word
ASSUME MaxTrailAssumption == MaxTrail \in Nat

Route == {"words", "study", "quiz", "data"}
Place == [route : {"study", "quiz"}, word : Word]
Import == [file : File, mode : Mode]

ASSUME NoImportAssumption == NoImport \notin Import

VARIABLES
  (* App.tsx *)
  route,
  trail,        (* routeHistoryRef: where Back leads, and to which word    *)
  preferred,    (* studyPreferredWordId, quizPreferredWordId               *)
  (* the screen *)
  filter,       (* whether tags or a text restrict what it lists           *)
  shown,        (* the word of the card or of the example                  *)
  content,      (* ... as it was loaded                                    *)
  answer,       (* hidden, revealed (card), correct, incorrect (example)   *)
  graded,       (* gradedRef of the example                                *)
  sub,          (* subRoute of Words                                       *)
  listed,       (* words of Words, as loaded; 0 for not listed             *)
  chosen,       (* selectedWord while the form is open, which sets it anew *)
  draft,        (* ... and its draft; 0 if it is not valid                 *)
  selecting,    (* selectionMode                                           *)
  selected,     (* selectedIds                                             *)
  dialog,       (* the confirmation, tag or import dialog that is open     *)
  error,        (* whether errorMsg is set                                 *)
  importMode,
  reading,      (* the import whose file is being read                     *)
  mine,         (* whether the screen that asked for it is still mounted   *)
  closing,      (* the timer that closes the dialog after a success        *)
  (* history *)
  stale,        (* an import has landed since the screen loaded            *)
  grades,       (* how often the example shown was graded                  *)
  left          (* what was shown where a link was followed, most recent   *)
                (* last; forgotten by a tab                                *)

navigation == <<route, trail, preferred, left>>
studying == <<shown, content, answer, graded, grades>>
listing == <<sub, listed, chosen, draft, selecting, selected, error>>
importing == <<importMode, closing>>
screen == <<filter, studying, listing, dialog, importing, stale>>
pending == <<reading, mine>>
appVars == <<navigation, screen, pending>>
vars == <<repositoryVars, appVars>>

ScreenTypeOK ==
  /\ route \in Route
  /\ trail \in Seq(Place) /\ left \in Seq(Place)
  /\ preferred \in [{"study", "quiz"} -> Word \cup {NoWord}]
  /\ {filter, graded, selecting, error, mine, closing, stale} \subseteq BOOLEAN
  /\ {shown, chosen} \subseteq Word \cup {NoWord}
  /\ {content, draft} \subseteq Content
  /\ answer \in {"hidden", "revealed", "correct", "incorrect"}
  /\ sub \in {"list", "create", "edit"}
  /\ listed \in [Word -> Content]
  /\ selected \in SUBSET Word
  /\ dialog \in {"none", "delete", "reset", "tags", "import"}
  /\ importMode \in Mode
  /\ reading \in Import \cup {NoImport}
  /\ grades \in Nat

TypeOK == RepositoryTypeOK /\ ScreenTypeOK

-----------------------------------------------------------------------------
(* Loading                                                                 *)

\* The card a StudyScreen may be given: the preferred word's if there is such
\* a word, else the next one of the filter, if it has any.
NextCards(p) ==
  IF p # NoWord /\ Has(data, p) THEN {p}
  ELSE UNION {IF W = {} THEN {NoWord} ELSE W : W \in Listed(data, filter')}

WithExamples == {w \in Word : data.words[w] = 2}

\* The word of the example an ExamplesScreen may be given; the preferred word
\* is looked for among what the filter lists.
NextExamples(p) ==
  UNION {LET items == W \cap WithExamples
         IN  IF p \in items THEN {p}
             ELSE IF items = {} THEN {NoWord} ELSE items :
           W \in Listed(data, filter')}

\* A word is shown, its answer hidden, and may be graded.
Show(w) ==
  /\ shown' = w
  /\ content' = IF w = NoWord THEN 0 ELSE data.words[w]
  /\ answer' = "hidden"
  /\ graded' = FALSE
  /\ grades' = 0
  /\ stale' = FALSE

\* loadNext of the screen of route r; p: the preferred word, for the first
\* load only.  What a grading changes is not what a load depends on.
LoadNext(r, p) ==
  \E w \in IF r = "study" THEN NextCards(p) ELSE NextExamples(p) : Show(w)

ShowNothing == Show(NoWord)

\* load of WordsScreen, from the repository as the handler leaves it.
LoadList ==
  /\ stale' = FALSE
  /\ \E W \in Listed(data', filter') :
       listed' = [w \in Word |-> IF w \in W THEN data'.words[w] ELSE 0]

-----------------------------------------------------------------------------
(* App.tsx: routes                                                         *)

\* The state of a screen that has just been mounted, before it loads.
Mounted ==
  /\ filter' = FALSE
  /\ sub' = "list" /\ chosen' = NoWord /\ draft' = 0
  /\ selecting' = FALSE /\ selected' = {} /\ error' = FALSE
  /\ dialog' = "none" /\ importMode' = "merge" /\ closing' = FALSE
  /\ mine' = FALSE

NothingListed == listed' = [w \in Word |-> 0]

\* routeContent: the screen of r replaces the one shown.
Mount(r) ==
  /\ route' = r
  /\ Mounted /\ UNCHANGED reading
  /\ CASE r = "words" -> LoadList /\ ShowNothing
       [] r = "data" -> NothingListed /\ ShowNothing
       [] OTHER -> NothingListed /\ LoadNext(r, preferred'[r])

NoPreference == [r \in {"study", "quiz"} |-> NoWord]

\* navigateToTab; the active tab's screen stays mounted.
NavigateToTab(r) ==
  /\ Running /\ dialog = "none"
  /\ UNCHANGED repositoryVars
  /\ trail' = <<>>
  /\ left' = <<>>
  /\ preferred' = NoPreference
  /\ IF r = route THEN UNCHANGED <<route, screen, pending>> ELSE Mount(r)

\* Mutant: only the place that was left last is remembered.
RememberLast(r, w) ==
  /\ trail' = <<[route |-> route, word |-> w]>>
  /\ preferred' = [preferred EXCEPT ![r] = w]
  /\ Mount(r)

\* navigateToQuiz and navigateToStudy.
NavigateTo(r, w) ==
  /\ trail' = Append(trail, [route |-> route, word |-> w])
  /\ preferred' = [preferred EXCEPT ![r] = w]
  /\ Mount(r)

\* Mutant: the link is there without a word, too.
FollowAnyLink(r) ==
  /\ Len(trail) < MaxTrail
  /\ left' = Append(left, [route |-> route, word |-> shown])
  /\ NavigateTo(r, shown)
  /\ UNCHANGED repositoryVars

\* A link to the word shown.
FollowLink(r) ==
  /\ shown # NoWord
  /\ Len(trail) < MaxTrail
  /\ left' = Append(left, [route |-> route, word |-> shown])
  /\ NavigateTo(r, shown)
  /\ UNCHANGED repositoryVars

Front(s) == SubSeq(s, 1, Len(s) - 1)

\* onBackPress with a history: the screen it leads to, with its word.
GoBack ==
  /\ trail # <<>>
  /\ LET entry == trail[Len(trail)]
     IN  /\ preferred' = [preferred EXCEPT ![entry.route] = entry.word]
         /\ Mount(entry.route)
  /\ trail' = Front(trail)
  /\ left' = Front(left)
  /\ UNCHANGED repositoryVars

\* ... and without one: to the words.
GoHome ==
  /\ Running /\ dialog = "none"
  /\ trail = <<>> /\ route # "words"
  /\ UNCHANGED <<trail, preferred, left, repositoryVars>>
  /\ Mount("words")

-----------------------------------------------------------------------------
(* StudyScreen                                                             *)

OnStudy == Running /\ route = "study"

StayOnScreen == UNCHANGED <<navigation, listing, dialog, importing, pending>>

ShowAnswer ==
  /\ OnStudy
  /\ shown # NoWord /\ answer = "hidden"
  /\ answer' = "revealed"
  /\ StayOnScreen
  /\ UNCHANGED <<repositoryVars, filter, shown, content, graded, grades, stale>>

\* grade: the card is graded, then the next one is loaded.
Grade ==
  /\ GradeCard(shown)
  /\ UNCHANGED filter
  /\ LoadNext("study", NoWord)

\* The ratings are offered once the answer is shown.
Rate ==
  /\ OnStudy
  /\ shown # NoWord /\ answer = "revealed"
  /\ Grade
  /\ StayOnScreen

\* "Review All", offered when there is no card.
ReviewAll ==
  /\ OnStudy
  /\ shown = NoWord
  /\ UNCHANGED <<repositoryVars, filter>>
  /\ LoadNext("study", NoWord)
  /\ StayOnScreen

\* "Practice in Fill": the card's word has examples.
PracticeInFill ==
  /\ OnStudy
  /\ answer = "revealed" /\ content = 2
  /\ FollowLink("quiz")

-----------------------------------------------------------------------------
(* ExamplesScreen                                                          *)

OnQuiz == Running /\ route = "quiz"

\* handleSubmit: graded at the first answer to the example only.
HandleSubmit ==
  /\ answer' \in {"correct", "incorrect"}
  /\ graded' = TRUE
  /\ IF graded
       THEN UNCHANGED <<repositoryVars, grades>>
       ELSE GradeCard(shown) /\ grades' = grades + 1

Check ==
  /\ OnQuiz
  /\ shown # NoWord /\ answer = "hidden"
  /\ HandleSubmit
  /\ StayOnScreen
  /\ UNCHANGED <<filter, shown, content, stale>>

\* Mutant: the example counts as a new one.
RetryAsNew == answer' = "hidden" /\ graded' = FALSE

\* handleRetry, offered after a wrong answer.
HandleRetry == answer' = "hidden" /\ UNCHANGED graded

Retry ==
  /\ OnQuiz
  /\ answer = "incorrect"
  /\ HandleRetry
  /\ StayOnScreen
  /\ UNCHANGED <<repositoryVars, filter, shown, content, grades, stale>>

\* handleNext, offered after an answer.
NextExample ==
  /\ OnQuiz
  /\ answer \in {"correct", "incorrect"}
  /\ UNCHANGED <<repositoryVars, filter>>
  /\ LoadNext("quiz", NoWord)
  /\ StayOnScreen

OpenInCards == OnQuiz /\ FollowLink("study")

\* Applying or clearing the tag filter loads anew, whatever it was before.
ApplyTagFilter ==
  /\ filter' \in BOOLEAN
  /\ LoadNext(route, NoWord)
  /\ StayOnScreen
  /\ UNCHANGED repositoryVars

FilterCards == OnStudy /\ ApplyTagFilter
FilterExamples == OnQuiz /\ ApplyTagFilter

-----------------------------------------------------------------------------
(* WordsScreen: the list                                                   *)

OnList == Running /\ route = "words" /\ sub = "list" /\ dialog = "none"

NotStudying == UNCHANGED <<shown, content, answer, graded, grades>>

\* Only the list's own state changes.
InList == UNCHANGED <<repositoryVars, navigation, importing, pending, stale>>
            /\ NotStudying

\* The text searched for, its field being closed, or the tags change.
FilterWords ==
  /\ OnList /\ ~selecting
  /\ filter' \in BOOLEAN
  /\ UNCHANGED <<repositoryVars, navigation, importing, pending, dialog>>
  /\ LoadList
  /\ UNCHANGED <<sub, chosen, draft, selecting, selected, error>>
  /\ NotStudying

OpenCreate == sub' = "create" /\ draft' = 0 /\ error' = FALSE

\* The button that adds a word.
PressAdd ==
  /\ OnList /\ ~selecting
  /\ OpenCreate
  /\ UNCHANGED <<filter, listed, chosen, selecting, selected, dialog>>
  /\ InList

OpenEdit(w) ==
  /\ ~selecting
  /\ sub' = "edit" /\ chosen' = w /\ draft' = listed[w] /\ error' = FALSE
  /\ UNCHANGED <<selecting, selected>>

ToggleSelection(w) ==
  /\ selecting
  /\ selected' = IF w \in selected THEN selected \ {w} ELSE selected \cup {w}
  /\ UNCHANGED <<sub, chosen, draft, selecting, error>>

StartSelection(w) ==
  /\ selecting' = TRUE
  /\ selected' = {w}
  /\ UNCHANGED <<sub, chosen, draft, error>>

\* A listed word is pressed, or pressed for long.
PressWord(w) ==
  /\ OnList
  /\ listed[w] # 0
  /\ OpenEdit(w) \/ ToggleSelection(w) \/ StartSelection(w)
  /\ UNCHANGED <<filter, listed, dialog>>
  /\ InList

ListedWords == {w \in Word : listed[w] # 0}

SelectAll ==
  /\ OnList /\ selecting
  /\ selected' = ListedWords
  /\ UNCHANGED <<filter, sub, listed, chosen, draft, selecting, dialog, error>>
  /\ InList

\* "Cancel", or the Back button.
CancelSelection ==
  /\ OnList /\ selecting
  /\ selecting' = FALSE /\ selected' = {}
  /\ UNCHANGED <<filter, sub, listed, chosen, draft, dialog, error>>
  /\ InList

\* The bar of the selected words: each button opens a dialog.
AskBulk ==
  /\ OnList /\ selecting /\ selected # {}
  /\ dialog' \in {"delete", "reset", "tags"}
  /\ UNCHANGED <<filter, listing>>
  /\ InList

CloseDialog ==
  /\ Running /\ dialog # "none"
  /\ dialog' = "none"
  /\ UNCHANGED <<repositoryVars, navigation, filter, studying, listing,
                 importing, stale, pending>>

\* The selected words, in the order they were selected in.
Ordered == {ids \in Selection : Range(ids) = selected}

\* Mutant: the list is not loaded again.
BulkDoneUnloaded ==
  /\ UNCHANGED <<filter, listed, stale>>
  /\ selecting' = FALSE /\ selected' = {}
  /\ UNCHANGED error

\* A bulk operation has succeeded: the list is loaded, the selection is over.
BulkDone ==
  /\ UNCHANGED filter
  /\ LoadList
  /\ selecting' = FALSE /\ selected' = {}
  /\ UNCHANGED error

BulkDelete == (\E ids \in Ordered : DeleteWords(ids)) /\ BulkDone

BulkResetMemory == (\E ids \in Ordered : ResetMemories(ids)) /\ BulkDone

\* The words are written back as they are listed; updateWord throws at the
\* first one that is gone, and those after it are left out.
BulkChangeTags ==
  \E ids \in Ordered :
    \/ UpdateWords(ids, listed) /\ BulkDone
    \/ /\ \E n \in 0 .. Len(ids) - 1 :
            /\ ~Has(data, ids[n + 1])
            /\ IF n = 0 THEN UNCHANGED repositoryVars
               ELSE UpdateWords(SubSeq(ids, 1, n), listed)
       /\ error' = TRUE
       /\ UNCHANGED <<filter, listed, selecting, selected, stale>>

\* The dialog of a bulk operation closes as the operation begins.
Confirmed(kinds) ==
  /\ Running /\ route = "words" /\ dialog \in kinds
  /\ dialog' = "none"
  /\ UNCHANGED <<navigation, importing, pending>>
  /\ NotStudying

\* handleBulkConfirm.
ConfirmBulk ==
  /\ Confirmed({"delete", "reset"}) /\ sub = "list"
  /\ IF dialog = "delete" THEN BulkDelete ELSE BulkResetMemory
  /\ UNCHANGED <<sub, chosen, draft>>

\* handleApplyTags: which tags they are, and whether they replace, is left out.
ApplyTags ==
  /\ Confirmed({"tags"})
  /\ BulkChangeTags
  /\ UNCHANGED <<sub, chosen, draft>>

-----------------------------------------------------------------------------
(* WordsScreen: the form                                                   *)

OnForm == Running /\ route = "words" /\ sub # "list"

StayOnWords == UNCHANGED <<navigation, importing, pending>> /\ NotStudying

\* What a field changed, or an example added, changed or removed, may leave.
Draft == Content

EditDraft ==
  /\ OnForm /\ dialog = "none"
  /\ draft' \in Draft
  /\ UNCHANGED <<filter, sub, listed, chosen, selecting, selected, dialog, error>>
  /\ InList

FormClosed == sub' = "list" /\ chosen' = NoWord /\ draft' = 0

BackToList ==
  /\ OnForm /\ dialog = "none"
  /\ FormClosed
  /\ UNCHANGED <<filter, listed, selecting, selected, dialog, error>>
  /\ InList

\* The danger zone, of the edit form only.
AskOne ==
  /\ OnForm /\ sub = "edit" /\ dialog = "none"
  /\ dialog' \in {"delete", "reset"}
  /\ UNCHANGED <<filter, listing>>
  /\ InList

\* A handler of the form succeeds: the list is loaded and shown.
FormDone ==
  /\ UNCHANGED filter
  /\ LoadList
  /\ FormClosed /\ error' = FALSE
  /\ UNCHANGED <<selecting, selected>>

SubmitCreate == (\E w \in Word : CreateWord(w, draft)) /\ FormDone

\* If the word is gone, the form stays with an error.
SubmitUpdate ==
  \/ UpdateWords(<<chosen>>, [listed EXCEPT ![chosen] = draft]) /\ FormDone
  \/ /\ ~Has(data, chosen)
     /\ error' = TRUE
     /\ UNCHANGED <<repositoryVars, filter, sub, listed, chosen, draft,
                    selecting, selected, stale>>

\* The button of the form; it is disabled while the draft is not valid.
Submit ==
  /\ OnForm /\ dialog = "none" /\ draft # 0
  /\ IF sub = "create" THEN SubmitCreate ELSE SubmitUpdate
  /\ StayOnWords /\ UNCHANGED dialog

\* handleDelete leaves an error message where it is: nothing shows it.
HandleDelete == DeleteWords(<<chosen>>) /\ UNCHANGED error
HandleResetMemory == ResetMemories(<<chosen>>) /\ error' = FALSE

\* handleConfirm of the form, and the list that is loaded after it.
ConfirmOne ==
  /\ Confirmed({"delete", "reset"}) /\ sub = "edit"
  /\ IF dialog = "delete" THEN HandleDelete ELSE HandleResetMemory
  /\ UNCHANGED <<filter, selecting, selected>>
  /\ LoadList
  /\ FormClosed

-----------------------------------------------------------------------------
(* DataScreen                                                              *)

OnData == Running /\ route = "data"

NotLoaded == UNCHANGED <<filter, studying, listing, stale, navigation>>

OpenImport ==
  /\ OnData /\ dialog = "none"
  /\ dialog' = "import"
  /\ importMode' = "merge"
  /\ UNCHANGED <<repositoryVars, closing, pending>>
  /\ NotLoaded

ChooseMode ==
  /\ OnData /\ dialog = "import"
  /\ importMode' \in Mode
  /\ UNCHANGED <<repositoryVars, closing, dialog, pending>>
  /\ NotLoaded

\* handlePickFile as far as the reading of the file; the button is disabled
\* while this screen reads one.  Bound: one file is read at a time, though the
\* screen forgets that it reads one when it is left and opened again.
PickFile ==
  /\ OnData /\ dialog = "import"
  /\ reading = NoImport
  /\ \E file \in File : reading' = [file |-> file, mode |-> importMode]
  /\ mine' = TRUE
  /\ UNCHANGED <<repositoryVars, dialog, importing>>
  /\ NotLoaded

\* The file was read: it is imported whatever screen is shown; the screen that
\* asked for it, if it is still there, says so and sets the timer.
ImportLands ==
  /\ Running
  /\ reading # NoImport
  /\ ImportVocabFile(reading.file, reading.mode)
  /\ reading' = NoImport
  /\ mine' = FALSE
  /\ closing' = (closing \/ mine)
  /\ stale' = (route # "data")
  /\ UNCHANGED <<navigation, filter, studying, listing, dialog, importMode>>

\* It cannot be read or parsed, or has no words.
ImportFails ==
  /\ Running
  /\ reading # NoImport
  /\ reading' = NoImport
  /\ mine' = FALSE
  /\ UNCHANGED <<repositoryVars, navigation, screen>>

\* Two seconds after a success the dialog is closed, if need be one that was
\* opened since.
TimerFires ==
  /\ OnData /\ closing
  /\ closing' = FALSE
  /\ dialog' = "none"
  /\ UNCHANGED <<repositoryVars, importMode, pending>>
  /\ NotLoaded

-----------------------------------------------------------------------------
(* Starting and stopping                                                   *)

\* createMobileCompositionRoot has ended: the words are shown.
Launch ==
  /\ Start
  /\ Mount("words")
  /\ UNCHANGED <<trail, preferred, left>>

\* The app is killed, by the system or after Back on the words.
Kill ==
  /\ Killed
  /\ route' = "words" /\ trail' = <<>> /\ left' = <<>>
  /\ preferred' = NoPreference
  /\ Mounted /\ reading' = NoImport
  /\ NothingListed /\ ShowNothing

Init ==
  /\ RepositoryInit
  /\ route = "words" /\ trail = <<>> /\ left = <<>> /\ preferred = NoPreference
  /\ filter = FALSE /\ shown = NoWord /\ content = 0 /\ answer = "hidden"
  /\ graded = FALSE /\ grades = 0 /\ stale = FALSE
  /\ sub = "list" /\ listed = [w \in Word |-> 0] /\ chosen = NoWord /\ draft = 0
  /\ selecting = FALSE /\ selected = {} /\ error = FALSE
  /\ dialog = "none" /\ importMode = "merge" /\ closing = FALSE
  /\ reading = NoImport /\ mine = FALSE

Background ==
  /\ StorageWrites \/ WriteFails
  /\ UNCHANGED appVars

Navigation ==
  \/ \E r \in Route : NavigateToTab(r)
  \/ GoBack
  \/ GoHome

Studying ==
  \/ ShowAnswer \/ Rate \/ ReviewAll \/ PracticeInFill
  \/ Check \/ Retry \/ NextExample \/ OpenInCards
  \/ FilterCards \/ FilterExamples

Words ==
  \/ FilterWords \/ PressAdd
  \/ \E w \in Word : PressWord(w)
  \/ SelectAll \/ CancelSelection \/ AskBulk \/ CloseDialog
  \/ ConfirmBulk \/ ApplyTags
  \/ EditDraft \/ BackToList \/ AskOne
  \/ Submit \/ ConfirmOne

Importing ==
  \/ OpenImport \/ ChooseMode \/ PickFile
  \/ ImportLands \/ ImportFails \/ TimerFires

Next ==
  \/ Launch \/ Kill \/ Background
  \/ Navigation \/ Studying \/ Words \/ Importing

Spec == Init /\ [][Next]_vars

-----------------------------------------------------------------------------
(* Properties                                                              *)

\* An example contributes one grade to its word's memory however often it is
\* tried ("once per example (not on retry)", handleSubmit).
GradedOncePerShowing == grades <= 1

\* Unless an import has landed since, the screen shows what the repository
\* holds: the list without a filter all of it, the form a word that is there,
\* the selection, the card and the example words that are there -- after each
\* handler of each screen (load after every change).
ScreensAreCurrent ==
  Running /\ ~stale =>
    /\ route = "words" =>
         /\ \A w \in ListedWords : listed[w] = data.words[w]
         /\ ~filter => ListedWords = WordsOf(data)
         /\ sub = "edit" => Has(data, chosen)
         /\ \A w \in selected : Has(data, w)
    /\ shown # NoWord => content = data.words[shown] /\ Has(data, shown)
    /\ route = "study" /\ shown = NoWord /\ ~filter => WordsOf(data) = {}

\* As long as links were followed, Back leads to the screen the last one was
\* followed from, and that shows the same word again if it still has it to
\* show, over several links there and back (routeHistoryRef, App.tsx).
BackRestoresWord ==
  [][(GoBack \/ GoHome) /\ left # <<>> =>
       LET place == left[Len(left)]
       IN  /\ route' = place.route
           /\ Has(data, place.word)
                /\ (place.route = "quiz" => data.words[place.word] = 2)
              => shown' = place.word]_vars

\* No step but an import makes a memory state without its word, as long as the
\* screen was loaded after the last import (deleteWord, gradeCard).
NoOrphanMade ==
  [][Running /\ Running' /\ ~stale =>
       \/ ImportLands
       \/ \A w \in Word :
            data'.memory[w] # 0 /\ ~Has(data', w) =>
              data.memory[w] # 0 /\ ~Has(data, w)]_vars

\* A word that is gone stays gone: it comes back by an import alone and, as long
\* as the screen was loaded after the last one, no handler leaves or makes a
\* memory state for it (updateWord, deleteWord, gradeCard).
WordsStayGone == NoResurrection /\ NoOrphanMade
=============================================================================
