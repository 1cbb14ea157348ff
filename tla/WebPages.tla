------------------------------ MODULE WebPages ------------------------------
(***************************************************************************)
(* The pages of the web client in one tab: word list, create, detail,      *)
(* study and examples, over the vocabulary file in IndexedDB. Every page   *)
(* loads what it shows when it is mounted, when its filter or its search   *)
(* changes and when an edit it waited for is done; the answers come        *)
(* whenever the database gives them, and a page that is left forgets its   *)
(* state, while its edits go on and end on whatever page is there.         *)
(*                                                                         *)
(* Edits that overlap are the subject of VocabSync, the choice among the   *)
(* words that may be asked that of Srs, and what a sync does that of       *)
(* VocabSync and WebShell; here it replaces the file.                      *)
(***************************************************************************)
EXTENDS Integers, Bags, BagsExt

CONSTANTS
  Word,          \* ids of words, those included that are not drawn yet
  None,          \* no word
  Drafts,        \* what a form can make of a word
  StartFiles,    \* vocabulary files the tab may find
  OtherFiles,    \* files to import, and files of the server
  Tours,         \* bound: sets of pages a tab goes to
  MaxLoads,      \* bound: loads of each page under way when another is asked for
  MaxEdits       \* bound: edits

\* What queries tell words apart by: whether a word has the tag one filters
\* for, whether the text one searches is in it, whether it has an example
\* sentence (one at most).
Content == SUBSET {"tagged", "found", "example"}

\* No memory state; one due at once, as a reset leaves it; one of an answer.
Memory == {"none", "fresh", "answered"}

File == [words : [Word -> Content \cup {None}], memory : [Word -> Memory]]

Scope == {"list", "study", "examples"}     \* pages with a tag filter
At == Scope \cup {"create", "detail"}

\* An edit under way: what it does to which word or with which file, whether its
\* page is still there, whether that was up to date, and how far the edit is.
Edit == [op : {"create", "update", "delete", "grade", "reset", "overwrite", "merge", "fetch"},
         word : Word \cup {None}, draft : Content \cup {None}, from : OtherFiles \cup {None},
         todo : SUBSET Word, mems : SUBSET Word, here : BOOLEAN, current : BOOLEAN,
         applied : BOOLEAN, text : BOOLEAN, at : {"save", "mark"}]

\* The list begins with two loads.
ASSUME BoundsAssumption ==
  /\ MaxLoads \in [At -> Nat \ {0}] /\ MaxLoads["list"] >= 2
  /\ MaxEdits \in Nat

ASSUME NoneAssumption == None \notin Word /\ None \notin Edit /\ \A c \in Content : c # None

ASSUME FilesAssumption == StartFiles \cup OtherFiles \subseteq File /\ Drafts \subseteq Content

\* The forms lead to the list.
ASSUME ToursAssumption ==
  /\ Tours \subseteq SUBSET At
  /\ \A tour \in Tours : tour \cap {"create", "detail"} # {} => "list" \in tour

VARIABLES
  file,      \* the vocabulary file
  drawn,     \* ids in use, now or once, here or elsewhere
  stored,    \* scopes whose stored filter is on
  tour,      \* the pages one goes to, as a bound
  page,      \* the mounted page and its state
  loads,     \* bag of the page's queries under way
  edit,      \* the edit under way, or None
  edits,     \* how many there were
  behind     \* the page may show something older than the file

vars == <<file, drawn, stored, tour, page, loads, edit, edits, behind>>

-----------------------------------------------------------------------------
(* Queries                                                                 *)

Known(f) == {w \in Word : f.words[w] # None}

\* A word as it is shown with its level, and without.
WithLevel(f, w) == [word |-> w, content |-> f.words[w], memory |-> f.memory[w]]
Alone(f, w) == [word |-> w, content |-> f.words[w], memory |-> None]

\* The words a search and a filter leave.
Filtered(f, q, applied) ==
  {w \in Known(f) : /\ q => "found" \in f.words[w]
                    /\ applied => "tagged" \in f.words[w]}

GetWords(f, q) == {{WithLevel(f, w) : w \in Filtered(f, q.text, q.applied)}}

GetWordById(f, w) == {IF w \in Known(f) THEN {Alone(f, w)} ELSE {}}

\* The cards the filter leaves. There is none if it leaves no word, or if all
\* have been answered, are mastered and not due.
GetNextCard(f, applied) ==
  LET candidates == Filtered(f, FALSE, applied)
      complete == \A w \in candidates : f.memory[w] = "answered"
  IN  {{WithLevel(f, w)} : w \in candidates} \cup {c \in {{}} : complete}

\* The card to study: the linked word if it has a memory state, else the next.
NextCard(f, q) ==
  IF q.linked \in Known(f) /\ f.memory[q.linked] # "none"
  THEN {{WithLevel(f, q.linked)}}
  ELSE GetNextCard(f, q.applied)

\* The examples the next one is drawn from: those of the linked word if the
\* filter leaves any, and not the last one if there is another.
NextExample(f, q) ==
  LET pool == {w \in Filtered(f, FALSE, q.applied) : "example" \in f.words[w]}
      preferred == IF q.linked \in pool THEN {q.linked} ELSE pool
      others == preferred \ {q.last}
  IN  IF pool = {} THEN {{}}
      ELSE {{Alone(f, w)} : w \in IF others = {} THEN preferred ELSE others}

\* What a page may show when its query q is answered.
Answers(f, p, q) ==
  CASE p.at = "list"     -> GetWords(f, q)
    [] p.at = "detail"   -> GetWordById(f, p.word)
    [] p.at = "study"    -> NextCard(f, q)
    [] p.at = "examples" -> NextExample(f, q)
    [] p.at = "create"   -> {{}}

-----------------------------------------------------------------------------
(* Pages                                                                   *)

\* The query of page p. Only the pages that are linked to have a linked word,
\* and the examples none when they go on from the last one.
Query(p, last) ==
  [text |-> p.text, applied |-> p.applied, last |-> last,
   linked |-> IF last = None THEN p.linked ELSE None]

\* A page that is mounted: for a word, if its address names one.
Mounted(at, w) ==
  [at |-> at, word |-> w, linked |-> IF at = "detail" THEN None ELSE w,
   text |-> FALSE, applied |-> FALSE, restored |-> FALSE, shown |-> {},
   answer |-> FALSE, last |-> None, busy |-> at \in {"list", "detail"}]

\* The loads of the effects that depend on the query: two in the list.
Effects(p) ==
  LET one == SetToBag({Query(p, None)})
  IN  CASE p.at = "list"   -> one (+) one
        [] p.at = "create" -> EmptyBag
        [] OTHER           -> one

\* What starting a load does to page p at once.
Loading(p) ==
  CASE p.at = "list"     -> [p EXCEPT !.busy = TRUE]
    [] p.at = "examples" -> [p EXCEPT !.answer = FALSE]
    [] OTHER             -> p

Room(new) == BagCardinality(loads (+) new) <= MaxLoads[page.at]

Mount(at, w) ==
  /\ page' = Mounted(at, w)
  /\ loads' = Effects(page')
  /\ behind' = FALSE

\* Page p goes on with its effects run again.
RunEffects(p) ==
  /\ Room(Effects(p))
  /\ page' = Loading([p EXCEPT !.last = None])
  /\ loads' = loads (+) Effects(p)

\* The handler given to what ends an edit: a load with the query the page had
\* when the edit was begun.
Reload(applied, text) ==
  /\ page' = Loading(page)
  /\ loads' = BagAdd(loads, Query([page EXCEPT !.applied = applied, !.text = text], None))

Init ==
  /\ file \in StartFiles
  /\ drawn = UNION {Known(f) : f \in StartFiles \cup OtherFiles}
  /\ tour \in Tours
  /\ stored \in {{}, Scope \cap tour}
  /\ \E at \in tour \ {"detail"} : page = Mounted(at, None)
  /\ loads = Effects(page)
  /\ edit = None
  /\ edits = 0
  /\ behind = FALSE

\* Another page. An edit goes on without the page it was begun on, and its query
\* plays no part any more. Left out are the history, and links to a page of the
\* same kind.
Visit(at, w) ==
  /\ at \in tour \ {page.at}
  /\ Mount(at, w)
  /\ edit' = IF edit = None THEN None
             ELSE [edit EXCEPT !.here = FALSE, !.applied = FALSE, !.text = FALSE]
  /\ UNCHANGED <<file, drawn, stored, tour, edits>>

\* The bar leads to the pages that have a filter, from everywhere.
OpenPage == \E at \in Scope : Visit(at, None)

\* From the list to the form for a new word, or to a word; a busy list is still
\* the list.
OpenForm == page.at = "list" /\ Visit("create", None)
SelectWord == page.at = "list" /\ \E e \in page.shown : Visit("detail", e.word)

\* "Practice in Examples" and "Open in Study", which come with the answer.
FollowLink ==
  /\ page.answer
  /\ \E e \in page.shown : Visit(IF page.at = "study" THEN "examples" ELSE "study", e.word)

\* The stored filter is read once the page is mounted.
Restored ==
  /\ page.at \in Scope /\ ~page.restored
  /\ LET on == page.at \in stored
         p == [page EXCEPT !.restored = TRUE, !.applied = on]
     IN  IF on \/ page.applied
         THEN RunEffects(p)
         ELSE page' = p /\ UNCHANGED loads
  /\ UNCHANGED <<file, drawn, stored, tour, edit, edits, behind>>

\* The filter of a page is stored, or none.
Stored(at, on) == IF on THEN stored \cup {at} ELSE stored \ {at}

\* Apply or Clear in the panel of tags. What is applied is stored, unless the
\* stored filter is not restored yet.
SetFilter(on) ==
  /\ page.at \in Scope
  /\ IF on \/ page.applied
     THEN RunEffects([page EXCEPT !.applied = on])
     ELSE UNCHANGED <<page, loads>>
  /\ stored' = IF page.restored THEN Stored(page.at, on) ELSE stored
  /\ UNCHANGED <<file, drawn, tour, edit, edits, behind>>

\* Every change of the text searches for it at once.
TypeSearch ==
  /\ page.at = "list"
  /\ RunEffects([page EXCEPT !.text = ~page.text])
  /\ UNCHANGED <<file, drawn, stored, tour, edit, edits, behind>>

\* Filter in the panel of the search, which a busy list disables, or a sync that
\* was started from the page ends and has changed nothing in the file.
Refresh ==
  /\ page.at \in Scope
  /\ Room(SetToBag({Query(page, None)}))
  /\ Reload(page.applied, page.text)
  /\ UNCHANGED <<file, drawn, stored, tour, edit, edits, behind>>

\* Clear searches for the old text once more before the new one is there.
ClearSearch ==
  /\ page.at = "list"
  /\ LET cleared == [page EXCEPT !.text = FALSE]
         new == BagAdd(IF page.text THEN Effects(cleared) ELSE EmptyBag, Query(page, None))
     IN  /\ Room(new)
         /\ page' = Loading(cleared)
         /\ loads' = loads (+) new
  /\ UNCHANGED <<file, drawn, stored, tour, edit, edits, behind>>

\* The database answers query q. The link has served once a load that had it is
\* answered.
Answer(q) ==
  LET linked == IF q.linked = None THEN page.linked ELSE None
  IN  /\ \E shown \in Answers(file, page, q) :
           page' = [page EXCEPT
                      !.shown = shown, !.busy = FALSE, !.linked = linked,
                      !.answer = IF page.at = "study" THEN @ /\ shown # {} ELSE @,
                      !.last = IF page.at = "examples" /\ shown # {}
                               THEN (CHOOSE e \in shown : TRUE).word ELSE None]
      /\ loads' = BagRemove(loads, q)
      /\ behind' = (q.applied # page.applied \/ q.text # page.text)
      /\ UNCHANGED <<file, drawn, stored, tour, edit, edits>>

\* Mutant: busy is reset on success only.
LoadFailsBusy(q) ==
  /\ loads' = BagRemove(loads, q)
  /\ behind' = TRUE
  /\ UNCHANGED <<file, drawn, stored, tour, page, edit, edits>>

\* The database fails: an error is shown, with what was there.
LoadFails(q) ==
  /\ page' = [page EXCEPT !.busy = FALSE]
  /\ loads' = BagRemove(loads, q)
  /\ behind' = TRUE
  /\ UNCHANGED <<file, drawn, stored, tour, edit, edits>>

\* Show Answer on a card, Check on an example.
ShowAnswer ==
  /\ page.at \in {"study", "examples"} /\ page.shown # {} /\ ~page.answer
  /\ page' = [page EXCEPT !.answer = TRUE]
  /\ UNCHANGED <<file, drawn, stored, tour, loads, edit, edits, behind>>

\* Next Example goes on from the last one.
GoOn ==
  /\ page.at = "examples" /\ page.shown # {} /\ page.answer
  /\ Room(SetToBag({Query(page, page.last)}))
  /\ page' = Loading(page)
  /\ loads' = BagAdd(loads, Query(page, page.last))
  /\ UNCHANGED <<file, drawn, stored, tour, edit, edits, behind>>

-----------------------------------------------------------------------------
(* Edits                                                                   *)

\* Nothing is under way and nothing says that the page is out of date.
Settled ==
  loads = EmptyBag /\ edit = None /\ ~behind /\ (page.at \in Scope => page.restored)

\* An edit of word w begins: the page has its query, and is it up to date?
Begin(op, w, draft, from, todo, mems) ==
  /\ edit = None /\ edits < MaxEdits
  /\ edit' = [op |-> op, word |-> w, draft |-> draft, from |-> from,
              todo |-> todo, mems |-> mems, here |-> TRUE, current |-> Settled,
              applied |-> page.applied, text |-> page.text, at |-> "save"]
  /\ edits' = edits + 1
  /\ UNCHANGED <<file, drawn, stored, tour, loads, behind>>

SubmitCreate ==
  /\ page.at = "create"
  /\ \E d \in Drafts : Begin("create", None, d, None, {}, {})
  /\ UNCHANGED page

\* The form, the dialogs and the buttons of the detail page are there once its
\* word is.
Shows(w) == page.at = "detail" /\ ~page.busy /\ page.shown # {} /\ w = page.word

SubmitUpdate ==
  /\ \E w \in Word, d \in Drafts : Shows(w) /\ Begin("update", w, d, None, {}, {})
  /\ UNCHANGED page

ConfirmDelete ==
  /\ \E w \in Word : Shows(w) /\ Begin("delete", w, None, None, {}, {})
  /\ UNCHANGED page

ConfirmReset ==
  /\ \E w \in Word : Shows(w) /\ Begin("reset", w, None, None, {}, {})
  /\ UNCHANGED page

\* The answer is hidden again, then the card is graded.
Rate ==
  /\ page.at = "study" /\ page.answer
  /\ \E e \in page.shown : Begin("grade", e.word, None, None, {}, {})
  /\ page' = [page EXCEPT !.answer = FALSE]

\* The dialog, once open, stays open when the list loads.
ImportFile ==
  /\ page.at = "list"
  /\ \E F \in OtherFiles :
       \/ Begin("overwrite", None, None, F, {}, {})
       \/ Begin("merge", None, None, F, Known(F) \ Known(file),
                {w \in Word : F.memory[w] # "none" /\ file.memory[w] = "none"})
  /\ UNCHANGED page

\* A conflict is resolved with the server's file, in the dialog of the page.
FetchServerFile ==
  /\ page.at \in Scope
  /\ \E F \in OtherFiles : Begin("fetch", None, None, F, {}, {})
  /\ UNCHANGED page

Saving == edit # None /\ edit.at = "save"

\* The file is stored. A page that did not begin the edit does not hear of it.
Saved(f) ==
  /\ file' = f
  /\ behind' = (behind \/ ~edit.here)
  /\ UNCHANGED <<stored, tour, page, loads, edits>>

\* The file with another word, or without it, and with another memory state.
PutWord(f, w, content) == [f EXCEPT !.words[w] = content]
PutMemory(f, w, memory) == [f EXCEPT !.memory[w] = memory]

\* The edit goes on to mark the file; what it had to save plays no part any more.
Marking ==
  edit' = [edit EXCEPT !.at = "mark", !.word = None, !.draft = None, !.from = None,
                       !.current = FALSE]

SaveCreated ==
  /\ Saving /\ edit.op = "create"
  /\ \E w \in Word \ drawn :
       Saved(PutWord(file, w, edit.draft)) /\ drawn' = drawn \cup {w}
  /\ Marking

\* Mutant: a word that is not there any more is put back.
SaveUpdatedOrAdded ==
  /\ Saving /\ edit.op = "update"
  /\ Saved(PutWord(file, edit.word, edit.draft))
  /\ Marking
  /\ UNCHANGED drawn

SaveUpdated ==
  /\ Saving /\ edit.op = "update" /\ edit.word \in Known(file)
  /\ Saved(PutWord(file, edit.word, edit.draft))
  /\ Marking
  /\ UNCHANGED drawn

SaveDeleted ==
  /\ Saving /\ edit.op = "delete"
  /\ Saved(PutMemory(PutWord(file, edit.word, None), edit.word, "none"))
  /\ Marking
  /\ UNCHANGED drawn

\* Grading and resetting make the memory state if there is none.
SaveMemory ==
  /\ Saving /\ edit.op \in {"grade", "reset"}
  /\ Saved(PutMemory(file, edit.word, IF edit.op = "grade" THEN "answered" ELSE "fresh"))
  /\ Marking
  /\ UNCHANGED drawn

SaveWhole ==
  /\ Saving /\ edit.op \in {"overwrite", "fetch"}
  /\ Saved(edit.from)
  /\ Marking
  /\ UNCHANGED drawn

\* A merge creates the words whose ids the file did not have, each under a new
\* id, ...
MergeWord ==
  /\ Saving /\ edit.op = "merge"
  /\ \E w \in edit.todo, new \in Word \ drawn :
       /\ Saved(PutWord(file, new, edit.from.words[w]))
       /\ drawn' = drawn \cup {new}
       /\ edit' = [edit EXCEPT !.todo = @ \ {w}]

\* ... and then the memory states it did not have, under the ids they came with.
MergeMemory ==
  /\ Saving /\ edit.op = "merge" /\ edit.todo = {}
  /\ \E w \in edit.mems :
       /\ Saved(PutMemory(file, w, edit.from.memory[w]))
       /\ edit' = [edit EXCEPT !.mems = @ \ {w}]
  /\ UNCHANGED drawn

Merged ==
  /\ Saving /\ edit.op = "merge" /\ edit.todo = {} /\ edit.mems = {}
  /\ Marking
  /\ UNCHANGED <<file, drawn, stored, tour, page, loads, edits, behind>>

\* The word is gone or the database fails: the edit ends with an error, and the
\* page stays as it is, also where a merge had begun or a fetched file is stored.
Thrown ==
  /\ edit # None /\ (edit.at = "save" \/ edit.op = "fetch")
  /\ edit' = None
  /\ behind' = (behind \/ edit.op = "merge" \/ edit.at = "mark")
  /\ UNCHANGED <<file, drawn, stored, tour, page, loads, edits>>

\* Mutant: the page is not told that its import or its sync is done.
DoneUnloaded ==
  /\ edit # None /\ edit.at = "mark"
  /\ edit' = None
  /\ CASE edit.op \in {"create", "update", "delete"} /\ page.at # "list" -> Mount("list", None)
       [] edit.op = "grade" /\ edit.here ->
            Reload(edit.applied, edit.text) /\ UNCHANGED behind
       [] OTHER -> UNCHANGED <<page, loads, behind>>
  /\ UNCHANGED <<file, drawn, stored, tour, edits>>

\* The file is marked dirty, or the failure to do so ignored. The forms and the
\* dialog for deleting go to the list, whatever page is there now; a grade, an
\* import and a sync load again if their page is still there.
Done ==
  /\ edit # None /\ edit.at = "mark"
  /\ edit' = None
  /\ CASE edit.op \in {"create", "update", "delete"} /\ page.at # "list" -> Mount("list", None)
       [] edit.op \in {"grade", "merge", "overwrite", "fetch"} /\ edit.here ->
            Reload(edit.applied, edit.text) /\ UNCHANGED behind
       [] OTHER -> UNCHANGED <<page, loads, behind>>
  /\ UNCHANGED <<file, drawn, stored, tour, edits>>

EditStep ==
  \/ SaveCreated \/ SaveUpdated \/ SaveDeleted \/ SaveMemory \/ SaveWhole
  \/ MergeWord \/ MergeMemory \/ Merged \/ Thrown \/ Done

LoadStep == \E q \in BagToSet(loads) : Answer(q) \/ LoadFails(q)

Next ==
  \/ OpenPage \/ OpenForm \/ SelectWord \/ FollowLink
  \/ Restored \/ SetFilter(TRUE) \/ SetFilter(FALSE)
  \/ TypeSearch \/ Refresh \/ ClearSearch
  \/ LoadStep \/ ShowAnswer \/ GoOn
  \/ SubmitCreate \/ SubmitUpdate \/ ConfirmDelete \/ ConfirmReset \/ Rate
  \/ ImportFile \/ FetchServerFile
  \/ EditStep

Spec == Init /\ [][Next]_vars

-----------------------------------------------------------------------------
(* Properties                                                              *)

Entry == [word : Word, content : Content, memory : Memory \cup {None}]

Page == [at : At, word : Word \cup {None}, linked : Word \cup {None},
         text : BOOLEAN, applied : BOOLEAN, restored : BOOLEAN, shown : SUBSET Entry,
         answer : BOOLEAN, last : Word \cup {None}, busy : BOOLEAN]

Load == [text : BOOLEAN, applied : BOOLEAN, last : Word \cup {None}, linked : Word \cup {None}]

\* Every variable has its type. An answer is shown with a card or an example
\* only, the list alone has a search, and only an example has a last one.
TypeOK ==
  /\ file \in File
  /\ drawn \subseteq Word /\ Known(file) \subseteq drawn
  /\ stored \subseteq Scope /\ tour \in Tours
  /\ page \in Page
  /\ page.answer => page.at = "examples" \/ (page.at = "study" /\ page.shown # {})
  /\ page.text => page.at = "list"
  /\ page.last # None => page.at = "examples"
  /\ page.busy => loads # EmptyBag
  /\ IsABag(loads) /\ BagToSet(loads) \subseteq Load
  /\ edit \in Edit \cup {None}
  /\ edits \in 0 .. MaxEdits
  /\ behind \in BOOLEAN

\* A page at rest shows what the file holds, by its search and its filter. It
\* falls behind in four ways only: a load fails, an answer is overtaken by that
\* of an older query, an edit lands whose page was left, or a merge or a fetch
\* fails half-way. Every other handler brings the page up to date itself.
ViewIsCurrent ==
  LET q == [text |-> page.text, applied |-> page.applied, last |-> None, linked |-> None]
  IN  Settled =>
        \/ page.shown \in Answers(file, page, q)
        \/ page.at = "study" /\ page.word # None /\ page.shown = {WithLevel(file, page.word)}

\* Memory states of words that are not there.
Orphans(f) == {w \in Word : f.memory[w] # "none"} \ Known(f)

\* A word that is gone stays gone: it comes back with a file alone, whatever page
\* still shows it, and it gets no memory state but by an import, a sync, or an
\* edit on a page that was not up to date (updateWord, deleteWord, rate).
WordsStayGone ==
  [][file' # file /\ edit.op \notin {"overwrite", "fetch"} =>
       /\ \A w \in drawn : file.words[w] = None => file'.words[w] = None
       /\ edit.op # "merge" /\ edit.current => Orphans(file') \subseteq Orphans(file)]_vars
=============================================================================
