--------------------------- MODULE WebPagesProofs ---------------------------
(***************************************************************************)
(* Theorems about the pages of the web client, for any words, files and    *)
(* drafts, and any numbers of loads and edits.                             *)
(*                                                                         *)
(* PagesInv is inductive: the types, with what ties a page to its loads    *)
(* and an edit to its data; ViewInv, that a page with no load under way    *)
(* and no edit about to land shows the file; and what an edit that was     *)
(* begun on an up-to-date page knows of its word. Summaries of the ways a  *)
(* page changes (mounted, effects run, loaded again) come first, then a    *)
(* lemma per handler.                                                      *)
(***************************************************************************)
EXTENDS WebPages, TLAPS

-----------------------------------------------------------------------------
(* Bags                                                                    *)

\* A bag is empty if nothing is in it.
LEMMA EmptyBagHasNoElement ==
  ASSUME NEW B, IsABag(B)
  PROVE  B = EmptyBag <=> BagToSet(B) = {}
BY DEF EmptyBag, SetToBag, IsABag, BagToSet

\* The empty bag is one.
LEMMA EmptyBagIsBag == IsABag(EmptyBag) /\ BagToSet(EmptyBag) = {}
BY DEF EmptyBag, SetToBag, IsABag, BagToSet

\* The bag of one element, ...
LEMMA SingleIsBag ==
  ASSUME NEW x
  PROVE  IsABag(SetToBag({x})) /\ BagToSet(SetToBag({x})) = {x}
BY DEF SetToBag, IsABag, BagToSet

\* ... a bag with one more, ...
LEMMA AddedIsBag ==
  ASSUME NEW B, IsABag(B), NEW x
  PROVE  IsABag(BagAdd(B, x)) /\ BagToSet(BagAdd(B, x)) = BagToSet(B) \cup {x}
BY DEF BagAdd, IsABag, BagToSet

\* ... all of two bags, ...
LEMMA SumIsBag ==
  ASSUME NEW A, IsABag(A), NEW B, IsABag(B)
  PROVE  IsABag(A (+) B) /\ BagToSet(A (+) B) = BagToSet(A) \cup BagToSet(B)
BY DEF (+), IsABag, BagToSet

\* ... and a bag with one less.
LEMMA RemovedIsBag ==
  ASSUME NEW B, IsABag(B), NEW x
  PROVE  IsABag(BagRemove(B, x)) /\ BagToSet(BagRemove(B, x)) \subseteq BagToSet(B)
BY DEF BagRemove, IsABag, BagToSet

-----------------------------------------------------------------------------
(* The invariant                                                           *)

\* A page: what it is linked to is its word, and an answer belongs to a card.
PageOK(p) ==
  /\ p \in Page
  /\ p.linked \in {None, p.word}
  /\ p.answer => p.at = "examples" \/ (p.at = "study" /\ p.shown # {})
  /\ p.text => p.at = "list"
  /\ p.last # None => p.at = "examples"

\* The loads of a page have its link; a busy page has one.
LoadsOK(L, p) ==
  /\ IsABag(L) /\ BagToSet(L) \subseteq Load
  /\ \A q \in BagToSet(L) : q.linked \in {None, p.word}
  /\ p.busy => L # EmptyBag

\* An edit that is not saved yet has the data it needs.
EditOK(e) ==
  /\ e \in Edit
  /\ e.at = "save" =>
       /\ e.op \in {"create", "update"} => e.draft \in Content
       /\ e.op \in {"update", "delete", "grade", "reset"} => e.word \in Word
       /\ e.op \in {"overwrite", "merge", "fetch"} => e.from \in OtherFiles
       /\ e.op = "merge" => e.todo \subseteq Known(e.from)

\* Ids in use are drawn, here and in other files.
FilesOK ==
  /\ file \in File
  /\ drawn \subseteq Word /\ Known(file) \subseteq drawn
  /\ \A F \in OtherFiles : Known(F) \subseteq drawn

\* All types.
TypeInv ==
  /\ FilesOK
  /\ stored \subseteq Scope /\ tour \in Tours
  /\ PageOK(page)
  /\ LoadsOK(loads, page)
  /\ edit = None \/ EditOK(edit)
  /\ edits \in 0 .. MaxEdits /\ behind \in BOOLEAN

\* The page shows file f, by its search and its filter, or the word it was
\* linked to.
ShowsFile(f, p) ==
  \/ p.shown \in Answers(f, p, [text |-> p.text, applied |-> p.applied,
                                last |-> None, linked |-> None])
  \/ p.at = "study" /\ p.word \in Known(f) /\ p.shown = {WithLevel(f, p.word)}

\* The edit may have changed the file already, and its page, which the change
\* concerns, does not know yet.
Landing ==
  edit # None /\ edit.here /\ edit.op # "reset" /\ (edit.at = "mark" \/ edit.op = "merge")

\* ViewIsCurrent at all times: with the filter restored or not, and with an edit
\* under way.
ViewInv == loads = EmptyBag /\ ~behind /\ ~Landing => ShowsFile(file, page)

\* The forms lead to the list from elsewhere; a reset is one of the detail page.
PlaceInv ==
  edit # None /\ edit.here =>
    /\ edit.op \in {"create", "update", "delete"} => page.at \in {"create", "detail"}
    /\ edit.op = "reset" => page.at = "detail"

\* An edit from an up-to-date page has its word in the file until it is saved.
WordInv ==
  edit # None /\ edit.current /\ edit.at = "save" /\ edit.op \in {"grade", "reset"} =>
    edit.word \in Known(file)

PagesInv == TypeInv /\ ViewInv /\ PlaceInv /\ WordInv

-----------------------------------------------------------------------------
(* Queries and pages keep their types                                      *)

\* A word of a file is shown with its content and its level.
LEMMA EntriesHaveTypes ==
  ASSUME NEW f \in File, NEW w \in Known(f)
  PROVE  WithLevel(f, w) \in Entry /\ Alone(f, w) \in Entry
<1>1. w \in Word /\ f.words[w] \in Content /\ f.memory[w] \in Memory
  BY DEF Known, File
<1> QED
  BY <1>1 DEF WithLevel, Alone, Entry

\* Searching and filtering leave words of the file.
LEMMA FilteredAreKnown ==
  ASSUME NEW f, NEW q, NEW applied
  PROVE  Filtered(f, q, applied) \subseteq Known(f)
BY DEF Filtered

\* A card is a word of the file with its level.
LEMMA GetNextCardIsOne ==
  ASSUME NEW f, NEW applied, NEW shown \in GetNextCard(f, applied)
  PROVE  shown = {} \/ \E w \in Known(f) : shown = {WithLevel(f, w)}
<1> DEFINE candidates == Filtered(f, FALSE, applied)
<1>1. candidates \subseteq Known(f)
  BY FilteredAreKnown
<1>2. shown \in {{}} \/ shown \in {{WithLevel(f, w)} : w \in candidates}
  BY DEF GetNextCard
<1> QED
  BY <1>1, <1>2

\* So is a linked one.
LEMMA NextCardIsOne ==
  ASSUME NEW f, NEW q, NEW shown \in NextCard(f, q)
  PROVE  shown = {} \/ \E w \in Known(f) : shown = {WithLevel(f, w)}
<1>1. CASE q.linked \in Known(f) /\ f.memory[q.linked] # "none"
  BY <1>1 DEF NextCard
<1>2. CASE ~(q.linked \in Known(f) /\ f.memory[q.linked] # "none")
  BY <1>2, GetNextCardIsOne DEF NextCard
<1> QED
  BY <1>1, <1>2

\* Whatever is shown is an entry of a word of the file.
LEMMA AnswersHaveTypes ==
  ASSUME NEW f \in File, NEW p, p.at \in At, NEW q, NEW shown \in Answers(f, p, q)
  PROVE  shown \subseteq Entry
<1>1. CASE p.at = "list"
  BY <1>1, EntriesHaveTypes, FilteredAreKnown DEF Answers, GetWords
<1>2. CASE p.at = "detail"
  BY <1>2, EntriesHaveTypes DEF Answers, GetWordById
<1>3. CASE p.at = "study"
  <2>1. shown \in NextCard(f, q)
    BY <1>3 DEF Answers
  <2>2. shown = {} \/ \E w \in Known(f) : shown = {WithLevel(f, w)}
    BY <2>1, NextCardIsOne
  <2> QED
    BY <2>2, EntriesHaveTypes
<1>4. CASE p.at = "examples"
  <2>1. shown \in NextExample(f, q)
    BY <1>4 DEF Answers
  <2>2. shown = {} \/ \E w \in Known(f) : shown = {Alone(f, w)}
    BY <2>1, FilteredAreKnown DEF NextExample
  <2> QED
    BY <2>2, EntriesHaveTypes
<1>5. CASE p.at = "create"
  BY <1>5 DEF Answers
<1> QED
  BY <1>1, <1>2, <1>3, <1>4, <1>5 DEF At, Scope

\* A page asks with its own link, or none.
LEMMA QueryHasType ==
  ASSUME NEW p, PageOK(p), NEW last \in Word \cup {None}
  PROVE  Query(p, last) \in Load /\ Query(p, last).linked \in {None, p.word}
BY DEF PageOK, Page, Query, Load

\* A page is mounted without anything shown, searched or filtered.
LEMMA MountedHasType ==
  ASSUME NEW at \in At, NEW w \in Word \cup {None}
  PROVE  PageOK(Mounted(at, w)) /\ Mounted(at, w).at = at /\ Mounted(at, w).word = w
BY DEF Mounted, PageOK, Page

\* Effects ask the query of their page, on every page but the form.
LEMMA EffectsAreBag ==
  ASSUME NEW p
  PROVE  /\ IsABag(Effects(p))
         /\ BagToSet(Effects(p)) \subseteq {Query(p, None)}
         /\ p.at # "create" => Query(p, None) \in BagToSet(Effects(p))
<1> DEFINE one == SetToBag({Query(p, None)})
<1>1. IsABag(one) /\ BagToSet(one) = {Query(p, None)}
  BY SingleIsBag
<1>2. IsABag(one (+) one) /\ BagToSet(one (+) one) = {Query(p, None)}
  BY <1>1, SumIsBag
<1> HIDE DEF one
<1>3. /\ Effects(p) \in {one (+) one, EmptyBag, one}
      /\ p.at # "create" => Effects(p) \in {one (+) one, one}
  BY DEF Effects, one
<1> QED
  BY <1>1, <1>2, <1>3, EmptyBagIsBag

\* More loads whose link is the page's own.
LEMMA MoreLoads ==
  ASSUME NEW L, NEW N, IsABag(L), IsABag(N), NEW p, PageOK(p),
         BagToSet(L) \subseteq Load, \A q \in BagToSet(L) : q.linked \in {None, p.word},
         BagToSet(N) \subseteq Load, \A q \in BagToSet(N) : q.linked \in {None, p.word},
         BagToSet(N) # {}
  PROVE  LoadsOK(L (+) N, p) /\ L (+) N # EmptyBag
<1>1. IsABag(L (+) N) /\ BagToSet(L (+) N) = BagToSet(L) \cup BagToSet(N)
  BY SumIsBag
<1> QED
  BY <1>1, EmptyBagHasNoElement DEF LoadsOK

\* The same for one more load.
LEMMA OneMoreLoad ==
  ASSUME NEW L, IsABag(L), NEW p, PageOK(p),
         BagToSet(L) \subseteq Load, \A q \in BagToSet(L) : q.linked \in {None, p.word},
         NEW q \in Load, q.linked \in {None, p.word}
  PROVE  LoadsOK(BagAdd(L, q), p) /\ BagAdd(L, q) # EmptyBag
<1>1. IsABag(BagAdd(L, q)) /\ BagToSet(BagAdd(L, q)) = BagToSet(L) \cup {q}
  BY AddedIsBag
<1> QED
  BY <1>1, EmptyBagHasNoElement DEF LoadsOK

\* Starting a load leaves the page where it is.
LEMMA LoadingKeepsPage ==
  ASSUME NEW p, PageOK(p)
  PROVE  /\ PageOK(Loading(p))
         /\ Loading(p).at = p.at /\ Loading(p).word = p.word
BY DEF PageOK, Page, Loading

-----------------------------------------------------------------------------
(* The ways a page changes                                                 *)

\* A mounted page loads what it will show, or is a form and shows nothing.
LEMMA MountSummary ==
  ASSUME NEW at \in At, NEW w \in Word \cup {None}, Mount(at, w)
  PROVE  /\ PageOK(page') /\ LoadsOK(loads', page') /\ behind' = FALSE
         /\ page'.at = at
         /\ loads' = EmptyBag => ShowsFile(file', page')
<1>1. page' = Mounted(at, w) /\ loads' = Effects(page') /\ behind' = FALSE
  BY DEF Mount
<1>2. PageOK(page') /\ page'.at = at
  BY <1>1, MountedHasType
<1>3. /\ IsABag(loads') /\ BagToSet(loads') \subseteq {Query(page', None)}
      /\ at # "create" => loads' # EmptyBag
  BY <1>1, <1>2, EffectsAreBag, EmptyBagHasNoElement
<1>4. at = "create" => ~page'.busy /\ page'.shown = {}
  BY <1>1 DEF Mounted
<1>5. LoadsOK(loads', page')
  BY <1>2, <1>3, <1>4, QueryHasType DEF LoadsOK
<1>6. at = "create" => ShowsFile(file', page')
  BY <1>2, <1>4 DEF ShowsFile, Answers
<1> QED
  BY <1>1, <1>2, <1>3, <1>5, <1>6

\* A page whose text or filter changed has loads under way.
LEMMA RunEffectsSummary ==
  ASSUME PageOK(page), LoadsOK(loads, page),
         NEW p, PageOK(p), p.at = page.at, p.word = page.word, p.at # "create",
         RunEffects(p)
  PROVE  /\ PageOK(page') /\ LoadsOK(loads', page') /\ loads' # EmptyBag
         /\ page'.at = page.at
<1> DEFINE r == [p EXCEPT !.last = None]
<1>1. PageOK(r) /\ r.at = p.at /\ r.word = p.word
  BY DEF PageOK, Page
<1> HIDE DEF r
<1>2. page' = Loading(r) /\ loads' = loads (+) Effects(p)
  BY DEF RunEffects, r
<1>3. PageOK(page') /\ page'.at = page.at /\ page'.word = page.word
  BY <1>1, <1>2, LoadingKeepsPage
<1>4. /\ IsABag(Effects(p)) /\ BagToSet(Effects(p)) = {Query(p, None)}
      /\ Query(p, None) \in Load /\ Query(p, None).linked \in {None, page'.word}
  BY <1>3, EffectsAreBag, QueryHasType
<1> QED
  BY <1>2, <1>3, <1>4, MoreLoads DEF LoadsOK

\* So has a page that was told of the end of an edit.
LEMMA ReloadSummary ==
  ASSUME PageOK(page), LoadsOK(loads, page),
         NEW applied \in BOOLEAN, NEW text \in BOOLEAN, Reload(applied, text)
  PROVE  /\ PageOK(page') /\ LoadsOK(loads', page') /\ loads' # EmptyBag
         /\ page'.at = page.at
<1> DEFINE q == Query([page EXCEPT !.applied = applied, !.text = text], None)
<1>1. q \in Load /\ q.linked \in {None, page.word}
  BY DEF PageOK, Page, Query, Load
<1> HIDE DEF q
<1>2. page' = Loading(page) /\ loads' = BagAdd(loads, q)
  BY DEF Reload, q
<1>3. PageOK(page') /\ page'.at = page.at /\ page'.word = page.word
  BY <1>2, LoadingKeepsPage
<1> QED
  BY <1>1, <1>2, <1>3, OneMoreLoad DEF LoadsOK

\* The answer of a query with the page's text and filter shows the file, by the
\* link or without.
LEMMA AnswerShowsFile ==
  ASSUME NEW f \in File, NEW p, PageOK(p), NEW q \in Load, q.linked \in {None, p.word},
         q.applied = p.applied, q.text = p.text, NEW shown \in Answers(f, p, q),
         NEW r, r.at = p.at, r.word = p.word, r.text = p.text, r.applied = p.applied,
         r.shown = shown
  PROVE  ShowsFile(f, r)
<1> DEFINE plain == [text |-> r.text, applied |-> r.applied, last |-> None, linked |-> None]
<1>1. /\ plain.text = q.text /\ plain.applied = q.applied
      /\ plain.last = None /\ plain.linked = None
  OBVIOUS
<1>2. p.at \in At /\ None \notin Word /\ Known(f) \subseteq Word
  BY NoneAssumption DEF PageOK, Page, Known
<1> HIDE DEF plain
<1>3. SUFFICES \/ shown \in Answers(f, r, plain)
               \/ r.at = "study" /\ r.word \in Known(f) /\ shown = {WithLevel(f, r.word)}
  BY DEF ShowsFile, plain
<1>4. CASE p.at = "list"
  BY <1>1, <1>4 DEF Answers, GetWords, Filtered
<1>5. CASE p.at = "detail"
  BY <1>5 DEF Answers
<1>6. CASE p.at = "create"
  BY <1>6 DEF Answers
<1>7. CASE p.at = "study"
  <2>1. shown \in NextCard(f, q)
    BY <1>7 DEF Answers
  <2>2. CASE q.linked \in Known(f) /\ f.memory[q.linked] # "none"
    BY <1>2, <1>7, <2>1, <2>2 DEF NextCard
  <2>3. CASE ~(q.linked \in Known(f) /\ f.memory[q.linked] # "none")
    <3>1. shown \in GetNextCard(f, plain.applied)
      BY <1>1, <2>1, <2>3 DEF NextCard
    <3>2. plain.linked \notin Known(f)
      BY <1>1, <1>2
    <3>3. shown \in NextCard(f, plain)
      BY <3>1, <3>2 DEF NextCard
    <3> QED
      BY <1>7, <3>3 DEF Answers
  <2> QED
    BY <2>2, <2>3
<1>8. CASE p.at = "examples"
  <2> DEFINE pool == {w \in Filtered(f, FALSE, q.applied) : "example" \in f.words[w]}
             preferred == IF q.linked \in pool THEN {q.linked} ELSE pool
             others == preferred \ {q.last}
  <2>1. shown \in NextExample(f, q)
    BY <1>8 DEF Answers
  <2>2. shown \in IF pool = {} THEN {{}}
                  ELSE {{Alone(f, w)} : w \in IF others = {} THEN preferred ELSE others}
    BY <2>1 DEF NextExample
  <2>3. preferred \subseteq pool /\ others \subseteq pool
    OBVIOUS
  <2>4. None \notin pool
    BY <1>2, FilteredAreKnown
  <2> HIDE DEF preferred, others
  <2>5. shown \in IF pool = {} THEN {{}} ELSE {{Alone(f, w)} : w \in pool}
    BY <2>2, <2>3
  <2>6. NextExample(f, plain) = IF pool = {} THEN {{}} ELSE {{Alone(f, w)} : w \in pool}
    <3> DEFINE alone == {{Alone(f, w)} : w \in pool}
    <3>1. pool = {w \in Filtered(f, FALSE, plain.applied) : "example" \in f.words[w]}
      BY <1>1
    <3> HIDE DEF pool
    <3>2. plain.linked \notin pool /\ pool \ {plain.last} = pool
      BY <1>1, <2>4
    <3> QED
      BY <3>1, <3>2 DEF NextExample
  <2> QED
    BY <1>8, <2>5, <2>6 DEF Answers
<1> QED
  BY <1>2, <1>4, <1>5, <1>6, <1>7, <1>8 DEF At, Scope

-----------------------------------------------------------------------------
(* Handlers of a page                                                      *)

\* A page that is left and the one that is mounted.
LEMMA VisitStep ==
  ASSUME PagesInv, NEW at, NEW w \in Word \cup {None}, Visit(at, w)
  PROVE  PagesInv'
<1>1. at \in At
  BY ToursAssumption DEF Visit, PagesInv, TypeInv
<1>2. /\ PageOK(page') /\ LoadsOK(loads', page') /\ behind' = FALSE
      /\ loads' = EmptyBag => ShowsFile(file', page')
  BY <1>1, MountSummary DEF Visit
<1>3. CASE edit = None
  <2>1. edit' = None
    BY <1>3 DEF Visit
  <2>2. TypeInv'
    BY <1>2, <2>1 DEF Visit, PagesInv, TypeInv, FilesOK
  <2> QED
    BY <1>2, <2>1, <2>2 DEF PagesInv, ViewInv, PlaceInv, WordInv
<1>4. CASE edit # None
  <2>1. /\ edit' = [edit EXCEPT !.here = FALSE, !.applied = FALSE, !.text = FALSE]
        /\ EditOK(edit)
    BY <1>4 DEF Visit, PagesInv, TypeInv
  <2>2. /\ EditOK(edit') /\ ~edit'.here /\ edit'.current = edit.current
        /\ edit'.at = edit.at /\ edit'.op = edit.op /\ edit'.word = edit.word
    BY <2>1 DEF EditOK, Edit
  <2>3. TypeInv'
    BY <1>2, <2>2 DEF Visit, PagesInv, TypeInv, FilesOK
  <2>4. WordInv'
    BY <1>4, <2>2 DEF Visit, PagesInv, WordInv
  <2> QED
    BY <1>2, <2>2, <2>3, <2>4 DEF PagesInv, ViewInv, PlaceInv
<1> QED
  BY <1>3, <1>4

\* A step of the page and its loads that touches neither the file nor the edit.
QueryStep ==
  /\ UNCHANGED <<file, drawn, tour, edit, edits>>
  /\ stored' \subseteq Scope /\ behind' \in BOOLEAN
  /\ PageOK(page') /\ LoadsOK(loads', page') /\ page'.at = page.at
  /\ \/ loads' # EmptyBag
     \/ behind'
     \/ ShowsFile(file, page')
     \/ behind' = behind /\ loads' = loads /\ (ShowsFile(file, page) => ShowsFile(file, page'))

\* Such steps keep the invariant.
LEMMA QueryStepKeepsInv ==
  ASSUME PagesInv, QueryStep
  PROVE  PagesInv'
<1>1. TypeInv'
  BY DEF PagesInv, TypeInv, FilesOK, QueryStep
<1>2. ViewInv'
  BY DEF PagesInv, ViewInv, Landing, QueryStep
<1>3. PlaceInv' /\ WordInv'
  BY DEF PagesInv, PlaceInv, WordInv, QueryStep
<1> QED
  BY <1>1, <1>2, <1>3 DEF PagesInv

\* What a page shows are words.
LEMMA ShownAreWords ==
  ASSUME PagesInv, NEW e \in page.shown
  PROVE  e.word \in Word
BY DEF PagesInv, TypeInv, PageOK, Page, Entry

\* Bars, buttons and links lead to a page by Visit.
LEMMA LeaveStep ==
  ASSUME PagesInv, OpenPage \/ OpenForm \/ SelectWord \/ FollowLink
  PROVE  PagesInv'
<1>1. \E at : \E w \in Word \cup {None} : Visit(at, w)
  BY ShownAreWords DEF OpenPage, OpenForm, SelectWord, FollowLink
<1> QED
  BY <1>1, VisitStep

\* Restoring the filter asks anew if it is on, and changes nothing otherwise.
LEMMA RestoredStep ==
  ASSUME PagesInv, Restored
  PROVE  QueryStep
<1> DEFINE on == page.at \in stored
           p == [page EXCEPT !.restored = TRUE, !.applied = on]
<1>1. on \in BOOLEAN
  OBVIOUS
<1> HIDE DEF on
<1>2. PageOK(p) /\ p.at = page.at /\ p.word = page.word /\ p.at # "create"
  BY <1>1 DEF Restored, PagesInv, TypeInv, PageOK, Page, Scope
<1>3. PageOK(page) /\ LoadsOK(loads, page) /\ stored \subseteq Scope /\ behind \in BOOLEAN
  BY DEF PagesInv, TypeInv
<1>4. UNCHANGED <<file, drawn, stored, tour, edit, edits, behind>>
  BY DEF Restored
<1>5. IF on \/ page.applied THEN RunEffects(p) ELSE page' = p /\ loads' = loads
  BY DEF Restored, on
<1> HIDE DEF p
<1>6. CASE on \/ page.applied
  <2>1. RunEffects(p)
    BY <1>6, <1>5
  <2> QED
    BY <1>2, <1>3, <1>4, <2>1, RunEffectsSummary DEF QueryStep
<1>7. CASE ~(on \/ page.applied)
  <2>1. page' = p /\ loads' = loads
    BY <1>7, <1>5
  <2>2. p.text = page.text /\ p.shown = page.shown /\ p.busy = page.busy
    BY <1>3 DEF PageOK, Page, p
  <2>3. p.applied = page.applied
    BY <1>1, <1>3, <1>7 DEF PageOK, Page, p
  <2>4. LoadsOK(loads, p)
    BY <1>2, <1>3, <2>2 DEF LoadsOK
  <2>5. ShowsFile(file, page) => ShowsFile(file, p)
    BY <1>2, <2>2, <2>3 DEF ShowsFile, Answers
  <2> QED
    BY <1>2, <1>3, <1>4, <2>1, <2>4, <2>5 DEF QueryStep
<1> QED
  BY <1>6, <1>7

\* So does applying or clearing it.
LEMMA SetFilterStep ==
  ASSUME PagesInv, NEW on \in BOOLEAN, SetFilter(on)
  PROVE  QueryStep
<1> DEFINE p == [page EXCEPT !.applied = on]
<1>1. PageOK(p) /\ p.at = page.at /\ p.word = page.word /\ p.at # "create"
  BY DEF PagesInv, TypeInv, PageOK, Page, Scope, SetFilter
<1>2. PageOK(page) /\ LoadsOK(loads, page) /\ behind \in BOOLEAN
  BY DEF PagesInv, TypeInv
<1>3. stored' \subseteq Scope
  BY DEF SetFilter, Stored, PagesInv, TypeInv
<1>4. UNCHANGED <<file, drawn, tour, edit, edits, behind>>
  BY DEF SetFilter
<1>5. CASE on \/ page.applied
  <2>1. RunEffects(p)
    BY <1>5 DEF SetFilter
  <2> HIDE DEF p
  <2> QED
    BY <1>1, <1>2, <1>3, <1>4, <2>1, RunEffectsSummary DEF QueryStep
<1>6. CASE ~(on \/ page.applied)
  BY <1>2, <1>3, <1>4, <1>6 DEF SetFilter, QueryStep
<1> QED
  BY <1>5, <1>6

\* Every change of the text asks anew, ...
LEMMA TypeSearchStep ==
  ASSUME PagesInv, TypeSearch
  PROVE  QueryStep
<1> DEFINE p == [page EXCEPT !.text = ~page.text]
<1>1. PageOK(p) /\ p.at = page.at /\ p.word = page.word /\ p.at # "create"
  BY DEF PagesInv, TypeInv, PageOK, Page, TypeSearch
<1>2. PageOK(page) /\ LoadsOK(loads, page) /\ stored \subseteq Scope /\ behind \in BOOLEAN
  BY DEF PagesInv, TypeInv
<1>3. RunEffects(p) /\ UNCHANGED <<file, drawn, stored, tour, edit, edits, behind>>
  BY DEF TypeSearch
<1> HIDE DEF p
<1> QED
  BY <1>1, <1>2, <1>3, RunEffectsSummary DEF QueryStep

\* ... and so do Filter, ...
LEMMA RefreshStep ==
  ASSUME PagesInv, Refresh
  PROVE  QueryStep
<1>1. PageOK(page) /\ LoadsOK(loads, page) /\ stored \subseteq Scope /\ behind \in BOOLEAN
  BY DEF PagesInv, TypeInv
<1>2. page.applied \in BOOLEAN /\ page.text \in BOOLEAN
  BY <1>1 DEF PageOK, Page
<1>3. /\ Reload(page.applied, page.text)
      /\ UNCHANGED <<file, drawn, stored, tour, edit, edits, behind>>
  BY DEF Refresh
<1> QED
  BY <1>1, <1>2, <1>3, ReloadSummary DEF QueryStep

\* ... and Clear, for the old text as well.
LEMMA ClearSearchStep ==
  ASSUME PagesInv, ClearSearch
  PROVE  QueryStep
<1> DEFINE cleared == [page EXCEPT !.text = FALSE]
           extra == IF page.text THEN Effects(cleared) ELSE EmptyBag
           q == Query(page, None)
           new == BagAdd(extra, q)
<1>1. PageOK(cleared) /\ cleared.at = page.at /\ cleared.word = page.word
  BY DEF PagesInv, TypeInv, PageOK, Page
<1>2. PageOK(page) /\ LoadsOK(loads, page) /\ stored \subseteq Scope /\ behind \in BOOLEAN
  BY DEF PagesInv, TypeInv
<1>3. page' = Loading(cleared) /\ loads' = loads (+) new
  BY DEF ClearSearch
<1>4. UNCHANGED <<file, drawn, stored, tour, edit, edits, behind>>
  BY DEF ClearSearch
<1> HIDE DEF cleared
<1>5. IsABag(extra) /\ BagToSet(extra) \subseteq {Query(cleared, None)}
  BY EffectsAreBag, EmptyBagIsBag
<1> HIDE DEF extra
<1>6. IsABag(new) /\ BagToSet(new) = BagToSet(extra) \cup {q}
  BY <1>5, AddedIsBag
<1>7. /\ q \in Load /\ q.linked \in {None, page.word}
      /\ Query(cleared, None) \in Load /\ Query(cleared, None).linked \in {None, page.word}
  BY <1>1, <1>2, QueryHasType
<1>8. PageOK(page') /\ page'.at = page.at /\ page'.word = page.word
  BY <1>1, <1>3, LoadingKeepsPage
<1> HIDE DEF q, new
<1>9. LoadsOK(loads', page') /\ loads' # EmptyBag
  BY <1>2, <1>3, <1>5, <1>6, <1>7, <1>8, MoreLoads DEF LoadsOK
<1> QED
  BY <1>2, <1>4, <1>8, <1>9 DEF QueryStep

\* An answer is current unless it is that of an older text or filter.
LEMMA AnswerStep ==
  ASSUME PagesInv, NEW q \in BagToSet(loads), Answer(q)
  PROVE  QueryStep
<1>1. PageOK(page) /\ LoadsOK(loads, page) /\ stored \subseteq Scope /\ file \in File
  BY DEF PagesInv, TypeInv, FilesOK
<1>2. q \in Load /\ q.linked \in {None, page.word}
  BY <1>1 DEF LoadsOK
<1> DEFINE link == IF q.linked = None THEN page.linked ELSE None
           first(shown) == (CHOOSE e \in shown : TRUE).word
           answer(shown) == IF page.at = "study" THEN page.answer /\ shown # {} ELSE page.answer
           last(shown) == IF page.at = "examples" /\ shown # {} THEN first(shown) ELSE None
<1>3. PICK shown \in Answers(file, page, q) :
        page' = [page EXCEPT
                   !.shown = shown, !.busy = FALSE, !.linked = link,
                   !.answer = answer(shown), !.last = last(shown)]
  BY DEF Answer
<1>4. shown \subseteq Entry
  BY <1>1, AnswersHaveTypes DEF PageOK, Page
<1>5. shown # {} => first(shown) \in Word
  <2>1. shown # {} => (CHOOSE e \in shown : TRUE) \in shown
    OBVIOUS
  <2> QED
    BY <1>4, <2>1 DEF Entry
<1> HIDE DEF first
<1>6. /\ answer(shown) \in BOOLEAN
      /\ answer(shown) => page.at = "examples" \/ (page.at = "study" /\ shown # {})
  BY <1>1 DEF PageOK, Page
<1>7. /\ last(shown) \in Word \cup {None}
      /\ last(shown) # None => page.at = "examples"
  BY <1>5
<1>8. link \in Word \cup {None} /\ link \in {None, page.word}
  BY <1>1 DEF PageOK, Page
<1> HIDE DEF answer, last, link
<1>9. /\ page' \in Page /\ ~page'.busy
      /\ page'.at = page.at /\ page'.word = page.word /\ page'.text = page.text
      /\ page'.applied = page.applied /\ page'.shown = shown
      /\ page'.linked = link
      /\ page'.answer = answer(shown) /\ page'.last = last(shown)
  BY <1>1, <1>3, <1>4, <1>6, <1>7, <1>8 DEF PageOK, Page
<1>10. PageOK(page')
  BY <1>1, <1>9, <1>6, <1>7, <1>8 DEF PageOK
<1>11. LoadsOK(loads', page')
  <2>1. loads' = BagRemove(loads, q)
    BY DEF Answer
  <2> QED
    BY <1>1, <1>9, <2>1, RemovedIsBag DEF LoadsOK
<1>12. behind' \in BOOLEAN /\ (~behind' => q.applied = page.applied /\ q.text = page.text)
  BY DEF Answer
<1>13. ~behind' => ShowsFile(file, page')
  BY <1>1, <1>2, <1>9, <1>12, AnswerShowsFile
<1> QED
  BY <1>1, <1>9, <1>10, <1>11, <1>12, <1>13 DEF QueryStep, Answer

\* A page whose load failed counts as behind.
LEMMA LoadFailsStep ==
  ASSUME PagesInv, NEW q \in BagToSet(loads), LoadFails(q)
  PROVE  QueryStep
<1>1. PageOK(page) /\ LoadsOK(loads, page) /\ stored \subseteq Scope
  BY DEF PagesInv, TypeInv
<1>2. page' = [page EXCEPT !.busy = FALSE] /\ loads' = BagRemove(loads, q) /\ behind' = TRUE
  BY DEF LoadFails
<1>3. PageOK(page') /\ ~page'.busy /\ page'.at = page.at /\ page'.word = page.word
  BY <1>1, <1>2 DEF PageOK, Page
<1>4. LoadsOK(loads', page')
  BY <1>1, <1>2, <1>3, RemovedIsBag DEF LoadsOK
<1> QED
  BY <1>1, <1>2, <1>3, <1>4 DEF QueryStep, LoadFails

\* Showing or hiding the answer changes nothing else.
LEMMA AnswerShown ==
  ASSUME PageOK(page), LoadsOK(loads, page), NEW b \in BOOLEAN,
         b => page.at = "examples" \/ (page.at = "study" /\ page.shown # {}),
         page' = [page EXCEPT !.answer = b], loads' = loads
  PROVE  /\ PageOK(page') /\ LoadsOK(loads', page') /\ page'.at = page.at
         /\ ShowsFile(file, page) => ShowsFile(file, page')
<1>1. /\ page' \in Page /\ page'.at = page.at /\ page'.word = page.word
      /\ page'.text = page.text /\ page'.applied = page.applied /\ page'.shown = page.shown
      /\ page'.linked = page.linked /\ page'.last = page.last /\ page'.busy = page.busy
      /\ page'.answer = b
  BY DEF PageOK, Page
<1>2. PageOK(page') /\ LoadsOK(loads', page')
  BY <1>1 DEF PageOK, LoadsOK
<1>3. ShowsFile(file, page) => ShowsFile(file, page')
  BY <1>1 DEF ShowsFile, Answers
<1> QED
  BY <1>1, <1>2, <1>3

\* Show Answer and Check.
LEMMA ShowAnswerStep ==
  ASSUME PagesInv, ShowAnswer
  PROVE  QueryStep
<1>1. PageOK(page) /\ LoadsOK(loads, page) /\ stored \subseteq Scope /\ behind \in BOOLEAN
  BY DEF PagesInv, TypeInv
<1> QED
  BY <1>1, AnswerShown DEF ShowAnswer, QueryStep

\* Next Example asks without the link.
LEMMA GoOnStep ==
  ASSUME PagesInv, GoOn
  PROVE  QueryStep
<1>1. PageOK(page) /\ LoadsOK(loads, page) /\ stored \subseteq Scope /\ behind \in BOOLEAN
  BY DEF PagesInv, TypeInv
<1>2. PageOK(page') /\ page'.at = page.at /\ page'.word = page.word
  BY <1>1, LoadingKeepsPage DEF GoOn
<1>3. Query(page, page.last) \in Load /\ Query(page, page.last).linked \in {None, page.word}
  BY <1>1, QueryHasType DEF PageOK, Page
<1>4. LoadsOK(loads', page') /\ loads' # EmptyBag
  BY <1>1, <1>2, <1>3, OneMoreLoad DEF GoOn, LoadsOK
<1> QED
  BY <1>1, <1>2, <1>4 DEF GoOn, QueryStep

-----------------------------------------------------------------------------
(* Edits                                                                   *)

\* A page up to date has words of the file.
LEMMA SettledShowsKnown ==
  ASSUME PagesInv, Settled, page.at \in {"study", "detail"}, NEW e \in page.shown
  PROVE  e.word \in Known(file) /\ (page.at = "detail" => e.word = page.word)
<1>1. ShowsFile(file, page)
  BY DEF PagesInv, ViewInv, Landing, Settled
<1> DEFINE q == [text |-> page.text, applied |-> page.applied, last |-> None, linked |-> None]
<1>2. \/ page.shown \in Answers(file, page, q)
      \/ page.at = "study" /\ page.word \in Known(file) /\ page.shown = {WithLevel(file, page.word)}
  BY <1>1 DEF ShowsFile
<1> HIDE DEF q
<1>3. CASE page.at = "detail"
  BY <1>2, <1>3 DEF Answers, GetWordById, Alone
<1>4. CASE page.at = "study"
  <2>1. \A w \in Known(file) : page.shown = {WithLevel(file, w)} => e.word = w
    BY DEF WithLevel
  <2>2. CASE page.shown \in NextCard(file, q)
    BY <2>1, <2>2, NextCardIsOne, <1>4
  <2>3. CASE page.word \in Known(file) /\ page.shown = {WithLevel(file, page.word)}
    BY <2>1, <2>3, <1>4
  <2> QED
    BY <1>2, <1>4, <2>2, <2>3 DEF Answers
<1> QED
  BY <1>3, <1>4

\* An edit begins on a page that goes on showing what it shows.
LEMMA BeginStep ==
  ASSUME PagesInv,
         NEW op, NEW w, NEW draft, NEW from, NEW todo, NEW mems,
         Begin(op, w, draft, from, todo, mems),
         op \in {"create", "update", "delete", "grade", "reset", "overwrite", "merge", "fetch"},
         w \in Word \cup {None}, draft \in Content \cup {None}, from \in OtherFiles \cup {None},
         todo \in SUBSET Word, mems \in SUBSET Word,
         op \in {"create", "update"} => draft \in Content,
         op \in {"update", "delete", "grade", "reset"} => w \in Word,
         op \in {"overwrite", "merge", "fetch"} => from \in OtherFiles,
         op = "merge" => todo \subseteq Known(from),
         op \in {"create", "update", "delete"} => page.at \in {"create", "detail"},
         op = "reset" => page.at = "detail",
         op \in {"grade", "reset"} /\ Settled => w \in Known(file),
         PageOK(page'), LoadsOK(loads', page'), page'.at = page.at,
         ShowsFile(file, page) => ShowsFile(file, page')
  PROVE  PagesInv'
<1> DEFINE current == Settled
<1>1. current \in BOOLEAN
  BY DEF Settled
<1>2. page.applied \in BOOLEAN /\ page.text \in BOOLEAN
  BY DEF PagesInv, TypeInv, PageOK, Page
<1>3. edit = None /\ edits' \in 0 .. MaxEdits
  BY BoundsAssumption DEF Begin, PagesInv, TypeInv
<1>4. UNCHANGED <<file, drawn, stored, tour, loads, behind>>
  BY DEF Begin
<1>5. edit' = [op |-> op, word |-> w, draft |-> draft, from |-> from,
               todo |-> todo, mems |-> mems, here |-> TRUE, current |-> current,
               applied |-> page.applied, text |-> page.text, at |-> "save"]
  BY DEF Begin
<1>6. current => Settled
  OBVIOUS
<1> HIDE DEF current
<1>7. /\ edit' \in Edit
      /\ edit'.op = op /\ edit'.word = w /\ edit'.draft = draft /\ edit'.from = from
      /\ edit'.todo = todo /\ edit'.at = "save" /\ edit'.current = current
  BY <1>1, <1>2, <1>5 DEF Edit
<1>8. EditOK(edit')
  BY <1>7 DEF EditOK
<1>9. TypeInv'
  BY <1>3, <1>4, <1>8 DEF PagesInv, TypeInv, FilesOK
<1>10. ViewInv'
  BY <1>3, <1>4 DEF PagesInv, ViewInv, Landing
<1>11. PlaceInv'
  BY <1>7 DEF PlaceInv
<1>12. WordInv'
  BY <1>4, <1>6, <1>7 DEF WordInv
<1> QED
  BY <1>9, <1>10, <1>11, <1>12 DEF PagesInv

\* The forms and dialogs edit what their page shows.
LEMMA FormStep ==
  ASSUME PagesInv, SubmitCreate \/ SubmitUpdate \/ ConfirmDelete \/ ConfirmReset
  PROVE  PagesInv'
<1>1. PageOK(page) /\ LoadsOK(loads, page)
  BY DEF PagesInv, TypeInv
<1>2. CASE SubmitCreate
  <2>1. PICK d \in Drafts : Begin("create", None, d, None, {}, {})
    BY <1>2 DEF SubmitCreate
  <2>2. page.at = "create" /\ page' = page /\ loads' = loads /\ file' = file
    BY <1>2, <2>1 DEF SubmitCreate, Begin
  <2> QED
    BY <1>1, <2>1, <2>2, BeginStep, FilesAssumption
<1>3. ASSUME NEW w \in Word, Shows(w)
      PROVE  page.at = "detail" /\ (Settled => w \in Known(file))
  <2>1. page.at = "detail" /\ page.shown # {} /\ w = page.word
    BY <1>3 DEF Shows
  <2> QED
    BY <2>1, SettledShowsKnown
<1>4. CASE SubmitUpdate
  <2>1. PICK w \in Word, d \in Drafts : Shows(w) /\ Begin("update", w, d, None, {}, {})
    BY <1>4 DEF SubmitUpdate
  <2>2. page' = page /\ loads' = loads /\ file' = file
    BY <1>4, <2>1 DEF SubmitUpdate, Begin
  <2> QED
    BY <1>1, <1>3, <2>1, <2>2, BeginStep, FilesAssumption
<1>5. CASE ConfirmDelete
  <2>1. PICK w \in Word : Shows(w) /\ Begin("delete", w, None, None, {}, {})
    BY <1>5 DEF ConfirmDelete
  <2>2. page' = page /\ loads' = loads /\ file' = file
    BY <1>5, <2>1 DEF ConfirmDelete, Begin
  <2> QED
    BY <1>1, <1>3, <2>1, <2>2, BeginStep
<1>6. CASE ConfirmReset
  <2>1. PICK w \in Word : Shows(w) /\ Begin("reset", w, None, None, {}, {})
    BY <1>6 DEF ConfirmReset
  <2>2. page' = page /\ loads' = loads /\ file' = file
    BY <1>6, <2>1 DEF ConfirmReset, Begin
  <2> QED
    BY <1>1, <1>3, <2>1, <2>2, BeginStep
<1> QED
  BY <1>2, <1>4, <1>5, <1>6

\* A rating grades the word that is shown.
LEMMA RateStep ==
  ASSUME PagesInv, Rate
  PROVE  PagesInv'
<1>1. PageOK(page) /\ LoadsOK(loads, page)
  BY DEF PagesInv, TypeInv
<1>2. PICK e \in page.shown : Begin("grade", e.word, None, None, {}, {})
  BY DEF Rate
<1>3. e.word \in Word /\ page.at = "study"
  BY ShownAreWords DEF Rate
<1>4. Settled => e.word \in Known(file)
  BY <1>3, SettledShowsKnown
<1>5. page' = [page EXCEPT !.answer = FALSE] /\ loads' = loads
  BY <1>2 DEF Rate, Begin
<1>6. /\ PageOK(page') /\ LoadsOK(loads', page') /\ page'.at = page.at
      /\ ShowsFile(file, page) => ShowsFile(file, page')
  BY <1>1, <1>5, AnswerShown
<1> QED
  BY <1>2, <1>3, <1>4, <1>6, BeginStep

\* An import or a fetch has a file to store.
LEMMA FileStep ==
  ASSUME PagesInv, ImportFile \/ FetchServerFile
  PROVE  PagesInv'
<1>1. PageOK(page) /\ LoadsOK(loads, page)
  BY DEF PagesInv, TypeInv
<1>2. PICK F \in OtherFiles :
        \/ Begin("overwrite", None, None, F, {}, {})
        \/ Begin("merge", None, None, F, Known(F) \ Known(file),
                 {w \in Word : F.memory[w] # "none" /\ file.memory[w] = "none"})
        \/ Begin("fetch", None, None, F, {}, {})
  BY DEF ImportFile, FetchServerFile
<1>3. page' = page /\ loads' = loads /\ file' = file
  BY <1>2 DEF ImportFile, FetchServerFile, Begin
<1>4. Known(F) \ Known(file) \in SUBSET Word /\ Known(F) \ Known(file) \subseteq Known(F)
  BY DEF Known
<1> DEFINE mems == {w \in Word : F.memory[w] # "none" /\ file.memory[w] = "none"}
<1>5. mems \in SUBSET Word
  OBVIOUS
<1>6. CASE Begin("overwrite", None, None, F, {}, {})
  BY <1>1, <1>3, <1>6, BeginStep
<1>7. CASE Begin("fetch", None, None, F, {}, {})
  BY <1>1, <1>3, <1>7, BeginStep
<1>8. CASE Begin("merge", None, None, F, Known(F) \ Known(file), mems)
  <2> HIDE DEF mems
  <2> QED
    BY <1>1, <1>3, <1>4, <1>5, <1>8, BeginStep
<1> QED
  BY <1>2, <1>6, <1>7, <1>8

\* What an edit may do to the words and memory states of the file.
GoneStayGone ==
  edit.op \notin {"overwrite", "fetch"} =>
    /\ \A w \in drawn : file.words[w] = None => file'.words[w] = None
    /\ edit.op # "merge" /\ edit.current => Orphans(file') \subseteq Orphans(file)

\* A step of an edit that stores a file: the edit goes on, on the same page.
SaveStep ==
  /\ Saving
  /\ \E f : Saved(f)
  /\ FilesOK'
  /\ GoneStayGone
  /\ EditOK(edit') /\ edit'.here = edit.here /\ edit'.op = edit.op
  /\ edit'.at = "mark" \/ edit'.op = "merge"
  /\ edit.op = "reset" => file'.words = file.words

\* A page that did not begin the edit falls behind, one that did will be told, and
\* a reset changes nothing that its page shows.
LEMMA SaveStepKeepsInv ==
  ASSUME PagesInv, SaveStep
  PROVE  PagesInv'
<1>1. /\ edit # None /\ edit.at = "save" /\ EditOK(edit)
      /\ behind' = (behind \/ ~edit.here) /\ UNCHANGED <<stored, tour, page, loads, edits>>
  BY DEF SaveStep, Saving, Saved, PagesInv, TypeInv
<1>2. TypeInv'
  <2>1. behind' \in BOOLEAN
    BY <1>1
  <2> QED
    BY <1>1, <2>1 DEF SaveStep, PagesInv, TypeInv
<1>3. edit' # None
  BY NoneAssumption DEF SaveStep, EditOK
<1>4. ViewInv'
  <2> SUFFICES ASSUME loads = EmptyBag, ~behind, edit.here, ~Landing'
               PROVE  ShowsFile(file', page')
    BY <1>1 DEF ViewInv
  <2>1. edit.op = "reset" /\ page.at = "detail"
    BY <1>1, <1>3 DEF SaveStep, Landing, PagesInv, PlaceInv
  <2>2. ShowsFile(file, page)
    BY <1>1, <2>1 DEF PagesInv, ViewInv, Landing
  <2>3. file'.words = file.words
    BY <2>1 DEF SaveStep
  <2>4. \A w : GetWordById(file', w) = GetWordById(file, w)
    BY <2>3 DEF GetWordById, Known, Alone
  <2> QED
    BY <1>1, <2>1, <2>2, <2>4 DEF ShowsFile, Answers
<1>5. PlaceInv'
  BY <1>1 DEF SaveStep, PagesInv, PlaceInv
<1>6. WordInv'
  BY DEF SaveStep, WordInv
<1> QED
  BY <1>2, <1>4, <1>5, <1>6 DEF PagesInv

\* The file is stored and the edit goes on to mark it.
LEMMA MarkingIsSave ==
  ASSUME PagesInv, Saving, NEW f, Saved(f), Marking, FilesOK', GoneStayGone,
         edit.op = "reset" => file'.words = file.words
  PROVE  SaveStep
<1>1. EditOK(edit)
  BY DEF PagesInv, TypeInv, Saving
<1>2. /\ EditOK(edit') /\ edit'.here = edit.here /\ edit'.op = edit.op
      /\ edit'.at = "mark"
  BY <1>1 DEF Marking, EditOK, Edit
<1> QED
  BY <1>2 DEF SaveStep

\* The file with another word has that word, and the others as before.
LEMMA PutWordChanges ==
  ASSUME NEW f \in File, NEW w \in Word, NEW c \in Content \cup {None}
  PROVE  /\ PutWord(f, w, c) \in File /\ PutWord(f, w, c).memory = f.memory
         /\ \A v \in Word : PutWord(f, w, c).words[v] = IF v = w THEN c ELSE f.words[v]
         /\ Known(PutWord(f, w, c)) \subseteq Known(f) \cup {w}
<1> DEFINE g == PutWord(f, w, c)
<1>1. /\ g.words = [f.words EXCEPT ![w] = c] /\ g.memory = f.memory
      /\ f.words \in [Word -> Content \cup {None}]
      /\ g = [words |-> g.words, memory |-> g.memory]
  BY DEF File, PutWord
<1> HIDE DEF g
<1>2. /\ g.words \in [Word -> Content \cup {None}]
      /\ \A v \in Word : g.words[v] = IF v = w THEN c ELSE f.words[v]
  BY <1>1
<1> QED
  BY <1>1, <1>2 DEF File, Known, g

\* So it is with a memory state.
LEMMA PutMemoryChanges ==
  ASSUME NEW f \in File, NEW w \in Word, NEW m \in Memory
  PROVE  /\ PutMemory(f, w, m) \in File /\ PutMemory(f, w, m).words = f.words
         /\ Known(PutMemory(f, w, m)) = Known(f)
         /\ \A v \in Word : PutMemory(f, w, m).memory[v] = IF v = w THEN m ELSE f.memory[v]
<1> DEFINE g == PutMemory(f, w, m)
<1>1. /\ g.memory = [f.memory EXCEPT ![w] = m] /\ g.words = f.words
      /\ f.memory \in [Word -> Memory]
      /\ g = [words |-> g.words, memory |-> g.memory]
  BY DEF File, PutMemory
<1> HIDE DEF g
<1>2. /\ g.memory \in [Word -> Memory]
      /\ \A v \in Word : g.memory[v] = IF v = w THEN m ELSE f.memory[v]
  BY <1>1
<1> QED
  BY <1>1, <1>2 DEF File, Known, g

\* A new word has an id of its own.
LEMMA SaveCreatedStep ==
  ASSUME PagesInv, SaveCreated
  PROVE  SaveStep
<1>1. PICK w \in Word \ drawn :
        /\ Saved(PutWord(file, w, edit.draft)) /\ drawn' = drawn \cup {w}
  BY DEF SaveCreated
<1>2. /\ edit.op = "create" /\ edit.draft \in Content /\ FilesOK
  BY DEF SaveCreated, Saving, PagesInv, TypeInv, EditOK
<1>3. file' = PutWord(file, w, edit.draft)
  BY <1>1 DEF Saved
<1>4. /\ file' \in File /\ file'.memory = file.memory
      /\ \A v \in Word : file'.words[v] = IF v = w THEN edit.draft ELSE file.words[v]
      /\ Known(file') \subseteq Known(file) \cup {w}
  BY <1>2, <1>3, PutWordChanges DEF FilesOK
<1>5. FilesOK'
  BY <1>1, <1>2, <1>4 DEF FilesOK
<1>6. GoneStayGone
  <2>1. \A v \in drawn : file.words[v] = None => file'.words[v] = None
    BY <1>2, <1>4 DEF FilesOK
  <2>2. Orphans(file') \subseteq Orphans(file)
    BY <1>4, <1>2, NoneAssumption DEF Orphans, Known
  <2> QED
    BY <2>1, <2>2 DEF GoneStayGone
<1> QED
  BY <1>1, <1>2, <1>5, <1>6, MarkingIsSave DEF SaveCreated

\* An update throws unless the word is there.
LEMMA SaveUpdatedStep ==
  ASSUME PagesInv, SaveUpdated
  PROVE  SaveStep
<1>1. /\ edit.op = "update" /\ edit.draft \in Content /\ edit.word \in Known(file)
      /\ edit.word \in Word /\ FilesOK
  BY DEF SaveUpdated, Saving, PagesInv, TypeInv, EditOK
<1>2. file' = PutWord(file, edit.word, edit.draft) /\ drawn' = drawn
  BY DEF SaveUpdated, Saved
<1>3. /\ file' \in File /\ file'.memory = file.memory
      /\ \A v \in Word : file'.words[v] = IF v = edit.word THEN edit.draft ELSE file.words[v]
      /\ Known(file') \subseteq Known(file) \cup {edit.word}
  BY <1>1, <1>2, PutWordChanges DEF FilesOK
<1>4. FilesOK'
  BY <1>1, <1>2, <1>3 DEF FilesOK
<1>5. GoneStayGone
  <2>1. \A v \in drawn : file.words[v] = None => file'.words[v] = None
    BY <1>1, <1>3 DEF FilesOK, Known
  <2>2. Orphans(file') \subseteq Orphans(file)
    BY <1>1, <1>3, NoneAssumption DEF Orphans, Known
  <2> QED
    BY <2>1, <2>2 DEF GoneStayGone
<1> QED
  BY <1>1, <1>4, <1>5, MarkingIsSave DEF SaveUpdated

\* A word is deleted with its memory state.
LEMMA SaveDeletedStep ==
  ASSUME PagesInv, SaveDeleted
  PROVE  SaveStep
<1>1. edit.op = "delete" /\ edit.word \in Word /\ FilesOK
  BY DEF SaveDeleted, Saving, PagesInv, TypeInv, EditOK
<1> DEFINE g == PutWord(file, edit.word, None)
<1>2. file' = PutMemory(g, edit.word, "none") /\ drawn' = drawn
  BY DEF SaveDeleted, Saved
<1>3. /\ g \in File /\ g.memory = file.memory
      /\ \A v \in Word : g.words[v] = IF v = edit.word THEN None ELSE file.words[v]
      /\ Known(g) \subseteq Known(file) \cup {edit.word}
  BY <1>1, PutWordChanges DEF FilesOK
<1> HIDE DEF g
<1>4. /\ file' \in File /\ file'.words = g.words
      /\ \A v \in Word : file'.memory[v] = IF v = edit.word THEN "none" ELSE file.memory[v]
  <2>1. "none" \in Memory
    BY DEF Memory
  <2> QED
    BY <1>1, <1>2, <1>3, <2>1, PutMemoryChanges
<1>5. Known(file') \subseteq Known(file)
  BY <1>3, <1>4 DEF Known
<1>6. FilesOK'
  BY <1>1, <1>2, <1>4, <1>5 DEF FilesOK
<1>7. GoneStayGone
  <2>1. \A v \in drawn : file.words[v] = None => file'.words[v] = None
    BY <1>1, <1>3, <1>4 DEF FilesOK
  <2>2. Orphans(file') \subseteq Orphans(file)
    BY <1>3, <1>4 DEF Orphans, Known
  <2> QED
    BY <2>1, <2>2 DEF GoneStayGone
<1> QED
  BY <1>1, <1>6, <1>7, MarkingIsSave DEF SaveDeleted

\* A memory state is made for a word the up-to-date page had from the file.
LEMMA SaveMemoryStep ==
  ASSUME PagesInv, SaveMemory
  PROVE  SaveStep
<1> DEFINE m == IF edit.op = "grade" THEN "answered" ELSE "fresh"
<1>1. edit.op \in {"grade", "reset"} /\ edit.word \in Word /\ FilesOK
  BY DEF SaveMemory, Saving, PagesInv, TypeInv, EditOK
<1>2. edit.current => edit.word \in Known(file)
  BY <1>1 DEF SaveMemory, Saving, PagesInv, WordInv
<1>3. file' = PutMemory(file, edit.word, m) /\ drawn' = drawn
  BY DEF SaveMemory, Saved
<1>4. m \in Memory
  BY DEF Memory
<1> HIDE DEF m
<1>5. /\ file' \in File /\ file'.words = file.words /\ Known(file') = Known(file)
      /\ \A v \in Word : file'.memory[v] = IF v = edit.word THEN m ELSE file.memory[v]
  BY <1>1, <1>3, <1>4, PutMemoryChanges DEF FilesOK
<1>6. FilesOK'
  BY <1>1, <1>3, <1>5 DEF FilesOK
<1>7. GoneStayGone
  <2>1. edit.current => Orphans(file') \subseteq Orphans(file)
    BY <1>2, <1>5 DEF Orphans
  <2> QED
    BY <1>5, <2>1 DEF GoneStayGone
<1> QED
  BY <1>5, <1>6, <1>7, MarkingIsSave DEF SaveMemory

\* A whole file may bring anything back.
LEMMA SaveWholeStep ==
  ASSUME PagesInv, SaveWhole
  PROVE  SaveStep
<1>1. edit.op \in {"overwrite", "fetch"} /\ edit.from \in OtherFiles /\ FilesOK
  BY DEF SaveWhole, Saving, PagesInv, TypeInv, EditOK
<1>2. file' = edit.from /\ drawn' = drawn
  BY DEF SaveWhole, Saved
<1>3. FilesOK'
  BY <1>1, <1>2, FilesAssumption DEF FilesOK
<1> QED
  BY <1>1, <1>3, MarkingIsSave DEF SaveWhole, GoneStayGone

\* A merge creates words under ids of their own ...
LEMMA MergeWordStep ==
  ASSUME PagesInv, MergeWord
  PROVE  SaveStep
<1>1. EditOK(edit) /\ FilesOK /\ edit.at = "save" /\ edit.op = "merge"
  BY DEF MergeWord, Saving, PagesInv, TypeInv
<1>2. edit.from \in File /\ edit.todo \subseteq Known(edit.from)
  BY <1>1, FilesAssumption DEF EditOK
<1>3. PICK w \in edit.todo, new \in Word \ drawn :
        /\ Saved(PutWord(file, new, edit.from.words[w]))
        /\ drawn' = drawn \cup {new}
        /\ edit' = [edit EXCEPT !.todo = @ \ {w}]
  BY DEF MergeWord
<1>4. edit.from.words[w] \in Content
  BY <1>2, <1>3 DEF Known, File
<1>5. file' = PutWord(file, new, edit.from.words[w])
  BY <1>3 DEF Saved
<1>6. /\ file' \in File
      /\ \A v \in Word : file'.words[v] = IF v = new THEN edit.from.words[w] ELSE file.words[v]
      /\ Known(file') \subseteq Known(file) \cup {new}
  BY <1>1, <1>4, <1>5, PutWordChanges DEF FilesOK
<1>7. FilesOK'
  BY <1>1, <1>3, <1>6 DEF FilesOK
<1>8. GoneStayGone
  BY <1>1, <1>6 DEF GoneStayGone, FilesOK
<1>9. EditOK(edit') /\ edit'.here = edit.here /\ edit'.op = edit.op
  BY <1>1, <1>3 DEF EditOK, Edit
<1> QED
  BY <1>1, <1>3, <1>7, <1>8, <1>9 DEF SaveStep, MergeWord

\* ... and memory states under the ids they came with.
LEMMA MergeMemoryStep ==
  ASSUME PagesInv, MergeMemory
  PROVE  SaveStep
<1>1. EditOK(edit) /\ FilesOK /\ edit.at = "save" /\ edit.op = "merge"
  BY DEF MergeMemory, Saving, PagesInv, TypeInv
<1>2. edit.from \in File /\ edit.mems \subseteq Word
  BY <1>1, FilesAssumption DEF EditOK, Edit
<1>3. PICK w \in edit.mems :
        /\ Saved(PutMemory(file, w, edit.from.memory[w]))
        /\ edit' = [edit EXCEPT !.mems = @ \ {w}]
  BY DEF MergeMemory
<1>4. w \in Word /\ edit.from.memory[w] \in Memory
  BY <1>2, <1>3 DEF File
<1>5. file' = PutMemory(file, w, edit.from.memory[w]) /\ drawn' = drawn
  BY <1>3 DEF Saved, MergeMemory
<1>6. file' \in File /\ file'.words = file.words /\ Known(file') = Known(file)
  BY <1>1, <1>4, <1>5, PutMemoryChanges DEF FilesOK
<1>7. FilesOK'
  BY <1>1, <1>5, <1>6 DEF FilesOK
<1>8. GoneStayGone
  BY <1>1, <1>6 DEF GoneStayGone
<1>9. EditOK(edit') /\ edit'.here = edit.here /\ edit'.op = edit.op
  BY <1>1, <1>3 DEF EditOK, Edit
<1> QED
  BY <1>1, <1>3, <1>7, <1>8, <1>9 DEF SaveStep, MergeMemory

\* A merge that is through goes on to mark the file.
LEMMA MergedStep ==
  ASSUME PagesInv, Merged
  PROVE  PagesInv'
<1>1. EditOK(edit) /\ edit.op = "merge" /\ edit # None
  BY DEF Merged, Saving, PagesInv, TypeInv
<1>2. /\ EditOK(edit') /\ edit'.op = edit.op /\ edit'.here = edit.here
      /\ edit'.at = "mark"
  BY <1>1 DEF Merged, Marking, EditOK, Edit
<1>3. UNCHANGED <<file, drawn, stored, tour, page, loads, edits, behind>>
  BY DEF Merged
<1>4. TypeInv'
  BY <1>2, <1>3 DEF PagesInv, TypeInv, FilesOK
<1>5. edit' # None
  BY <1>2, NoneAssumption DEF EditOK
<1>6. ViewInv'
  BY <1>1, <1>2, <1>3, <1>5 DEF PagesInv, ViewInv, Landing
<1>7. PlaceInv' /\ WordInv'
  BY <1>1, <1>2, <1>3 DEF PagesInv, PlaceInv, WordInv
<1> QED
  BY <1>4, <1>6, <1>7 DEF PagesInv

\* An edit that fails leaves a page that was up to date so, unless it had begun
\* to change the file.
LEMMA ThrownStep ==
  ASSUME PagesInv, Thrown
  PROVE  PagesInv'
<1>1. /\ edit' = None /\ edit # None /\ (edit.at = "save" \/ edit.op = "fetch")
      /\ behind' = (behind \/ edit.op = "merge" \/ edit.at = "mark")
      /\ UNCHANGED <<file, drawn, stored, tour, page, loads, edits>>
  BY DEF Thrown
<1>2. behind' \in BOOLEAN
  BY <1>1
<1>3. TypeInv'
  BY <1>1, <1>2 DEF PagesInv, TypeInv, FilesOK
<1>4. ViewInv'
  BY <1>1 DEF PagesInv, ViewInv, Landing
<1>5. PlaceInv' /\ WordInv'
  BY <1>1 DEF PlaceInv, WordInv
<1> QED
  BY <1>3, <1>4, <1>5 DEF PagesInv

\* An edit that is done leaves a page that loads again, or one it has not made
\* out of date.
LEMMA DoneStep ==
  ASSUME PagesInv, Done
  PROVE  PagesInv'
<1>1. /\ edit' = None /\ edit # None /\ edit.at = "mark" /\ EditOK(edit)
      /\ UNCHANGED <<file, drawn, stored, tour, edits>>
  BY DEF Done, PagesInv, TypeInv
<1>2. PageOK(page) /\ LoadsOK(loads, page) /\ behind \in BOOLEAN
  BY DEF PagesInv, TypeInv
<1>3. CASE edit.op \in {"create", "update", "delete"} /\ page.at # "list"
  <2>1. Mount("list", None)
    BY <1>3 DEF Done
  <2>2. /\ PageOK(page') /\ LoadsOK(loads', page') /\ behind' = FALSE
        /\ loads' = EmptyBag => ShowsFile(file', page')
    BY <2>1, MountSummary DEF At, Scope
  <2> QED
    BY <1>1, <2>2 DEF PagesInv, TypeInv, FilesOK, ViewInv, PlaceInv, WordInv
<1>4. CASE edit.op \in {"grade", "merge", "overwrite", "fetch"} /\ edit.here
  <2>1. Reload(edit.applied, edit.text) /\ behind' = behind
    BY <1>4 DEF Done
  <2>2. edit.applied \in BOOLEAN /\ edit.text \in BOOLEAN
    BY <1>1 DEF EditOK, Edit
  <2>3. PageOK(page') /\ LoadsOK(loads', page') /\ loads' # EmptyBag
    BY <1>2, <2>1, <2>2, ReloadSummary
  <2> QED
    BY <1>1, <2>1, <2>3 DEF PagesInv, TypeInv, FilesOK, ViewInv, PlaceInv, WordInv
<1>5. CASE /\ ~(edit.op \in {"create", "update", "delete"} /\ page.at # "list")
           /\ ~(edit.op \in {"grade", "merge", "overwrite", "fetch"} /\ edit.here)
  <2>1. UNCHANGED <<page, loads, behind>>
    BY <1>5 DEF Done
  <2>2. ~Landing
    BY <1>1, <1>5 DEF Landing, EditOK, Edit, PagesInv, PlaceInv
  <2>3. ViewInv'
    BY <1>1, <2>1, <2>2 DEF PagesInv, ViewInv
  <2>4. TypeInv'
    BY <1>1, <2>1 DEF PagesInv, TypeInv, FilesOK
  <2> QED
    BY <1>1, <2>3, <2>4 DEF PagesInv, PlaceInv, WordInv
<1> QED
  BY <1>3, <1>4, <1>5

-----------------------------------------------------------------------------
(* The theorems                                                            *)

\* The first page is mounted on a file the tab finds.
LEMMA PagesInit == Init => PagesInv
<1> SUFFICES ASSUME Init PROVE PagesInv
  OBVIOUS
<1>1. FilesOK
  <2>1. \A f \in StartFiles \cup OtherFiles : f \in File /\ Known(f) \subseteq drawn
    BY FilesAssumption DEF Init
  <2>2. drawn \subseteq Word
    BY DEF Init, Known
  <2> QED
    BY <2>1, <2>2 DEF Init, FilesOK
<1>2. PICK at \in tour \ {"detail"} : page = Mounted(at, None)
  BY DEF Init
<1>3. at \in At
  BY ToursAssumption DEF Init
<1>4. PageOK(page) /\ page.at = at
  BY <1>2, <1>3, MountedHasType
<1>5. /\ IsABag(loads) /\ BagToSet(loads) \subseteq {Query(page, None)}
      /\ at # "create" => loads # EmptyBag
  BY <1>4, EffectsAreBag, EmptyBagHasNoElement DEF Init
<1>6. at = "create" => ~page.busy /\ page.shown = {}
  BY <1>2 DEF Mounted
<1>7. LoadsOK(loads, page)
  BY <1>4, <1>5, <1>6, QueryHasType DEF LoadsOK
<1>8. TypeInv
  <2>1. stored \subseteq Scope /\ tour \in Tours
    BY DEF Init
  <2>2. MaxEdits \in Nat
    BY BoundsAssumption
  <2>3. edits \in 0 .. MaxEdits
    BY <2>2 DEF Init
  <2>4. edit = None /\ behind \in BOOLEAN
    BY DEF Init
  <2> QED
    BY <1>1, <1>4, <1>7, <2>1, <2>3, <2>4 DEF TypeInv
<1>9. ViewInv
  BY <1>4, <1>5, <1>6 DEF ViewInv, ShowsFile, Answers
<1> QED
  BY <1>8, <1>9 DEF Init, PagesInv, PlaceInv, WordInv

\* The steps that store a file are those of an edit.
LEMMA PagesNext ==
  ASSUME PagesInv, [Next]_vars
  PROVE  PagesInv' /\ (file' = file \/ SaveStep)
<1>1. CASE OpenPage \/ OpenForm \/ SelectWord \/ FollowLink
  <2>1. file' = file
    BY <1>1 DEF OpenPage, OpenForm, SelectWord, FollowLink, Visit
  <2> QED
    BY <1>1, <2>1, LeaveStep
<1>2. CASE \/ Restored \/ SetFilter(TRUE) \/ SetFilter(FALSE)
           \/ TypeSearch \/ Refresh \/ ClearSearch \/ LoadStep \/ ShowAnswer \/ GoOn
  <2>1. QueryStep
    BY <1>2, RestoredStep, SetFilterStep, TypeSearchStep, RefreshStep, ClearSearchStep,
       AnswerStep, LoadFailsStep, ShowAnswerStep, GoOnStep DEF LoadStep
  <2> QED
    BY <2>1, QueryStepKeepsInv DEF QueryStep
<1>3. CASE \/ SubmitCreate \/ SubmitUpdate \/ ConfirmDelete \/ ConfirmReset \/ Rate
           \/ ImportFile \/ FetchServerFile
  <2>1. file' = file
    BY <1>3 DEF SubmitCreate, SubmitUpdate, ConfirmDelete, ConfirmReset, Rate, ImportFile,
                FetchServerFile, Begin
  <2> QED
    BY <1>3, <2>1, FormStep, RateStep, FileStep
<1>4. CASE \/ SaveCreated \/ SaveUpdated \/ SaveDeleted \/ SaveMemory \/ SaveWhole
           \/ MergeWord \/ MergeMemory
  <2>1. SaveStep
    BY <1>4, SaveCreatedStep, SaveUpdatedStep, SaveDeletedStep, SaveMemoryStep, SaveWholeStep,
       MergeWordStep, MergeMemoryStep
  <2> QED
    BY <2>1, SaveStepKeepsInv
<1>5. CASE Merged \/ Thrown \/ Done
  <2>1. file' = file
    BY <1>5 DEF Merged, Thrown, Done
  <2> QED
    BY <1>5, <2>1, MergedStep, ThrownStep, DoneStep
<1>6. CASE UNCHANGED vars
  BY <1>6 DEF vars, PagesInv, TypeInv, FilesOK, ViewInv, Landing, PlaceInv, WordInv
<1> QED
  BY <1>1, <1>2, <1>3, <1>4, <1>5, <1>6 DEF Next, EditStep

\* The invariant holds.
LEMMA PagesInvariant == Spec => []PagesInv
<1>1. PagesInv /\ [Next]_vars => PagesInv'
  BY PagesNext
<1> QED
  BY PagesInit, <1>1, PTL DEF Spec

\* Every variable of the tab keeps its type; a busy page has a load under way.
THEOREM TypeCorrect == Spec => []TypeOK
<1>1. PagesInv => TypeOK
  BY DEF PagesInv, TypeInv, FilesOK, PageOK, LoadsOK, EditOK, TypeOK
<1> QED
  BY <1>1, PagesInvariant, PTL

\* A page at rest shows what the file holds, whatever was asked for, answered
\* out of order, left, edited, imported or synchronised before.
THEOREM ViewsAreCurrent == Spec => []ViewIsCurrent
<1>1. PagesInv => ViewIsCurrent
  <2> SUFFICES ASSUME PagesInv, Settled
               PROVE  ViewIsCurrent
    BY DEF ViewIsCurrent
  <2>1. ShowsFile(file, page)
    BY DEF PagesInv, ViewInv, Landing, Settled
  <2>2. None \notin Known(file)
    BY NoneAssumption DEF Known
  <2> QED
    BY <2>1, <2>2 DEF ShowsFile, ViewIsCurrent
<1> QED
  BY <1>1, PagesInvariant, PTL

\* A word that is gone comes back with a file alone and gets no memory state by
\* an edit of a page that was up to date when the edit was begun.
THEOREM GoneWordsStayGone == Spec => WordsStayGone
<1>1. ASSUME PagesInv, [Next]_vars
      PROVE  [file' # file /\ edit.op \notin {"overwrite", "fetch"} =>
                /\ \A w \in drawn : file.words[w] = None => file'.words[w] = None
                /\ edit.op # "merge" /\ edit.current => Orphans(file') \subseteq Orphans(file)]_vars
  BY <1>1, PagesNext DEF SaveStep, GoneStayGone
<1> QED
  BY <1>1, PagesInvariant, PTL DEF Spec, WordsStayGone
=============================================================================
