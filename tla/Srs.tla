-------------------------------- MODULE Srs --------------------------------
(***************************************************************************)
(* Spaced repetition: how a learner's answers move the memory states of    *)
(* words, and which word is asked next.                                    *)
(*                                                                         *)
(* Three programs grade. The words of the server's vault are graded by     *)
(* app/services.py ("server"); those of the synchronised vocabulary by the *)
(* web client (api/study.offline.ts, db/localRepository.ts: "web") and the *)
(* mobile client (domain/mobileLearningRepository.ts: "mobile"), which     *)
(* share the memory states they make.                                      *)
(*                                                                         *)
(* Time runs in slots of ten minutes, Day of them a day. The ease is       *)
(* counted in hundredths. The programs multiply it as a binary fraction,   *)
(* so a product that lies on a boundary of rounding may fall on either     *)
(* side of it: Rounded and Floored have both results.                      *)
(***************************************************************************)
EXTENDS Integers, FiniteSets, FiniteSetsExt

CONSTANTS
  Word,        (* the learner's words                                      *)
  New,         (* stands for the memory state of a word that has none      *)
  Day,         (* slots in a day (144)                                     *)
  MaxReviews,  (* bound: answers given                                     *)
  MaxInterval, (* bound: longer intervals are counted as this one          *)
  MaxNow       (* bound: slots that pass                                   *)

ASSUME WordAssumption == IsFiniteSet(Word)
ASSUME DayAssumption == Day \in Nat \ {0}
ASSUME BoundAssumption ==
  /\ MaxReviews \in Nat
  /\ MaxInterval \in Nat \ {0}
  /\ MaxNow \in Nat

VARIABLES
  apps,     (* the programs that grade these words                         *)
  memory,   (* the memory state of each word, or New                       *)
  now,      (* the current slot                                            *)
  reviews,  (* history: the answers given so far                           *)
  passed    (* history: the words graded, and not reset, since each word   *)
            (* became due                                                  *)

vars == <<apps, memory, now, reviews, passed>>

Rating == {"again", "hard", "good", "easy"}
Memory == [level : Int, ease : Int, interval : Int, count : Nat, due : Int]

ASSUME NewAssumption == New \notin Memory

-----------------------------------------------------------------------------
(* Arithmetic on the ease                                                  *)

AtLeast(low, n) == IF n < low THEN low ELSE n
AtMost(high, n) == IF n > high THEN high ELSE n

\* What round(n / d) may return.
Rounded(n, d) ==
  {q \in {n \div d, n \div d + 1} : 2 * (q * d - n) \in -d .. d}

\* What Math.floor(n / d) may return.
Floored(n, d) ==
  {n \div d} \cup {q \in {n \div d - 1} : n % d = 0}

-----------------------------------------------------------------------------
(* The graders: the memory states an answer may lead to, but for due       *)

\* The state a word without one is given: MemoryState's defaults.
Fresh(app) ==
  [level |-> 0, ease |-> 250, interval |-> IF app = "mobile" THEN 1 ELSE 0,
   count |-> 0, due |-> now]

\* _next_interval_days.
NextIntervals(m, ease) ==
  CASE m.count <= 0 -> {1}
    [] m.count = 1 -> {3}
    [] m.count = 2 -> {7}
    [] OTHER -> {AtLeast(1, q) : q \in Rounded(m.interval * ease, 100)}

\* Mutant: the level is not kept from falling below zero.
ServerAgainUnbounded(m) ==
  {[m EXCEPT !.level = @ - 1, !.ease = AtLeast(130, @ - 20), !.interval = 0]}

ServerAgain(m) ==
  {[m EXCEPT !.level = AtLeast(0, @ - 1), !.ease = AtLeast(130, @ - 20),
             !.interval = 0]}

ServerHard(m) ==
  {[m EXCEPT !.ease = AtLeast(130, @ - 5), !.interval = i] :
     i \in IF m.interval > 0
           THEN {AtLeast(1, q) : q \in Rounded(m.interval * 8, 10)}
           ELSE {1}}

ServerGood(m) ==
  {[m EXCEPT !.level = AtMost(5, @ + 1), !.interval = i] :
     i \in NextIntervals(m, m.ease)}

ServerEasy(m) ==
  LET ease == AtMost(250, m.ease + 10)
  IN  {[m EXCEPT !.level = AtMost(5, @ + 1), !.ease = ease, !.interval = i] :
         i \in UNION {{AtLeast(1, q) : q \in Rounded(base * 13, 10)} :
                        base \in NextIntervals(m, ease)}}

WebAgain(m) ==
  {[m EXCEPT !.level = 0, !.ease = AtLeast(130, @ - 20), !.interval = 1]}

\* Mutant: the interval after a hard answer is rounded up.
WebHardUp(m) ==
  {[m EXCEPT !.level = AtLeast(0, @), !.ease = AtLeast(130, @ - 15),
             !.interval = AtLeast(1, (@ * 12) \div 10 + 1)]}

WebHard(m) ==
  {[m EXCEPT !.level = AtLeast(0, @), !.ease = AtLeast(130, @ - 15),
             !.interval = AtLeast(1, (@ * 12) \div 10)]}

WebGood(m) ==
  {[m EXCEPT !.level = @ + 1, !.interval = i] :
     i \in IF m.interval = 0 THEN {1} ELSE Floored(m.interval * m.ease, 100)}

WebEasy(m) ==
  {[m EXCEPT !.level = @ + 1, !.ease = @ + 15, !.interval = i] :
     i \in IF m.interval = 0
           THEN {4}
           ELSE Floored(m.interval * m.ease * 13, 1000)}

MobileAgain(m) == {[m EXCEPT !.level = AtLeast(0, @ - 1), !.interval = 1]}

MobileHard(m) ==
  {[m EXCEPT !.level = @ + 1, !.interval = AtLeast(1, i)] :
     i \in Rounded(m.interval * 12, 10)}

MobileGood(m) ==
  {[m EXCEPT !.level = @ + 1, !.interval = AtLeast(1, 2 * @)]}

MobileEasy(m) ==
  {[m EXCEPT !.level = @ + 1, !.interval = AtLeast(2, 3 * @)]}

\* grade_card, calculateNextReview, nextIntervalByRating: what the rating
\* does to level, ease and interval.
Rated(app, m, r) ==
  CASE app = "server" /\ r = "again" -> ServerAgain(m)
    [] app = "server" /\ r = "hard" -> ServerHard(m)
    [] app = "server" /\ r = "good" -> ServerGood(m)
    [] app = "server" /\ r = "easy" -> ServerEasy(m)
    [] app = "web" /\ r = "again" -> WebAgain(m)
    [] app = "web" /\ r = "hard" -> WebHard(m)
    [] app = "web" /\ r = "good" -> WebGood(m)
    [] app = "web" /\ r = "easy" -> WebEasy(m)
    [] app = "mobile" /\ r = "again" -> MobileAgain(m)
    [] app = "mobile" /\ r = "hard" -> MobileHard(m)
    [] app = "mobile" /\ r = "good" -> MobileGood(m)
    [] app = "mobile" /\ r = "easy" -> MobileEasy(m)

\* The wait until the word is due again: ten minutes after the server's
\* again, interval days otherwise.
Wait(app, m, r) ==
  IF app = "server" /\ r = "again" THEN 1 ELSE m.interval * Day

\* The memory states of a word after the answer r. (No grader tells review
\* counts from three on apart, so counting stops there.)
Graded(app, m, r) ==
  {[n EXCEPT !.count = AtMost(3, @ + 1),
             !.interval = AtMost(MaxInterval, @),
             !.due = now + AtMost(MaxInterval * Day, Wait(app, n, r))] :
     n \in Rated(app, m, r)}

-----------------------------------------------------------------------------
(* The next card                                                           *)

\* The state a card is asked or graded with.
StateOf(app, w) == IF memory[w] = New THEN Fresh(app) ELSE memory[w]

Earliest(app, S) ==
  {w \in S : \A v \in S : StateOf(app, w).due <= StateOf(app, v).due}

Lowest(app, S) ==
  {w \in S : \A v \in S : StateOf(app, w).level <= StateOf(app, v).level}

Due(w) == memory[w] # New /\ memory[w].due <= now

\* The server reads the clock for a missing state after it read it for the
\* comparison: a new word is not due there.
DueWords(app, S) ==
  {w \in S : Due(w) \/ (memory[w] = New /\ app # "server")}

\* Mutant: a level has to exceed 4.
MasteredAboveFour(app, S) == \A w \in S : StateOf(app, w).level > 4

Mastered(app, S) == \A w \in S : StateOf(app, w).level >= 4

\* Mutant: the lowest of the due words is asked first.
NextCardsLowestDue(app, S) ==
  IF app = "mobile" THEN Earliest(app, S) ELSE
  IF DueWords(app, S) # {} THEN Earliest(app, Lowest(app, DueWords(app, S))) ELSE
  IF Mastered(app, S) THEN {} ELSE
  Earliest(app, Lowest(app, S))

\* get_next_card, getNextCard, nextCard: the words of the chosen tags that
\* come first, none when there is nothing to study.
NextCards(app, S) ==
  IF app = "mobile" THEN Earliest(app, S) ELSE
  IF DueWords(app, S) # {} THEN Lowest(app, Earliest(app, DueWords(app, S))) ELSE
  IF Mastered(app, S) THEN {} ELSE
  Earliest(app, Lowest(app, S))

-----------------------------------------------------------------------------
(* The learner                                                             *)

\* The state of a word that was always answered again.
Worn(app) ==
  [level |-> 0, ease |-> 130, interval |-> IF app = "server" THEN 0 ELSE 1,
   count |-> 3, due |-> now]

\* The state of a word that was answered good three times.
Learnt(app) ==
  [level |-> 3, ease |-> 250, count |-> 3, due |-> now,
   interval |-> AtMost(MaxInterval, IF app = "server" THEN 7 ELSE 5)]

\* Each word is new, or has the state of defaults (the mobile client gives it
\* to a word it creates, the import of a hand-written file to one of the
\* server), or has a past.
Init ==
  /\ apps \in {{"server"}, {"web", "mobile"}}
  /\ now = 0
  /\ memory \in [Word -> {New} \cup {Worn(app) : app \in apps \ {"mobile"}}
                               \cup {Learnt(app) : app \in apps \ {"mobile"}}
                               \cup {Fresh(app) : app \in apps \ {"web"}}]
  /\ reviews = 0
  /\ passed = [w \in Word |-> {}]

\* w is graded: the words that are due now wait for one more.
Grade(app, w, r) ==
  /\ reviews < MaxReviews
  /\ \E m \in Graded(app, StateOf(app, w), r) :
       memory' = [memory EXCEPT ![w] = m]
  /\ reviews' = reviews + 1
  /\ passed' = [v \in Word |-> IF v = w THEN {} ELSE
                               IF Due(v) THEN passed[v] \cup {w} ELSE passed[v]]
  /\ UNCHANGED <<apps, now>>

\* StudyPage, StudyScreen, GET /study/next: the next card of the chosen tags
\* is asked and graded.
Study(app, S, w, r) ==
  /\ app \in apps
  /\ w \in NextCards(app, S)
  /\ Grade(app, w, r)

\* A card opened from the word (preferredWordId), the examples quiz of the
\* mobile client, or a request to /study/grade: any word may be graded.
GradeChosen(app, w, r) ==
  /\ app \in apps
  /\ Grade(app, w, r)

\* reset_memory removes the state; the web client writes a fresh one; the
\* mobile client does so unless there is none.
ResetMemory(app, w) ==
  /\ app \in apps
  /\ app = "mobile" => memory[w] # New
  /\ memory' = [memory EXCEPT ![w] = IF app = "server" THEN New ELSE Fresh(app)]
  /\ passed' = [v \in Word |-> IF v = w THEN {} ELSE passed[v] \ {w}]
  /\ UNCHANGED <<apps, now, reviews>>

\* The learner pauses.
Tick ==
  /\ now < MaxNow
  /\ now' = now + 1
  /\ UNCHANGED <<apps, memory, reviews, passed>>

Next ==
  \/ \E app \in apps, S \in SUBSET Word, w \in Word, r \in Rating :
       Study(app, S, w, r)
  \/ \E app \in apps, w \in Word, r \in Rating : GradeChosen(app, w, r)
  \/ \E app \in apps, w \in Word : ResetMemory(app, w)
  \/ Tick

Spec == Init /\ [][Next]_vars

-----------------------------------------------------------------------------
(* Properties                                                              *)

\* What a grader may store. Only the server's keeps the documented ranges
\* (docs/MEMORY_LEVEL_SPEC.md: levels 0 to 5, ease 1.3 to 2.5); the clients'
\* graders have their lower ends and bound neither from above, though the web
\* client's "should match the server-side logic".
States(A) ==
  IF A = {"server"}
  THEN [level : 0 .. 5, ease : 130 .. 250, interval : Nat, count : Nat,
        due : Nat]
  ELSE [level : Nat, ease : {e \in Nat : e >= 130}, interval : Nat,
        count : Nat, due : Nat]

\* Type invariant: what is stored stays within States, that is within the
\* documented ranges at the server, and not below them at the clients.
TypeOK ==
  /\ apps \in {{"server"}, {"web", "mobile"}}
  /\ memory \in [Word -> {New} \cup States(apps)]
  /\ now \in Nat
  /\ reviews \in Nat
  /\ passed \in [Word -> SUBSET Word]

\* No overtaking: while a word that has a memory state is due, no other word
\* is asked that was already graded since it became due, whichever client
\* asks, under every choice of tags and whatever was graded out of turn. So a
\* due word waits for each other word at most once.
NoOvertaking ==
  \A app \in apps : \A S \in SUBSET Word : \A v \in S :
    Due(v) => NextCards(app, S) \cap passed[v] = {}

\* The better an answer, the later the word comes back, in every memory state
\* that answers to any of the programs that share it can lead to: none of the
\* outcomes of an answer is due before one of a worse answer.
BetterAnswersComeLater ==
  LET Waits(app, w, r) == {Wait(app, m, r) : m \in Rated(app, StateOf(app, w), r)}
      Ordered(app, w, r, better) ==
        \A i \in Waits(app, w, r), j \in Waits(app, w, better) : i <= j
  IN  \A app \in apps, w \in Word :
        /\ Ordered(app, w, "again", "hard")
        /\ Ordered(app, w, "hard", "good")
        /\ Ordered(app, w, "good", "easy")

\* How many answers a session still takes: every word has to reach level 4 and
\* to be asked if it is due.
Remaining(app) ==
  LET Owed(w) == LET level == StateOf(app, w).level
                 IN  IF level < 4 THEN 4 - level ELSE IF Due(w) THEN 1 ELSE 0
  IN  MapThenSumSet(Owed, Word)

\* A session ends: as long as answers are owed the server and the web client
\* ask a word, when none is they say that there is nothing left to study, and
\* every good or easy answer to an asked word brings that nearer, whatever the
\* words went through before. So a session of good answers takes at most four
\* per word.
SessionEnds ==
  [][\A app \in apps \ {"mobile"} :
       /\ (Remaining(app) = 0) = (NextCards(app, Word) = {})
       /\ (\E w \in Word, r \in {"good", "easy"} : Study(app, Word, w, r))
            => Remaining(app)' < Remaining(app)]_vars

=============================================================================
