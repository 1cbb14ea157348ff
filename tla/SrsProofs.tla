------------------------------ MODULE SrsProofs ------------------------------
(***************************************************************************)
(* Theorems about Srs, for any words, any length of a day and any bounds.  *)
(***************************************************************************)
EXTENDS Srs, TLAPS

(* Products and roundings                                                  *)

\* A product of positive numbers is at least each of them.
LEMMA ProductIsPositive ==
  ASSUME NEW a \in Nat, NEW b \in Nat, a >= 1, b >= 1
  PROVE  a * b \in Nat /\ a * b >= 1 /\ a * b >= b
<1>1. a * b \in Nat
  OBVIOUS
<1>2. (a - 1) * b >= 0
  OBVIOUS
<1>3. (a - 1) * b = a * b - b
  OBVIOUS
<1>. QED
  BY <1>1, <1>2, <1>3

\* Rounding gives an integer, and what the programs make of it is positive.
LEMMA RoundedIsInt ==
  ASSUME NEW n \in Nat, NEW d \in Nat \ {0}, NEW q \in Rounded(n, d)
  PROVE  q \in Int
BY DEF Rounded

LEMMA RoundedIsPositive ==
  ASSUME NEW n \in Nat, NEW d \in Nat \ {0}, NEW q \in Rounded(n, d)
  PROVE  AtLeast(1, q) \in Nat /\ AtLeast(1, q) >= 1
BY RoundedIsInt DEF AtLeast

\* Rounding down what is at least 1.3 gives at least 1, on either side of a
\* boundary.
LEMMA FlooredIsPositive ==
  ASSUME NEW n \in Nat,
         NEW q, \/ n >= 130 /\ q \in Floored(n, 100)
                \/ n >= 1300 /\ q \in Floored(n, 1000)
  PROVE  q \in Nat /\ q >= 1
BY DEF Floored

-----------------------------------------------------------------------------
(* The graders                                                             *)

Vault == {"server"}
Synced == {"web", "mobile"}

\* The states of either kind of memory.
LEMMA VaultStates ==
  States(Vault) = [level : 0 .. 5, ease : 130 .. 250, interval : Nat,
                   count : Nat, due : Nat]
BY DEF States, Vault

LEMMA SyncedStates ==
  States(Synced) = [level : Nat, ease : {e \in Nat : e >= 130}, interval : Nat,
                    count : Nat, due : Nat]
<1>1. Synced # {"server"}
  BY DEF Synced
<1>. QED
  BY <1>1 DEF States

\* Both are memory states, due at some slot.
LEMMA StatesAreMemories ==
  ASSUME NEW A \in {Vault, Synced}, NEW m \in States(A)
  PROVE  m \in Memory /\ m # New /\ m.due \in Nat
<1>1. CASE A = Vault
  <2>1. m \in [level : 0 .. 5, ease : 130 .. 250, interval : Nat, count : Nat,
               due : Nat]
    BY <1>1, VaultStates
  <2>. QED
    BY <2>1, NewAssumption DEF Memory
<1>2. CASE A = Synced
  <2>1. m \in [level : Nat, ease : {e \in Nat : e >= 130}, interval : Nat,
               count : Nat, due : Nat]
    BY <1>2, SyncedStates
  <2>. QED
    BY <2>1, NewAssumption DEF Memory
<1>. QED
  BY <1>1, <1>2

\* m with another level, ease and interval.
With(m, level, ease, interval) ==
  [level |-> level, ease |-> ease, interval |-> interval, count |-> m.count,
   due |-> m.due]

LEMMA WithOfVault ==
  ASSUME NEW m \in States(Vault),
         NEW l \in 0 .. 5, NEW e \in 130 .. 250, NEW i \in Nat
  PROVE  With(m, l, e, i) \in States(Vault) /\ With(m, l, e, i).interval = i
BY VaultStates DEF With

LEMMA WithOfSynced ==
  ASSUME NEW m \in States(Synced),
         NEW l \in Nat, NEW e \in Nat, e >= 130, NEW i \in Nat
  PROVE  With(m, l, e, i) \in States(Synced) /\ With(m, l, e, i).interval = i
BY SyncedStates DEF With

\* The server's grader keeps level and ease in range, and leaves a word due in
\* at least a day unless it was answered again.
LEMMA ServerGrades ==
  ASSUME NEW m \in States(Vault), NEW r \in Rating,
         NEW n \in Rated("server", m, r)
  PROVE  n \in States(Vault) /\ (r # "again" => n.interval >= 1)
<1>1. /\ m.level \in 0 .. 5 /\ m.ease \in 130 .. 250 /\ m.interval \in Nat
      /\ m = With(m, m.level, m.ease, m.interval)
  BY VaultStates DEF With
<1>2. CASE r = "again"
  <2>1. n \in ServerAgain(m)
    BY <1>2 DEF Rated
  <2>2. n = With(m, AtLeast(0, m.level - 1), AtLeast(130, m.ease - 20), 0)
    BY <1>1, <2>1 DEF ServerAgain, With
  <2>3. AtLeast(0, m.level - 1) \in 0 .. 5 /\ AtLeast(130, m.ease - 20) \in 130 .. 250
    BY <1>1 DEF AtLeast
  <2>. QED
    BY <1>2, <2>2, <2>3, WithOfVault
<1>3. CASE r = "hard"
  <2>1. n \in ServerHard(m)
    BY <1>3 DEF Rated
  <2>2. PICK i \in IF m.interval > 0
                    THEN {AtLeast(1, q) : q \in Rounded(m.interval * 8, 10)}
                    ELSE {1} :
          n = [m EXCEPT !.ease = AtLeast(130, @ - 5), !.interval = i]
    BY <2>1 DEF ServerHard
  <2>3. n = With(m, m.level, AtLeast(130, m.ease - 5), i)
    BY <1>1, <2>2 DEF With
  <2>4. i \in Nat /\ i >= 1
    <3>1. m.interval * 8 \in Nat
      BY <1>1
    <3>. QED
      BY <2>2, <3>1, RoundedIsPositive
  <2>5. AtLeast(130, m.ease - 5) \in 130 .. 250
    BY <1>1 DEF AtLeast
  <2>. QED
    <3>0. PICK d \in 130 .. 250 : n = With(m, m.level, d, i)
      BY <2>3, <2>5
    <3>1. n \in States(Vault) /\ n.interval = i
      BY <1>1, <2>4, <3>0, WithOfVault
    <3>. QED
      BY <2>4, <3>1
<1>4. ASSUME NEW e \in 130 .. 250, NEW i \in NextIntervals(m, e)
      PROVE  i \in Nat /\ i >= 1
  <2>1. m.interval * e \in Nat
    BY <1>1
  <2>. QED
    BY <1>4, <2>1, RoundedIsPositive DEF NextIntervals
<1>5. AtMost(5, m.level + 1) \in 0 .. 5
  BY <1>1 DEF AtMost
<1>6. CASE r = "good"
  <2>1. n \in ServerGood(m)
    BY <1>6 DEF Rated
  <2>2. PICK i \in NextIntervals(m, m.ease) :
          n = [m EXCEPT !.level = AtMost(5, @ + 1), !.interval = i]
    BY <2>1 DEF ServerGood
  <2>3. n = With(m, AtMost(5, m.level + 1), m.ease, i)
    BY <1>1, <2>2 DEF With
  <2>. QED
    <3>1. i \in Nat /\ i >= 1
      BY <1>1, <1>4
    <3>2. n \in States(Vault) /\ n.interval = i
      BY <1>1, <1>5, <2>3, <3>1, WithOfVault
    <3>. QED
      BY <3>1, <3>2
<1>7. CASE r = "easy"
  <2>. DEFINE e == AtMost(250, m.ease + 10)
              Intervals == UNION {{AtLeast(1, q) : q \in Rounded(base * 13, 10)} :
                                    base \in NextIntervals(m, e)}
  <2>1. n \in ServerEasy(m)
    BY <1>7 DEF Rated
  <2>2. PICK i \in Intervals :
          n = [m EXCEPT !.level = AtMost(5, @ + 1), !.ease = e, !.interval = i]
    BY <2>1 DEF ServerEasy
  <2>3. e \in 130 .. 250
    BY <1>1 DEF AtMost
  <2>4. PICK base \in NextIntervals(m, e) :
          \E q \in Rounded(base * 13, 10) : i = AtLeast(1, q)
    OBVIOUS
  <2>5. base * 13 \in Nat
    BY <1>4, <2>3
  <2>6. i \in Nat /\ i >= 1
    BY <2>4, <2>5, RoundedIsPositive
  <2>7. n = With(m, AtMost(5, m.level + 1), e, i)
    BY <1>1, <2>2 DEF With
  <2>. QED
    <3>0. PICK l \in 0 .. 5, d \in 130 .. 250 : n = With(m, l, d, i)
      BY <1>5, <2>3, <2>7
    <3>1. n \in States(Vault) /\ n.interval = i
      BY <2>6, <3>0, WithOfVault
    <3>. QED
      BY <2>6, <3>1
<1>. QED
  BY <1>2, <1>3, <1>6, <1>7 DEF Rating

\* The clients' graders keep the ease at 1.3 or above and leave a word due in
\* at least a day.
LEMMA ClientGrades ==
  ASSUME NEW app \in Synced, NEW m \in States(Synced), NEW r \in Rating,
         NEW n \in Rated(app, m, r)
  PROVE  n \in States(Synced) /\ n.interval >= 1
<1>1. /\ m.level \in Nat /\ m.interval \in Nat
      /\ m.ease \in Nat /\ m.ease >= 130
      /\ m = With(m, m.level, m.ease, m.interval)
  BY SyncedStates DEF With
<1>2. SUFFICES \E l \in Nat, e \in {d \in Nat : d >= 130}, i \in Nat \ {0} :
                 n = With(m, l, e, i)
  BY WithOfSynced
<1>3. CASE app = "web" /\ r = "again"
  <2>1. n \in WebAgain(m)
    BY <1>3 DEF Rated
  <2>2. n = With(m, 0, AtLeast(130, m.ease - 20), 1)
    BY <1>1, <2>1 DEF WebAgain, With
  <2>. QED
    BY <1>1, <2>2 DEF AtLeast
<1>4. CASE app = "web" /\ r = "hard"
  <2>1. n \in WebHard(m)
    BY <1>4 DEF Rated
  <2>2. n = With(m, AtLeast(0, m.level), AtLeast(130, m.ease - 15),
                 AtLeast(1, (m.interval * 12) \div 10))
    BY <1>1, <2>1 DEF WebHard, With
  <2>3. AtLeast(1, (m.interval * 12) \div 10) \in Nat \ {0}
    BY <1>1 DEF AtLeast
  <2>4. AtLeast(0, m.level) \in Nat /\ AtLeast(130, m.ease - 15) \in {d \in Nat : d >= 130}
    BY <1>1 DEF AtLeast
  <2>. QED
    BY <2>2, <2>3, <2>4
<1>5. ASSUME m.interval # 0
      PROVE  m.interval * m.ease \in Nat /\ m.interval * m.ease >= 130
  BY <1>1, <1>5, ProductIsPositive
<1>6. CASE app = "web" /\ r = "good"
  <2>1. n \in WebGood(m)
    BY <1>6 DEF Rated
  <2>2. PICK i \in IF m.interval = 0 THEN {1}
                    ELSE Floored(m.interval * m.ease, 100) :
          n = [m EXCEPT !.level = @ + 1, !.interval = i]
    BY <2>1 DEF WebGood
  <2>3. i \in Nat \ {0}
    BY <1>5, <2>2, FlooredIsPositive
  <2>4. n = With(m, m.level + 1, m.ease, i)
    BY <1>1, <2>2 DEF With
  <2>. QED
    BY <1>1, <2>3, <2>4
<1>7. CASE app = "web" /\ r = "easy"
  <2>. DEFINE Intervals == IF m.interval = 0 THEN {4}
                           ELSE Floored(m.interval * m.ease * 13, 1000)
  <2>1. n \in {[m EXCEPT !.level = @ + 1, !.ease = @ + 15, !.interval = i] :
                  i \in Intervals}
    BY <1>7 DEF Rated, WebEasy
  <2>2. \A i \in Intervals : i \in Nat \ {0}
    <3>1. CASE m.interval = 0
      BY <3>1
    <3>2. CASE m.interval # 0
      <4>. DEFINE p == m.interval * m.ease
      <4>1. p \in Nat /\ p >= 130
        BY <1>5, <3>2
      <4>2. Intervals = Floored(p * 13, 1000)
        BY <3>2
      <4>. HIDE DEF p, Intervals
      <4>3. p * 13 \in Nat /\ p * 13 >= 1300
        BY <4>1
      <4>. QED
        BY <4>2, <4>3, FlooredIsPositive
    <3>. QED
      BY <3>1, <3>2
  <2>. HIDE DEF Intervals
  <2>3. PICK i \in Intervals :
          n = [m EXCEPT !.level = @ + 1, !.ease = @ + 15, !.interval = i]
    BY <2>1
  <2>4. n = With(m, m.level + 1, m.ease + 15, i)
    BY <1>1, <2>3 DEF With
  <2>. QED
    <3>1. m.level + 1 \in Nat /\ m.ease + 15 \in {d \in Nat : d >= 130}
      BY <1>1
    <3>. QED
      BY <2>2, <2>3, <2>4, <3>1
<1>8. CASE app = "mobile" /\ r = "again"
  <2>1. n \in MobileAgain(m)
    BY <1>8 DEF Rated
  <2>2. n = With(m, AtLeast(0, m.level - 1), m.ease, 1)
    BY <1>1, <2>1 DEF MobileAgain, With
  <2>. QED
    BY <1>1, <2>2 DEF AtLeast
<1>9. CASE app = "mobile" /\ r = "hard"
  <2>1. n \in MobileHard(m)
    BY <1>9 DEF Rated
  <2>2. PICK q \in Rounded(m.interval * 12, 10) :
          n = [m EXCEPT !.level = @ + 1, !.interval = AtLeast(1, q)]
    BY <2>1 DEF MobileHard
  <2>3. m.interval * 12 \in Nat
    BY <1>1
  <2>4. AtLeast(1, q) \in Nat \ {0}
    BY <2>2, <2>3, RoundedIsPositive
  <2>5. n = With(m, m.level + 1, m.ease, AtLeast(1, q))
    BY <1>1, <2>2 DEF With
  <2>. QED
    BY <1>1, <2>4, <2>5
<1>10. CASE app = "mobile" /\ r = "good"
  <2>1. n \in MobileGood(m)
    BY <1>10 DEF Rated
  <2>2. n = With(m, m.level + 1, m.ease, AtLeast(1, 2 * m.interval))
    BY <1>1, <2>1 DEF MobileGood, With
  <2>. QED
    BY <1>1, <2>2 DEF AtLeast
<1>11. CASE app = "mobile" /\ r = "easy"
  <2>1. n \in MobileEasy(m)
    BY <1>11 DEF Rated
  <2>2. n = With(m, m.level + 1, m.ease, AtLeast(2, 3 * m.interval))
    BY <1>1, <2>1 DEF MobileEasy, With
  <2>. QED
    BY <1>1, <2>2 DEF AtLeast
<1>. QED
  BY <1>3, <1>4, <1>6, <1>7, <1>8, <1>9, <1>10, <1>11 DEF Rating, Synced

\* Whatever the answer, the word comes back in the future, and in range.
LEMMA GradedComesLater ==
  ASSUME NEW A \in {Vault, Synced}, NEW app \in A, now \in Nat,
         NEW m \in States(A), NEW r \in Rating, NEW n \in Graded(app, m, r)
  PROVE  n \in States(A) /\ n.due > now
<1>1. PICK k \in Rated(app, m, r) :
        n = [k EXCEPT !.count = AtMost(3, @ + 1),
                      !.interval = AtMost(MaxInterval, @),
                      !.due = now + AtMost(MaxInterval * Day, Wait(app, k, r))]
  BY DEF Graded
<1>2. /\ k \in States(A)
      /\ k.interval >= 1 \/ (app = "server" /\ r = "again")
  <2>1. CASE A = Vault
    BY <1>1, <2>1, ServerGrades DEF Vault
  <2>2. CASE A = Synced
    BY <1>1, <2>2, ClientGrades
  <2>. QED
    BY <2>1, <2>2
<1>3. /\ k.interval \in Nat /\ k.count \in Nat
      /\ k = [level |-> k.level, ease |-> k.ease, interval |-> k.interval,
              count |-> k.count, due |-> k.due]
  <2>1. CASE A = Vault
    BY <1>2, <2>1, VaultStates
  <2>2. CASE A = Synced
    BY <1>2, <2>2, SyncedStates
  <2>. QED
    BY <2>1, <2>2
<1>4. Wait(app, k, r) \in Nat /\ Wait(app, k, r) >= 1
  <2>1. CASE app = "server" /\ r = "again"
    BY <2>1 DEF Wait
  <2>2. CASE ~(app = "server" /\ r = "again")
    <3>1. k.interval * Day \in Nat /\ k.interval * Day >= 1
      BY <1>2, <1>3, <2>2, DayAssumption, ProductIsPositive
    <3>. QED
      BY <2>2, <3>1 DEF Wait
  <2>. QED
    BY <2>1, <2>2
<1>5. MaxInterval * Day \in Nat /\ MaxInterval * Day >= 1
  BY BoundAssumption, DayAssumption, ProductIsPositive
<1>6. PICK d \in Nat : d = now + AtMost(MaxInterval * Day, Wait(app, k, r)) /\ d > now
  BY <1>4, <1>5 DEF AtMost
<1>7. PICK i \in Nat : i = AtMost(MaxInterval, k.interval)
  BY <1>3, BoundAssumption DEF AtMost
<1>8. PICK c \in Nat : c = AtMost(3, k.count + 1)
  BY <1>3 DEF AtMost
<1>9. n = [level |-> k.level, ease |-> k.ease, interval |-> i, count |-> c,
           due |-> d]
  BY <1>1, <1>3, <1>6, <1>7, <1>8
<1>10. n \in States(A)
  <2>1. CASE A = Vault
    BY <1>2, <1>9, <2>1, VaultStates
  <2>2. CASE A = Synced
    BY <1>2, <1>9, <2>2, SyncedStates
  <2>. QED
    BY <2>1, <2>2
<1>. QED
  BY <1>6, <1>9, <1>10

-----------------------------------------------------------------------------
(* Type correctness                                                        *)

\* A state can be found for every word.
LEMMA StateOfTyped ==
  ASSUME TypeOK, NEW app \in apps, NEW w \in Word
  PROVE  StateOf(app, w) \in States(apps)
<1>1. Fresh(app) \in States(apps)
  <2>1. CASE apps = Vault
    BY <2>1, VaultStates DEF Fresh, TypeOK
  <2>2. CASE apps = Synced
    BY <2>2, SyncedStates DEF Fresh, TypeOK
  <2>. QED
    BY <2>1, <2>2 DEF TypeOK, Vault, Synced
<1>. QED
  BY <1>1 DEF StateOf, TypeOK

\* What grading changes.
LEMMA GradeEffect ==
  ASSUME TypeOK, NEW app \in apps, NEW w \in Word, NEW r \in Rating,
         Grade(app, w, r)
  PROVE  /\ \E m \in States(apps) :
              m.due > now /\ memory' = [memory EXCEPT ![w] = m]
         /\ passed' = [v \in Word |-> IF v = w THEN {} ELSE
                                      IF Due(v) THEN passed[v] \cup {w}
                                      ELSE passed[v]]
         /\ reviews' = reviews + 1
         /\ UNCHANGED <<apps, now>>
<1>1. apps \in {Vault, Synced} /\ now \in Nat
  BY DEF TypeOK, Vault, Synced
<1>. QED
  BY <1>1, StateOfTyped, GradedComesLater DEF Grade

\* The invariant TypeOK of the run srs holds for any words and bounds: the
\* server keeps level within 0..5 and ease within 1.3..2.5 whatever it is
\* answered; the clients make no negative level or interval and no ease below
\* 1.3, but they keep no upper bound.
THEOREM TypeCorrect == Spec => []TypeOK
<1>1. Init => TypeOK
  <2>. SUFFICES ASSUME Init PROVE TypeOK
    OBVIOUS
  <2>1. AtMost(MaxInterval, 7) \in Nat /\ AtMost(MaxInterval, 5) \in Nat
    BY BoundAssumption DEF AtMost
  <2>2. CASE apps = Vault
    <3>1. /\ Worn("server") \in States(Vault) /\ Learnt("server") \in States(Vault)
          /\ Fresh("server") \in States(Vault)
      BY <2>1, VaultStates DEF Init, Worn, Learnt, Fresh
    <3>. QED
      BY <2>2, <3>1 DEF Init, TypeOK, Vault
  <2>3. CASE apps = Synced
    <3>1. /\ Worn("web") \in States(Synced) /\ Learnt("web") \in States(Synced)
          /\ Fresh("mobile") \in States(Synced)
      BY <2>1, SyncedStates DEF Init, Worn, Learnt, Fresh
    <3>. QED
      BY <2>3, <3>1 DEF Init, TypeOK, Synced
  <2>. QED
    BY <2>2, <2>3 DEF Init, Vault, Synced
<1>2. TypeOK /\ [Next]_vars => TypeOK'
  <2>. SUFFICES ASSUME TypeOK, [Next]_vars PROVE TypeOK'
    OBVIOUS
  <2>1. ASSUME NEW app \in apps, NEW w \in Word, NEW r \in Rating,
               Grade(app, w, r)
        PROVE  TypeOK'
    BY <2>1, GradeEffect DEF TypeOK
  <2>2. ASSUME NEW app \in apps, NEW S \in SUBSET Word, NEW w \in Word,
               NEW r \in Rating, Study(app, S, w, r)
        PROVE  TypeOK'
    BY <2>1, <2>2 DEF Study
  <2>3. ASSUME NEW app \in apps, NEW w \in Word, NEW r \in Rating,
               GradeChosen(app, w, r)
        PROVE  TypeOK'
    BY <2>1, <2>3 DEF GradeChosen
  <2>4. ASSUME NEW app \in apps, NEW w \in Word, ResetMemory(app, w)
        PROVE  TypeOK'
    <3>1. Fresh(app) \in States(apps)
      <4>1. CASE apps = Vault
        BY <4>1, VaultStates DEF Fresh, TypeOK
      <4>2. CASE apps = Synced
        BY <4>2, SyncedStates DEF Fresh, TypeOK
      <4>. QED
        BY <4>1, <4>2 DEF TypeOK, Vault, Synced
    <3>. QED
      BY <2>4, <3>1 DEF ResetMemory, TypeOK
  <2>5. CASE Tick
    BY <2>5 DEF Tick, TypeOK
  <2>6. CASE UNCHANGED vars
    BY <2>6 DEF vars, TypeOK
  <2>. QED
    BY <2>2, <2>3, <2>4, <2>5, <2>6 DEF Next
<1>. QED
  BY <1>1, <1>2, PTL DEF Spec

-----------------------------------------------------------------------------
(* No overtaking                                                           *)

\* A word that was graded since another became due is due after it: its new
\* time was in the future then. This is why no client asks it first.
PassedIsLater ==
  \A v \in Word : \A u \in passed[v] :
    /\ Due(v)
    /\ memory[u] # New
    /\ memory[u].due > memory[v].due

\* Whoever sorts the due words by the time they became due, or all of them,
\* does not ask a later one.
LEMMA EarliestIsFair ==
  ASSUME TypeOK, PassedIsLater
  PROVE  NoOvertaking
<1>. SUFFICES ASSUME NEW app \in apps, NEW S \in SUBSET Word, NEW v \in S, Due(v),
                     NEW u \in NextCards(app, S), u \in passed[v]
              PROVE  FALSE
  BY DEF NoOvertaking
<1>1. u \in Word /\ memory[u] # New /\ memory[u].due > memory[v].due
  BY DEF PassedIsLater, TypeOK
<1>2. ~(StateOf(app, u).due <= StateOf(app, v).due)
  <2>1. StateOf(app, u) = memory[u] /\ StateOf(app, v) = memory[v]
    BY <1>1 DEF StateOf, Due
  <2>2. memory[u].due \in Nat /\ memory[v].due \in Nat
    <3>1. memory[u] \in States(apps) /\ memory[v] \in States(apps)
      BY <1>1 DEF TypeOK, Due
    <3>2. apps \in {Vault, Synced}
      BY DEF TypeOK, Vault, Synced
    <3>. QED
      BY <3>1, <3>2, StatesAreMemories
  <2>. QED
    BY <1>1, <2>1, <2>2
<1>3. v \in DueWords(app, S)
  BY DEF DueWords
<1>4. CASE app = "mobile"
  BY <1>2, <1>4 DEF NextCards, Earliest
<1>5. CASE app # "mobile"
  BY <1>2, <1>3, <1>5 DEF NextCards, Earliest, Lowest
<1>. QED
  BY <1>4, <1>5

\* The invariant NoOvertaking of the run srs holds for any words, however many,
\* under any answers: a due word is overtaken by each other word at most once.
THEOREM NobodyOvertakes == Spec => []NoOvertaking
<1>1. Init => PassedIsLater
  BY DEF Init, PassedIsLater
<1>2. TypeOK /\ PassedIsLater /\ [Next]_vars => PassedIsLater'
  <2>. SUFFICES ASSUME TypeOK, PassedIsLater, [Next]_vars PROVE PassedIsLater'
    OBVIOUS
  <2>0. /\ memory \in [Word -> {New} \cup States(apps)] /\ now \in Nat
        /\ passed \in [Word -> SUBSET Word]
        /\ \A s \in States(apps) : s # New /\ s.due \in Nat
    <3>1. apps \in {Vault, Synced}
      BY DEF TypeOK, Vault, Synced
    <3>. QED
      BY <3>1, StatesAreMemories DEF TypeOK
  <2>1. ASSUME NEW app \in apps, NEW w \in Word, NEW r \in Rating,
               Grade(app, w, r)
        PROVE  PassedIsLater'
    <3>1. PICK m \in States(apps) :
            m.due > now /\ memory' = [memory EXCEPT ![w] = m]
      BY <2>1, GradeEffect
    <3>2. /\ passed' = [v \in Word |-> IF v = w THEN {} ELSE
                                       IF Due(v) THEN passed[v] \cup {w}
                                       ELSE passed[v]]
          /\ now' = now
      BY <2>1, GradeEffect
    <3>. SUFFICES ASSUME NEW v \in Word, NEW u \in passed'[v]
                  PROVE  /\ Due(v)'
                         /\ memory'[u] # New
                         /\ memory'[u].due > memory'[v].due
      BY DEF PassedIsLater
    <3>3. v # w /\ memory'[v] = memory[v]
      BY <2>0, <3>1, <3>2
    <3>4. Due(v)
      BY <3>2, <3>3 DEF PassedIsLater
    <3>5. Due(v)'
      BY <3>2, <3>3, <3>4 DEF Due
    <3>6. memory[v].due \in Nat /\ memory[v].due <= now
      BY <2>0, <3>4 DEF Due
    <3>7. CASE u = w
      BY <2>0, <3>1, <3>3, <3>5, <3>6, <3>7
    <3>8. CASE u # w
      <4>1. u \in passed[v] /\ u \in Word
        BY <2>0, <3>2, <3>3, <3>4, <3>8
      <4>. QED
        BY <2>0, <3>1, <3>3, <3>5, <3>8, <4>1 DEF PassedIsLater
    <3>. QED
      BY <3>7, <3>8
  <2>2. ASSUME NEW app \in apps, NEW S \in SUBSET Word, NEW w \in Word,
               NEW r \in Rating, Study(app, S, w, r)
        PROVE  PassedIsLater'
    BY <2>1, <2>2 DEF Study
  <2>3. ASSUME NEW app \in apps, NEW w \in Word, NEW r \in Rating,
               GradeChosen(app, w, r)
        PROVE  PassedIsLater'
    BY <2>1, <2>3 DEF GradeChosen
  <2>4. ASSUME NEW app \in apps, NEW w \in Word, ResetMemory(app, w)
        PROVE  PassedIsLater'
    <3>. SUFFICES ASSUME NEW v \in Word, NEW u \in passed'[v]
                  PROVE  /\ Due(v)'
                         /\ memory'[u] # New
                         /\ memory'[u].due > memory'[v].due
      BY DEF PassedIsLater
    <3>1. v # w /\ u # w /\ u \in passed[v] /\ u \in Word
      BY <2>0, <2>4 DEF ResetMemory
    <3>2. memory'[v] = memory[v] /\ memory'[u] = memory[u] /\ now' = now
      BY <2>0, <2>4, <3>1 DEF ResetMemory
    <3>. QED
      BY <3>1, <3>2 DEF PassedIsLater, Due
  <2>5. CASE Tick
    <3>. SUFFICES ASSUME NEW v \in Word, NEW u \in passed[v]
                  PROVE  /\ Due(v)'
                         /\ memory[u] # New
                         /\ memory[u].due > memory[v].due
      BY <2>5 DEF PassedIsLater, Tick
    <3>1. Due(v) /\ memory[v].due \in Nat
      BY <2>0 DEF PassedIsLater, Due
    <3>. QED
      BY <2>0, <2>5, <3>1 DEF PassedIsLater, Due, Tick
  <2>6. CASE UNCHANGED vars
    BY <2>6 DEF vars, PassedIsLater, Due
  <2>. QED
    BY <2>2, <2>3, <2>4, <2>5, <2>6 DEF Next
<1>. QED
  BY <1>1, <1>2, TypeCorrect, EarliestIsFair, PTL DEF Spec

-----------------------------------------------------------------------------
(* Better answers come later                                               *)

\* Products of whole numbers grow with their factors.
LEMMA ProductGrows ==
  ASSUME NEW a \in Nat, NEW b \in Nat, NEW c \in Nat, a <= b
  PROVE  /\ a * c \in Nat /\ b * c \in Nat /\ a * c <= b * c
         /\ a < b /\ c >= 1 => a * c < b * c
<1>1. a * c \in Nat /\ b * c \in Nat
  OBVIOUS
<1>2. (b - a) * c = b * c - a * c
  OBVIOUS
<1>3. (b - a) * c >= 0
  OBVIOUS
<1>4. ASSUME a < b, c >= 1
      PROVE  (b - a) * c >= 1
  BY <1>4, ProductIsPositive
<1>. QED
  BY <1>1, <1>2, <1>3, <1>4

LEMMA ProductCommutes ==
  ASSUME NEW a \in Nat, NEW b \in Nat
  PROVE  a * b = b * a
OBVIOUS

\* How far a rounded quotient may be from the exact one.
LEMMA RoundedIsNear ==
  ASSUME NEW n \in Nat, NEW d \in Nat \ {0}, NEW q \in Rounded(n, d)
  PROVE  q \in Int /\ -d <= 2 * (q * d - n) /\ 2 * (q * d - n) <= d
<1>1. q \in Int /\ 2 * (q * d - n) \in -d .. d
  BY RoundedIsInt DEF Rounded
<1>. QED
  BY <1>1

LEMMA FlooredIsNear ==
  ASSUME NEW n \in Nat, NEW q
  PROVE  /\ q \in Floored(n, 100) => q \in Int /\ 100 * q <= n /\ n - 100 <= 100 * q
         /\ q \in Floored(n, 1000) => q \in Int /\ 1000 * q <= n /\ n - 1000 <= 1000 * q
BY DEF Floored

\* The server's third answer and later ones: 0.8 i days after hard are no more
\* than ease * i after good.
LEMMA HardBeforeGood ==
  ASSUME NEW i \in Nat, i >= 1, NEW p \in Nat, p >= 130 * i,
         NEW q \in Rounded(i * 8, 10), NEW g \in Rounded(p, 100)
  PROVE  AtLeast(1, q) <= AtLeast(1, g)
<1>1. q \in Int /\ 2 * (q * 10 - i * 8) <= 10
  BY RoundedIsNear
<1>2. g \in Int /\ -100 <= 2 * (g * 100 - p)
  BY RoundedIsNear
<1>3. q <= AtLeast(1, g)
  BY <1>1, <1>2 DEF AtLeast
<1>. QED
  BY <1>1, <1>2, <1>3 DEF AtLeast

\* The same after easy, where the interval is rounded, with the ease already
\* raised, before it is multiplied by 1.3 and rounded again. A product on a
\* boundary may be rounded up for good and down for easy: that makes no
\* difference but for 150, and an ease that cannot be raised is not below 250.
LEMMA GoodBeforeEasy ==
  ASSUME NEW p \in Nat, NEW p2 \in Nat, p <= p2, p = p2 => p = 0 \/ p >= 250,
         NEW g \in Rounded(p, 100), NEW b \in Rounded(p2, 100),
         NEW e \in Rounded(AtLeast(1, b) * 13, 10)
  PROVE  AtLeast(1, g) <= AtLeast(1, e)
<1>1. g \in Int /\ 2 * (g * 100 - p) <= 100
  BY RoundedIsNear
<1>2. b \in Int /\ -100 <= 2 * (b * 100 - p2)
  BY RoundedIsNear
<1>3. PICK base \in Nat : base = AtLeast(1, b) /\ base >= b /\ base >= 1
                            /\ (b >= 1 => base = b) /\ (b <= 1 => base = 1)
  BY <1>2 DEF AtLeast
<1>4. e \in Int /\ -10 <= 2 * (e * 10 - base * 13)
  BY <1>3, RoundedIsNear
<1>5. CASE base >= 2
  <2>1. e >= base + 1
    BY <1>4, <1>5
  <2>2. g <= b + 1
    BY <1>1, <1>2
  <2>. QED
    BY <1>1, <1>2, <1>3, <1>4, <2>1, <2>2 DEF AtLeast
<1>6. CASE base = 1
  <2>1. e >= 1
    BY <1>4, <1>6
  <2>2. b <= 1
    BY <1>2, <1>3, <1>6
  <2>3. p2 <= 150
    BY <1>2, <2>2
  <2>4. p < 150
    BY <2>3
  <2>5. g <= 1
    BY <1>1, <2>4
  <2>. QED
    BY <1>1, <1>4, <2>1, <2>5 DEF AtLeast
<1>. QED
  BY <1>3, <1>5, <1>6

\* The web client rounds down.
LEMMA WebHardBeforeGood ==
  ASSUME NEW i \in Nat, i >= 1, NEW p \in Nat, p >= 130 * i, NEW g \in Floored(p, 100)
  PROVE  AtLeast(1, (i * 12) \div 10) <= g
<1>1. g \in Int /\ p - 100 <= 100 * g
  BY FlooredIsNear
<1>2. PICK h \in Nat : h = (i * 12) \div 10 /\ 10 * h <= 12 * i
  OBVIOUS
<1>3. h <= g /\ 1 <= g
  BY <1>1, <1>2
<1>. QED
  BY <1>1, <1>2, <1>3 DEF AtLeast

LEMMA WebGoodBeforeEasy ==
  ASSUME NEW p \in Nat, p >= 130, NEW g \in Floored(p, 100), NEW e \in Floored(p * 13, 1000)
  PROVE  g <= e
<1>1. g \in Int /\ 100 * g <= p
  BY FlooredIsNear
<1>2. e \in Int /\ p * 13 - 1000 <= 1000 * e
  BY FlooredIsNear
<1>. QED
  BY <1>1, <1>2

\* The intervals each rating may lead to.
IntervalsAfter(app, m, r) ==
  {n.interval : n \in Rated(app, m, r)}

\* The intervals after the server's ratings.
LEMMA ServerIntervals ==
  ASSUME NEW m \in States(Vault), NEW i
  PROVE  /\ i \in IntervalsAfter("server", m, "again") => i = 0
         /\ i \in IntervalsAfter("server", m, "hard") =>
              i \in IF m.interval > 0
                    THEN {AtLeast(1, q) : q \in Rounded(m.interval * 8, 10)}
                    ELSE {1}
         /\ i \in IntervalsAfter("server", m, "good") => i \in NextIntervals(m, m.ease)
         /\ i \in IntervalsAfter("server", m, "easy") =>
              \E base \in NextIntervals(m, AtMost(250, m.ease + 10)) :
                \E q \in Rounded(base * 13, 10) : i = AtLeast(1, q)
<1>1. m \in [level : 0 .. 5, ease : 130 .. 250, interval : Nat, count : Nat, due : Nat]
  BY VaultStates
<1>2. i \in IntervalsAfter("server", m, "again") => i = 0
  BY <1>1 DEF IntervalsAfter, Rated, ServerAgain
<1>3. ASSUME i \in IntervalsAfter("server", m, "hard")
      PROVE  i \in IF m.interval > 0
                   THEN {AtLeast(1, q) : q \in Rounded(m.interval * 8, 10)}
                   ELSE {1}
  <2>. DEFINE Is == IF m.interval > 0
                    THEN {AtLeast(1, q) : q \in Rounded(m.interval * 8, 10)}
                    ELSE {1}
  <2>1. PICK n \in ServerHard(m) : i = n.interval
    BY <1>3 DEF IntervalsAfter, Rated
  <2>2. PICK j \in Is : n = [m EXCEPT !.ease = AtLeast(130, @ - 5), !.interval = j]
    BY <2>1 DEF ServerHard
  <2>3. n.interval = j
    BY <1>1, <2>2
  <2>. QED
    BY <2>1, <2>2, <2>3
<1>4. ASSUME i \in IntervalsAfter("server", m, "good")
      PROVE  i \in NextIntervals(m, m.ease)
  <2>1. PICK n \in ServerGood(m) : i = n.interval
    BY <1>4 DEF IntervalsAfter, Rated
  <2>2. PICK j \in NextIntervals(m, m.ease) :
          n = [m EXCEPT !.level = AtMost(5, @ + 1), !.interval = j]
    BY <2>1 DEF ServerGood
  <2>3. n.interval = j
    BY <1>1, <2>2
  <2>. QED
    BY <2>1, <2>2, <2>3
<1>5. ASSUME i \in IntervalsAfter("server", m, "easy")
      PROVE  \E base \in NextIntervals(m, AtMost(250, m.ease + 10)) :
               \E q \in Rounded(base * 13, 10) : i = AtLeast(1, q)
  <2>. DEFINE e == AtMost(250, m.ease + 10)
              Is == UNION {{AtLeast(1, q) : q \in Rounded(base * 13, 10)} :
                             base \in NextIntervals(m, e)}
  <2>1. PICK n \in ServerEasy(m) : i = n.interval
    BY <1>5 DEF IntervalsAfter, Rated
  <2>2. PICK j \in Is :
          n = [m EXCEPT !.level = AtMost(5, @ + 1), !.ease = e, !.interval = j]
    BY <2>1 DEF ServerEasy
  <2>3. n.interval = j
    BY <1>1, <2>2
  <2>. QED
    BY <2>1, <2>2, <2>3
<1>. QED
  BY <1>2, <1>3, <1>4, <1>5

\* The intervals after the clients' ratings.
LEMMA ClientIntervals ==
  ASSUME NEW m \in States(Synced), NEW i
  PROVE  /\ i \in IntervalsAfter("web", m, "again") => i = 1
         /\ i \in IntervalsAfter("web", m, "hard") =>
              i = AtLeast(1, (m.interval * 12) \div 10)
         /\ i \in IntervalsAfter("web", m, "good") =>
              i \in IF m.interval = 0 THEN {1} ELSE Floored(m.interval * m.ease, 100)
         /\ i \in IntervalsAfter("web", m, "easy") =>
              i \in IF m.interval = 0 THEN {4} ELSE Floored(m.interval * m.ease * 13, 1000)
         /\ i \in IntervalsAfter("mobile", m, "again") => i = 1
         /\ i \in IntervalsAfter("mobile", m, "hard") =>
              \E q \in Rounded(m.interval * 12, 10) : i = AtLeast(1, q)
         /\ i \in IntervalsAfter("mobile", m, "good") => i = AtLeast(1, 2 * m.interval)
         /\ i \in IntervalsAfter("mobile", m, "easy") => i = AtLeast(2, 3 * m.interval)
<1>1. m \in [level : Nat, ease : {e \in Nat : e >= 130}, interval : Nat, count : Nat,
             due : Nat]
  BY SyncedStates
<1>2. /\ i \in IntervalsAfter("web", m, "again") => i = 1
      /\ i \in IntervalsAfter("mobile", m, "again") => i = 1
  BY <1>1 DEF IntervalsAfter, Rated, WebAgain, MobileAgain
<1>3. i \in IntervalsAfter("web", m, "hard") => i = AtLeast(1, (m.interval * 12) \div 10)
  BY <1>1 DEF IntervalsAfter, Rated, WebHard
<1>4. ASSUME i \in IntervalsAfter("web", m, "good")
      PROVE  i \in IF m.interval = 0 THEN {1} ELSE Floored(m.interval * m.ease, 100)
  <2>. DEFINE Is == IF m.interval = 0 THEN {1} ELSE Floored(m.interval * m.ease, 100)
  <2>1. PICK n \in WebGood(m) : i = n.interval
    BY <1>4 DEF IntervalsAfter, Rated
  <2>2. PICK j \in Is : n = [m EXCEPT !.level = @ + 1, !.interval = j]
    BY <2>1 DEF WebGood
  <2>3. n.interval = j
    BY <1>1, <2>2
  <2>. QED
    BY <2>1, <2>2, <2>3
<1>5. ASSUME i \in IntervalsAfter("web", m, "easy")
      PROVE  i \in IF m.interval = 0 THEN {4} ELSE Floored(m.interval * m.ease * 13, 1000)
  <2>. DEFINE Is == IF m.interval = 0 THEN {4} ELSE Floored(m.interval * m.ease * 13, 1000)
  <2>1. PICK n \in WebEasy(m) : i = n.interval
    BY <1>5 DEF IntervalsAfter, Rated
  <2>2. n \in {[m EXCEPT !.level = @ + 1, !.ease = @ + 15, !.interval = x] : x \in Is}
    BY <2>1 DEF WebEasy
  <2>. HIDE DEF Is
  <2>3. PICK j \in Is : n = [m EXCEPT !.level = @ + 1, !.ease = @ + 15, !.interval = j]
    BY <2>2
  <2>4. n.interval = j
    BY <1>1, <2>3
  <2>. QED
    BY <2>1, <2>3, <2>4 DEF Is
<1>6. ASSUME i \in IntervalsAfter("mobile", m, "hard")
      PROVE  \E q \in Rounded(m.interval * 12, 10) : i = AtLeast(1, q)
  <2>1. PICK n \in MobileHard(m) : i = n.interval
    BY <1>6 DEF IntervalsAfter, Rated
  <2>2. PICK q \in Rounded(m.interval * 12, 10) :
          n = [m EXCEPT !.level = @ + 1, !.interval = AtLeast(1, q)]
    BY <2>1 DEF MobileHard
  <2>3. n.interval = AtLeast(1, q)
    BY <1>1, <2>2
  <2>. QED
    BY <2>1, <2>2, <2>3
<1>7. i \in IntervalsAfter("mobile", m, "good") => i = AtLeast(1, 2 * m.interval)
  BY <1>1 DEF IntervalsAfter, Rated, MobileGood
<1>8. i \in IntervalsAfter("mobile", m, "easy") => i = AtLeast(2, 3 * m.interval)
  BY <1>1 DEF IntervalsAfter, Rated, MobileEasy
<1>. QED
  BY <1>2, <1>3, <1>4, <1>5, <1>6, <1>7, <1>8

\* No rating counts the answer; Graded does.
LEMMA RatedKeepsCount ==
  ASSUME NEW m \in States(Vault), NEW r \in Rating, NEW n \in Rated("server", m, r)
  PROVE  n.count = m.count
<1>1. m \in [level : 0 .. 5, ease : 130 .. 250, interval : Nat, count : Nat, due : Nat]
  BY VaultStates
<1>2. CASE r = "again"
  BY <1>1, <1>2 DEF Rated, ServerAgain
<1>3. CASE r = "hard"
  BY <1>1, <1>3 DEF Rated, ServerHard
<1>4. CASE r = "good"
  BY <1>1, <1>4 DEF Rated, ServerGood
<1>5. CASE r = "easy"
  <2>. DEFINE e == AtMost(250, m.ease + 10)
              Is == UNION {{AtLeast(1, q) : q \in Rounded(base * 13, 10)} :
                             base \in NextIntervals(m, e)}
  <2>1. PICK j \in Is :
          n = [m EXCEPT !.level = AtMost(5, @ + 1), !.ease = e, !.interval = j]
    BY <1>5 DEF Rated, ServerEasy
  <2>. HIDE DEF Is, e
  <2>. QED
    BY <1>1, <2>1
<1>. QED
  BY <1>2, <1>3, <1>4, <1>5 DEF Rating

\* The first three answers of the server's grader set the interval whatever it
\* was. What it was is therefore bounded, and hard does not exceed good there.
Paced(m) ==
  /\ m.count = 0 => m.interval = 0
  /\ m.count = 1 => m.interval <= 1
  /\ m.count = 2 => m.interval <= 4

\* The intervals after an answer to a paced state, by the answers given before.
LEMMA PacedIntervals ==
  ASSUME NEW m \in States(Vault), Paced(m), NEW r \in Rating,
         NEW i \in IntervalsAfter("server", m, r)
  PROVE  /\ i \in Nat
         /\ m.count = 0 => i <= 1
         /\ m.count = 1 => i <= 4
<1>1. /\ m.interval \in Nat /\ m.count \in Nat /\ m.ease \in 130 .. 250
  BY VaultStates
<1>2. i \in Nat
  <2>1. PICK n \in Rated("server", m, r) : i = n.interval
    BY DEF IntervalsAfter
  <2>2. n \in States(Vault)
    BY <2>1, ServerGrades
  <2>. QED
    BY <2>1, <2>2, VaultStates
<1>3. CASE r = "again"
  BY <1>2, <1>3, ServerIntervals
<1>4. CASE r = "hard"
  <2>1. CASE m.interval > 0
    <3>1. PICK q \in Rounded(m.interval * 8, 10) : i = AtLeast(1, q)
      BY <1>4, <2>1, ServerIntervals
    <3>2. m.interval * 8 \in Nat
      BY <1>1
    <3>3. q \in Int /\ 2 * (q * 10 - m.interval * 8) <= 10
      BY <3>2, RoundedIsNear
    <3>4. m.count = 0 \/ m.count = 1 => m.interval <= 1
      BY <1>1 DEF Paced
    <3>5. m.count = 0 \/ m.count = 1 => q <= 1
      BY <1>1, <3>3, <3>4
    <3>. QED
      BY <1>2, <3>1, <3>3, <3>5 DEF AtLeast
  <2>2. CASE ~(m.interval > 0)
    <3>1. i = 1
      BY <1>4, <2>2, ServerIntervals
    <3>. QED
      BY <3>1
  <2>. QED
    BY <2>1, <2>2
<1>5. CASE r = "good"
  <2>1. i \in NextIntervals(m, m.ease)
    BY <1>5, ServerIntervals
  <2>. QED
    BY <1>1, <1>2, <2>1 DEF NextIntervals
<1>6. CASE r = "easy"
  <2>1. PICK base \in NextIntervals(m, AtMost(250, m.ease + 10)) :
               \E q \in Rounded(base * 13, 10) : i = AtLeast(1, q)
    BY <1>6, ServerIntervals
  <2>2. PICK q \in Rounded(base * 13, 10) : i = AtLeast(1, q)
    BY <2>1
  <2>3. (m.count = 0 => base = 1) /\ (m.count = 1 => base = 3)
    BY <1>1, <2>1 DEF NextIntervals
  <2>4. ASSUME base \in {1, 3}
        PROVE  q \in Int /\ 2 * (q * 10 - base * 13) <= 10
    <3>1. base * 13 \in Nat
      BY <2>4
    <3>. QED
      BY <3>1, RoundedIsNear
  <2>5. m.count = 0 => q \in Int /\ q <= 1
    BY <2>3, <2>4
  <2>6. m.count = 1 => q \in Int /\ q <= 4
    BY <2>3, <2>4
  <2>. QED
    BY <1>2, <2>2, <2>5, <2>6 DEF AtLeast
<1>. QED
  BY <1>3, <1>4, <1>5, <1>6 DEF Rating

\* A paced state leads to paced states, and so does a first one.
LEMMA GradedIsPaced ==
  ASSUME NEW m \in States(Vault), Paced(m), now \in Nat, NEW r \in Rating,
         NEW n \in Graded("server", m, r)
  PROVE  Paced(n)
<1>1. PICK k \in Rated("server", m, r) :
        n = [k EXCEPT !.count = AtMost(3, @ + 1),
                      !.interval = AtMost(MaxInterval, @),
                      !.due = now + AtMost(MaxInterval * Day, Wait("server", k, r))]
  BY DEF Graded
<1>2. k \in [level : 0 .. 5, ease : 130 .. 250, interval : Nat, count : Nat, due : Nat]
  BY ServerGrades, VaultStates
<1>3. k.count = m.count /\ m.count \in Nat
  BY RatedKeepsCount, VaultStates
<1>4. /\ k.interval \in Nat
      /\ m.count = 0 => k.interval <= 1
      /\ m.count = 1 => k.interval <= 4
  BY PacedIntervals DEF IntervalsAfter
<1>5. n.count = AtMost(3, m.count + 1) /\ n.interval = AtMost(MaxInterval, k.interval)
  <2>. DEFINE d == now + AtMost(MaxInterval * Day, Wait("server", k, r))
  <2>. HIDE DEF d
  <2>1. n = [k EXCEPT !.count = AtMost(3, @ + 1), !.interval = AtMost(MaxInterval, @),
                      !.due = d]
    BY <1>1 DEF d
  <2>. QED
    BY <1>2, <1>3, <2>1
<1>6. n.interval \in Int /\ n.interval <= k.interval
  BY <1>4, <1>5, BoundAssumption DEF AtMost
<1>7. n.count \in Nat /\ n.count # 0 /\ (n.count = 1 => m.count = 0)
        /\ (n.count = 2 => m.count = 1)
  BY <1>3, <1>5 DEF AtMost
<1>. QED
  BY <1>4, <1>6, <1>7 DEF Paced

\* On the server good never brings a word back before hard.
LEMMA ServerHardGood ==
  ASSUME NEW m \in States(Vault), Paced(m),
         NEW i \in IntervalsAfter("server", m, "hard"),
         NEW j \in IntervalsAfter("server", m, "good")
  PROVE  i <= j
<1>1. /\ m.interval \in Nat /\ m.count \in Nat /\ m.ease \in 130 .. 250
  BY VaultStates
<1>2. /\ j \in NextIntervals(m, m.ease)
      /\ i \in IF m.interval > 0
               THEN {AtLeast(1, q) : q \in Rounded(m.interval * 8, 10)}
               ELSE {1}
  BY ServerIntervals
<1>3. j \in Nat /\ j >= 1 /\ i \in Nat
  <2>1. "good" \in Rating /\ "hard" \in Rating
    BY DEF Rating
  <2>2. PICK n \in Rated("server", m, "good") : j = n.interval
    BY DEF IntervalsAfter
  <2>3. PICK k \in Rated("server", m, "hard") : i = k.interval
    BY DEF IntervalsAfter
  <2>4. n \in States(Vault) /\ k \in States(Vault) /\ n.interval >= 1
    BY <2>1, <2>2, <2>3, ServerGrades
  <2>. QED
    BY <2>2, <2>3, <2>4, VaultStates
<1>4. CASE m.interval = 0
  BY <1>2, <1>3, <1>4
<1>5. CASE m.interval > 0
  <2>1. PICK q \in Rounded(m.interval * 8, 10) : i = AtLeast(1, q)
    BY <1>2, <1>5
  <2>2. q \in Int /\ 2 * (q * 10 - m.interval * 8) <= 10
    <3>1. m.interval * 8 \in Nat
      BY <1>1
    <3>. QED
      BY <3>1, RoundedIsNear
  <2>3. CASE m.count <= 2
    <3>1. m.count = 1 => q <= 1
      BY <1>1, <2>2 DEF Paced
    <3>2. m.count = 2 => q <= 4
      BY <1>1, <2>2 DEF Paced
    <3>3. m.count # 0 /\ (m.count = 1 => j = 3) /\ (m.count = 2 => j = 7)
      BY <1>1, <1>2, <1>5, <2>3 DEF NextIntervals, Paced
    <3>. QED
      BY <1>1, <2>1, <2>2, <2>3, <3>1, <3>2, <3>3 DEF AtLeast
  <2>4. CASE m.count > 2
    <3>1. PICK g \in Rounded(m.interval * m.ease, 100) : j = AtLeast(1, g)
      BY <1>1, <1>2, <2>4 DEF NextIntervals
    <3>2. PICK p \in Nat : p = m.interval * m.ease /\ p >= 130 * m.interval
      <4>1. 130 * m.interval <= m.ease * m.interval /\ m.ease * m.interval \in Nat
        BY <1>1, ProductGrows
      <4>2. m.ease * m.interval = m.interval * m.ease
        BY <1>1
      <4>. QED
        BY <4>1, <4>2
    <3>. QED
      BY <1>1, <1>5, <2>1, <3>1, <3>2, HardBeforeGood
  <2>. QED
    BY <1>1, <2>3, <2>4
<1>. QED
  BY <1>1, <1>4, <1>5

\* Nor easy before good.
LEMMA ServerGoodEasy ==
  ASSUME NEW m \in States(Vault),
         NEW i \in IntervalsAfter("server", m, "good"),
         NEW j \in IntervalsAfter("server", m, "easy")
  PROVE  i <= j
<1>. DEFINE ease2 == AtMost(250, m.ease + 10)
<1>1. /\ m.interval \in Nat /\ m.count \in Nat /\ m.ease \in 130 .. 250
  BY VaultStates
<1>2. i \in NextIntervals(m, m.ease)
  BY ServerIntervals
<1>3. PICK base \in NextIntervals(m, ease2) :
        \E e \in Rounded(base * 13, 10) : j = AtLeast(1, e)
  BY ServerIntervals
<1>4. PICK e \in Rounded(base * 13, 10) : j = AtLeast(1, e)
  BY <1>3
<1>5. ease2 \in 130 .. 250 /\ ease2 >= m.ease /\ (ease2 = m.ease => m.ease = 250)
  BY <1>1 DEF AtMost
<1>. HIDE DEF ease2
<1>6. CASE m.count <= 2
  <2>1. base = i /\ i \in {1, 3, 7}
    BY <1>1, <1>2, <1>3, <1>6 DEF NextIntervals
  <2>2. e \in Int /\ -10 <= 2 * (e * 10 - base * 13)
    <3>1. base * 13 \in Nat
      BY <2>1
    <3>. QED
      BY <3>1, RoundedIsNear
  <2>3. e >= i
    BY <2>1, <2>2
  <2>. QED
    BY <1>4, <2>1, <2>2, <2>3 DEF AtLeast
<1>7. CASE m.count > 2
  <2>1. PICK g \in Rounded(m.interval * m.ease, 100) : i = AtLeast(1, g)
    BY <1>1, <1>2, <1>7 DEF NextIntervals
  <2>2. PICK b \in Rounded(m.interval * ease2, 100) : base = AtLeast(1, b)
    BY <1>1, <1>3, <1>7 DEF NextIntervals
  <2>3. PICK p \in Nat, p2 \in Nat :
          /\ p = m.interval * m.ease /\ p2 = m.interval * ease2 /\ p <= p2
          /\ p = p2 => p = 0 \/ p >= 250
    <3>1. /\ m.ease * m.interval \in Nat /\ ease2 * m.interval \in Nat
          /\ m.ease * m.interval <= ease2 * m.interval
          /\ m.ease < ease2 /\ m.interval >= 1 => m.ease * m.interval < ease2 * m.interval
      <4>1. m.ease \in Nat /\ ease2 \in Nat /\ m.ease <= ease2
        BY <1>1, <1>5
      <4>2. PICK x \in Nat : x = m.ease
        BY <4>1
      <4>3. PICK y \in Nat : y = ease2
        BY <4>1
      <4>4. PICK z \in Nat : z = m.interval
        BY <1>1
      <4>5. x <= y
        BY <4>1, <4>2, <4>3
      <4>6. /\ x * z \in Nat /\ y * z \in Nat /\ x * z <= y * z
            /\ x < y /\ z >= 1 => x * z < y * z
        BY <4>5, ProductGrows
      <4>. QED
        BY <4>2, <4>3, <4>4, <4>6
    <3>2. m.ease * m.interval = m.interval * m.ease /\ ease2 * m.interval = m.interval * ease2
      BY <1>1, <1>5, ProductCommutes
    <3>3. m.interval = 0 => m.interval * m.ease = 0
      BY <1>1
    <3>4. m.interval # 0 /\ m.ease = 250 => m.interval * m.ease >= 250
      BY <1>1
    <3>5. m.interval * m.ease = m.interval * ease2
            => m.interval * m.ease = 0 \/ m.interval * m.ease >= 250
      BY <1>1, <1>5, <3>1, <3>2, <3>3, <3>4
    <3>. QED
      BY <3>1, <3>2, <3>5
  <2>. QED
    BY <1>4, <2>1, <2>2, <2>3, GoodBeforeEasy
<1>. QED
  BY <1>1, <1>6, <1>7

\* The clients' graders, in every state.
LEMMA ClientsOrder ==
  ASSUME NEW app \in Synced, NEW m \in States(Synced)
  PROVE  /\ \A i \in IntervalsAfter(app, m, "again"), j \in IntervalsAfter(app, m, "hard") :
              i <= j
         /\ \A i \in IntervalsAfter(app, m, "hard"), j \in IntervalsAfter(app, m, "good") :
              i <= j
         /\ \A i \in IntervalsAfter(app, m, "good"), j \in IntervalsAfter(app, m, "easy") :
              i <= j
<1>1. m.interval \in Nat /\ m.ease \in Nat /\ m.ease >= 130
  BY SyncedStates
<1>2. \A r \in Rating : \A i \in IntervalsAfter(app, m, r) : i \in Nat /\ i >= 1
  <2>. SUFFICES ASSUME NEW r \in Rating, NEW n \in Rated(app, m, r)
                PROVE  n.interval \in Nat /\ n.interval >= 1
    BY DEF IntervalsAfter
  <2>1. n \in States(Synced) /\ n.interval >= 1
    BY ClientGrades
  <2>. QED
    BY <2>1, SyncedStates
<1>3. ASSUME NEW i \in IntervalsAfter(app, m, "again"), NEW j \in IntervalsAfter(app, m, "hard")
      PROVE  i <= j
  <2>1. i = 1
    BY ClientIntervals DEF Synced
  <2>2. j \in Nat /\ j >= 1
    BY <1>2 DEF Rating
  <2>. QED
    BY <2>1, <2>2
<1>4. PICK p \in Nat : /\ p = m.interval * m.ease
                       /\ m.interval # 0 => p >= 130 * m.interval /\ p >= 130
  <2>1. 130 * m.interval <= m.ease * m.interval /\ m.ease * m.interval \in Nat
    BY <1>1, ProductGrows
  <2>2. m.ease * m.interval = m.interval * m.ease
    BY <1>1
  <2>3. m.interval # 0 => m.ease * m.interval >= 130
    BY <1>1, <2>1
  <2>. QED
    BY <2>1, <2>2, <2>3
<1>5. ASSUME NEW i \in IntervalsAfter(app, m, "hard"), NEW j \in IntervalsAfter(app, m, "good")
      PROVE  i <= j
  <2>1. CASE app = "web"
    <3>1. /\ i = AtLeast(1, (m.interval * 12) \div 10)
          /\ j \in IF m.interval = 0 THEN {1} ELSE Floored(m.interval * m.ease, 100)
      BY <2>1, ClientIntervals
    <3>2. CASE m.interval = 0
      BY <3>1, <3>2 DEF AtLeast
    <3>3. CASE m.interval # 0
      BY <1>1, <1>4, <3>1, <3>3, WebHardBeforeGood
    <3>. QED
      BY <3>2, <3>3
  <2>2. CASE app = "mobile"
    <3>1. PICK q \in Rounded(m.interval * 12, 10) : i = AtLeast(1, q)
      BY <2>2, ClientIntervals
    <3>2. j = AtLeast(1, 2 * m.interval)
      BY <2>2, ClientIntervals
    <3>3. q \in Int /\ 2 * (q * 10 - m.interval * 12) <= 10
      <4>1. m.interval * 12 \in Nat
        BY <1>1
      <4>. QED
        BY <4>1, RoundedIsNear
    <3>. QED
      BY <1>1, <3>1, <3>2, <3>3 DEF AtLeast
  <2>. QED
    BY <2>1, <2>2 DEF Synced
<1>6. ASSUME NEW i \in IntervalsAfter(app, m, "good"), NEW j \in IntervalsAfter(app, m, "easy")
      PROVE  i <= j
  <2>1. CASE app = "web"
    <3>1. /\ i \in IF m.interval = 0 THEN {1} ELSE Floored(m.interval * m.ease, 100)
          /\ j \in IF m.interval = 0 THEN {4} ELSE Floored(m.interval * m.ease * 13, 1000)
      BY <2>1, ClientIntervals
    <3>2. CASE m.interval = 0
      BY <3>1, <3>2
    <3>3. CASE m.interval # 0
      BY <1>4, <3>1, <3>3, WebGoodBeforeEasy
    <3>. QED
      BY <3>2, <3>3
  <2>2. CASE app = "mobile"
    <3>1. i = AtLeast(1, 2 * m.interval) /\ j = AtLeast(2, 3 * m.interval)
      BY <2>2, ClientIntervals
    <3>. QED
      BY <1>1, <3>1 DEF AtLeast
  <2>. QED
    BY <2>1, <2>2 DEF Synced
<1>. QED
  BY <1>3, <1>5, <1>6

\* The states in the vault are paced.
VaultIsPaced ==
  apps = Vault => \A w \in Word : memory[w] # New => Paced(memory[w])

\* Waits are ordered as their intervals in days are.
LEMMA WaitsOrder ==
  ASSUME NEW i \in Nat, NEW j \in Nat, i <= j
  PROVE  i * Day <= j * Day
BY ProductGrows, DayAssumption

\* Every rating leads to an interval of whole days.
LEMMA RatedInterval ==
  ASSUME NEW A \in {Vault, Synced}, NEW app \in A, NEW m \in States(A), NEW r \in Rating,
         NEW n \in Rated(app, m, r)
  PROVE  n.interval \in Nat
<1>1. CASE A = Vault
  <2>1. n \in States(Vault)
    BY <1>1, ServerGrades DEF Vault
  <2>. QED
    BY <2>1, VaultStates
<1>2. CASE A = Synced
  <2>1. n \in States(Synced)
    BY <1>2, ClientGrades
  <2>. QED
    BY <2>1, SyncedStates
<1>. QED
  BY <1>1, <1>2

\* While the vault is paced, no grader brings a word back later for a worse answer.
LEMMA PacedIsOrdered ==
  ASSUME TypeOK, VaultIsPaced
  PROVE  BetterAnswersComeLater
<1>. DEFINE Waits(app, w, r) == {Wait(app, m, r) : m \in Rated(app, StateOf(app, w), r)}
            Ordered(app, w, r, better) ==
              \A i \in Waits(app, w, r), j \in Waits(app, w, better) : i <= j
<1>1. SUFFICES ASSUME NEW app \in apps, NEW w \in Word
               PROVE  /\ Ordered(app, w, "again", "hard")
                      /\ Ordered(app, w, "hard", "good")
                      /\ Ordered(app, w, "good", "easy")
  BY DEF BetterAnswersComeLater
<1>. DEFINE m == StateOf(app, w)
<1>2. m \in States(apps) /\ apps \in {Vault, Synced}
  BY StateOfTyped DEF TypeOK, Vault, Synced
<1>3. \A r \in Rating : \A n \in Rated(app, m, r) :
        /\ n.interval \in Nat
        /\ n.interval \in IntervalsAfter(app, m, r)
        /\ Wait(app, n, r) = IF app = "server" /\ r = "again" THEN 1 ELSE n.interval * Day
  BY <1>2, RatedInterval DEF IntervalsAfter, Wait
<1>4. ASSUME NEW r \in Rating, NEW better \in Rating, app # "server" \/ r # "again",
             app # "server" \/ better # "again",
             \A i \in IntervalsAfter(app, m, r), j \in IntervalsAfter(app, m, better) : i <= j
      PROVE  Ordered(app, w, r, better)
  <2>. SUFFICES ASSUME NEW n \in Rated(app, m, r), NEW k \in Rated(app, m, better)
                PROVE  Wait(app, n, r) <= Wait(app, k, better)
    OBVIOUS
  <2>1. n.interval \in Nat /\ k.interval \in Nat /\ n.interval <= k.interval
    BY <1>3, <1>4
  <2>2. Wait(app, n, r) = n.interval * Day /\ Wait(app, k, better) = k.interval * Day
    BY <1>3, <1>4
  <2>. QED
    BY <2>1, <2>2, WaitsOrder
<1>5. CASE apps = Vault
  <2>1. app = "server" /\ m \in States(Vault)
    BY <1>2, <1>5 DEF Vault
  <2>2. Paced(m)
    BY <1>5, <2>1 DEF VaultIsPaced, StateOf, Fresh, Paced
  <2>3. Ordered(app, w, "again", "hard")
    <3>. SUFFICES ASSUME NEW n \in Rated(app, m, "again"), NEW k \in Rated(app, m, "hard")
                  PROVE  Wait(app, n, "again") <= Wait(app, k, "hard")
      OBVIOUS
    <3>1. Wait(app, n, "again") = 1
      BY <2>1 DEF Wait
    <3>2. k.interval >= 1 /\ k.interval \in Nat /\ Wait(app, k, "hard") = k.interval * Day
      BY <1>3, <2>1, ServerGrades DEF Rating
    <3>3. k.interval * Day >= 1
      BY <3>2, ProductIsPositive, DayAssumption
    <3>. QED
      BY <3>1, <3>2, <3>3
  <2>4. /\ Ordered(app, w, "hard", "good")
        /\ Ordered(app, w, "good", "easy")
    <3>1. \A i \in IntervalsAfter(app, m, "hard"), j \in IntervalsAfter(app, m, "good") : i <= j
      BY <2>1, <2>2, ServerHardGood
    <3>2. \A i \in IntervalsAfter(app, m, "good"), j \in IntervalsAfter(app, m, "easy") : i <= j
      BY <2>1, ServerGoodEasy
    <3>. QED
      BY <1>4, <3>1, <3>2 DEF Rating
  <2>. QED
    BY <2>3, <2>4
<1>6. CASE apps = Synced
  <2>1. app \in Synced /\ app # "server" /\ m \in States(Synced)
    BY <1>2, <1>6 DEF Synced
  <2>2. /\ \A i \in IntervalsAfter(app, m, "again"), j \in IntervalsAfter(app, m, "hard") : i <= j
        /\ \A i \in IntervalsAfter(app, m, "hard"), j \in IntervalsAfter(app, m, "good") : i <= j
        /\ \A i \in IntervalsAfter(app, m, "good"), j \in IntervalsAfter(app, m, "easy") : i <= j
    BY <2>1, ClientsOrder
  <2>. HIDE DEF m
  <2>. QED
    BY <1>4, <2>1, <2>2 DEF Rating
<1>. QED
  BY <1>2, <1>5, <1>6

\* The invariant BetterAnswersComeLater of the run srs holds for any words and
\* any length of a day, whatever the intervals have grown to and on whichever
\* side of a boundary a product is rounded, also where the web and the mobile
\* client grade the same words in turn.
THEOREM BetterAnswersWait == Spec => []BetterAnswersComeLater
<1>1. Init => VaultIsPaced
  <2>. SUFFICES ASSUME Init, apps = Vault, NEW w \in Word, memory[w] # New
                PROVE  Paced(memory[w])
    BY DEF VaultIsPaced
  <2>1. memory[w] \in {Worn("server"), Learnt("server"), Fresh("server")}
    BY DEF Init, Vault
  <2>. QED
    BY <2>1 DEF Worn, Learnt, Fresh, Paced
<1>2. TypeOK /\ VaultIsPaced /\ [Next]_vars => VaultIsPaced'
  <2>. SUFFICES ASSUME TypeOK, VaultIsPaced, [Next]_vars, apps' = Vault
                PROVE  \A w \in Word : memory'[w] # New => Paced(memory'[w])
    BY DEF VaultIsPaced
  <2>0. /\ apps' = apps
    BY DEF Next, Study, GradeChosen, Grade, ResetMemory, Tick, vars
  <2>1. /\ memory \in [Word -> {New} \cup States(Vault)] /\ now \in Nat
        /\ \A w \in Word : memory[w] # New => Paced(memory[w])
        /\ \A app \in apps : app = "server"
    BY <2>0 DEF TypeOK, VaultIsPaced, Vault
  <2>2. ASSUME NEW app \in apps, NEW w \in Word, NEW r \in Rating, Grade(app, w, r)
        PROVE  \A v \in Word : memory'[v] # New => Paced(memory'[v])
    <3>1. StateOf("server", w) \in States(Vault)
      BY <2>0, <2>1, <2>2, StateOfTyped
    <3>2. Paced(StateOf("server", w))
      BY <2>1 DEF StateOf, Fresh, Paced
    <3>3. PICK n \in Graded("server", StateOf("server", w), r) :
            memory' = [memory EXCEPT ![w] = n]
      BY <2>1, <2>2 DEF Grade
    <3>4. Paced(n)
      BY <2>1, <3>1, <3>2, GradedIsPaced
    <3>. QED
      BY <2>1, <3>3, <3>4
  <2>3. ASSUME NEW app \in apps, NEW w \in Word, ResetMemory(app, w)
        PROVE  \A v \in Word : memory'[v] # New => Paced(memory'[v])
    BY <2>1, <2>3 DEF ResetMemory
  <2>4. CASE Tick \/ UNCHANGED vars
    BY <2>1, <2>4 DEF Tick, vars
  <2>. QED
    BY <2>2, <2>3, <2>4 DEF Next, Study, GradeChosen
<1>. QED
  BY <1>1, <1>2, TypeCorrect, PacedIsOrdered, PTL DEF Spec
=============================================================================
