\* Two words; half a day is a slot.
SPECIFICATION Spec
CONSTANTS
  Word = {w1, w2}
  New = New
  Day = 2
  MaxReviews = 3
  MaxInterval = 12
  MaxNow = 2
INVARIANTS
  TypeOK
  NoOvertaking
  BetterAnswersComeLater
PROPERTIES
  SessionEnds
SYMMETRY Swaps
