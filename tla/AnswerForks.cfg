\* A call with one fork, and one whose two forks race.
SPECIFICATION Spec
CONSTANTS
  fa = fa
  fb = fb
  Forks <- TwoForks
  ForkSets <- OneOrBoth
  NumChoices <- ChoicesEach
  NoLeg = NoLeg
INVARIANTS
  TypeOK
  Lifetimes
  DelaysFound
  NobodyLeftBehind
  AccountedOnce
  OneMoreChoice
  DirectOfWinner
PROPERTY
  EndedCallDeleted
CHECK_DEADLOCK FALSE
