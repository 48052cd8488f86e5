CONSTANTS
  HasNeon = TRUE
  Cpus = {c1, c2, c3}
  Cores <- SomeCores
  Layouts <- KernelLayouts
  Text <- TextLines
  MaxLines = 6
  MaxWord = 1023
  MaxText = 5000

SPECIFICATION SubjectSpec

INVARIANTS
  TypeOK
  NamedIsShared
  CalmIsAnswered
  AnswersWhatFileSays
  ReadsExactly

PROPERTY QueryReturns

CHECK_DEADLOCK FALSE
