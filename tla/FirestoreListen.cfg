SPECIFICATION FairSpec
CONSTANTS
  Docs = {"d1", "d2"}
  LastCall = 2
  MaxVersion = 2
  MaxFaults = 1
INVARIANTS
  TypeOK
  RequestsCounted
  TimersCurrent
  NothingInLimbo
  WholeAnswers
  AnsweredOnce
PROPERTIES
  EveryCallAnswered
  AnswersSpec
CHECK_DEADLOCK FALSE
