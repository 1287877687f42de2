\* Three writes through a pipeline of two, with two failures of any kind.
SPECIFICATION FairSpec
CONSTANTS
  Docs = {"d1"}
  LastWrite = 3
  DocOf <- OneDocument
  Refusable = {1}
  MaxPending = 2
  MaxFaults = 2
  MaxOthers = 1
INVARIANTS
  TypeOK
  InStep
  PipelineFromQueue
  TimersAndTokensCurrent
  CompletionsInOrder
  OkIsApplied
  
  OwnWritesSeen
  
PROPERTIES
  EveryWriteSettles
  ToldOnce
  
  
CHECK_DEADLOCK FALSE
