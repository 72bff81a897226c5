SPECIFICATION FairSpec
CONSTANTS
  CodeLen = 1
  Instr <- TimerInstr
  RobSize = 2
  StoreSize = 1
  CommitWidth = 1
  Half = 2
PROPERTIES
  RequestHeld
  InterruptTaken
  KeepsGoing
