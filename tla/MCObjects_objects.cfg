\* Every request of the tables, each resource with every outcome
SPECIFICATION Spec
CONSTANTS
  Octet = 4
  Many = 3
  Room = 5
  Numbers <- MCNumbers
  TextLengths <- MCTextLengths
INVARIANTS
  AnswerIsComplete
  ReadIsFaithful
  ChangedMeansTaken
PROPERTIES
  Answers
CHECK_DEADLOCK FALSE
