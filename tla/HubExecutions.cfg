\* The Hub asks twice for one execution and controls it.
SPECIFICATION LiveSpec
CONSTANTS
  Executions = {e1}
  MaxCreates = 2
INVARIANTS
  AnswersHold
PROPERTIES
  EndsWithAuthority
  ControlHolds
  EveryoneAnswered
