SPECIFICATION FairSpec
CONSTANTS
  Keys <- MCKeys
  AllowedKeys <- MCAllowedKeys
  MaxIterations = 4
  TokenBudget = 9
  FirstPrompts <- MCFirstPrompts
  StepTokens <- MCStepTokens
  Answer = Answer
  NoAnswer = NoAnswer
INVARIANTS
  CallsAccountForExecutions
  SpentBounded
PROPERTIES
  NoRepeatedExecution
  Termination
  ImplementsContract
