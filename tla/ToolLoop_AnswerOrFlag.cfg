SPECIFICATION Spec
CONSTANTS
  Keys <- MCKeys
  AllowedKeys <- MCAllowedKeys
  MaxIterations = 4
  TokenBudget = 9
  FirstPrompts <- MCFirstPrompts
  StepTokens <- MCStepTokens
  Answer = Answer
  NoAnswer = NoAnswer
INVARIANTS
  AnswerOrFlag
