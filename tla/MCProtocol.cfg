CONSTANTS
  f = f
  g = g
  v = v
  Nil = Nil
  Token <- Tokens
  Texts <- AllTexts
  Commands <- AllCommands
SPECIFICATION Spec
INVARIANTS
  TypeOK
  LastAssignmentWins
  NamesAreFields
  OneWordUnderstood
