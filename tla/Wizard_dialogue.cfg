CONSTANTS
  Server = {1}
  Admin = {1, 2}
  Originals <- Profiles
  Nothing = Nothing
  InvalidLimit = 2
  MaxReturns = 1
SPECIFICATION Spec
INVARIANT WizardInv
PROPERTIES SavedIsAnswered NoSecretOfAnother
CHECK_DEADLOCK FALSE
