CONSTANTS
  u1 = u1
  u2 = u2
  c1 = c1
  n1 = n1
  v1 = v1
  v2 = v2
  Uploads = {u1, u2}
  Commands = {c1}
  Count <- MCCount
  Names = {n1}
  NameOf <- MCNameOf
  Visits = {v1, v2}
  Elsewhere = Elsewhere
  MaxChoices <- MCMaxChoices
SPECIFICATION RunSpec
INVARIANTS
  SubmissionTypeOK
  AnswerIsComplete
  CountIsBacked
  DetailIsComplete
  ChoicesSubmittedOnce
PROPERTIES
  AnswerSettles
  UploadsAreAnswered
  PageIsFreed
CHECK_DEADLOCK FALSE
