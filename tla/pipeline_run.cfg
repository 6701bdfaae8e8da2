\* pipeline.go's own figures: 30, 15, 15 and 10 seconds, three attempts.
CONSTANTS
  t1 = t1
  t2 = t2
  ghost = ghost
  q1 = q1
  qBoth = qBoth
  qGhost = qGhost
  Tables = {t1, t2}
  Ghosts = {ghost}
  Queries = {q1, qBoth, qGhost}
  NamesSeen <- MCNamesSeen
  NoQuery = NoQuery
  TotalSLA = 6
  RouteTimeout = 3
  GenTimeout = 3
  ExecTimeout = 2
  MaxAttempts = 3
SPECIFICATION FairSpec
INVARIANTS
  TypeOK
  WithinSLA
  AnswerIsItsQuery
  FeedbackIsFresh
  EveryAttemptTraced
  GivesUpOnlyAtTheLimit
PROPERTY EveryQuestionSettles
