\* Ten lines: a wizard that begins again, or one with every field and a question.
CONSTANTS
  Columns <- MCColumns
  Constraints <- MCConstraints
  Owned = {"cars"}
  Granted = {"trips"}
  Distinct <- MCDistinct
  Place <- MCPlace
  MaxChanges = 2
  MaxLines = 10
\* The agent has exited.
CHECK_DEADLOCK FALSE
SPECIFICATION FairSpec
INVARIANTS
  TypeOK
  SchemaHolds
  KeysAreFound
  SamplesAreOfFewValues
  PromptsGetTheirLines
  OneConnectorForTheSession
  SessionAgesByChangesOnly
PROPERTY InputEndsTheAgent
