SPECIFICATION Spec
CONSTANTS
  NULL = NULL
  AuxSize = 4
  MaxWords = 3
  Tables <- MCTables
  Words <- MCWords
CHECK_DEADLOCK FALSE
INVARIANTS
  NamesFit
PROPERTIES
  ImplementsGrammar
  ReadingEnds
