SPECIFICATION Spec
CONSTANTS
  Parts <- MCParts
  MaxParts <- MCMaxParts
  Dicts <- MCDicts
  Env <- MCEnv
INVARIANTS
  Utf8IsRead
  WordsAreKept
  QueriesAreRead
  NamesAreKept
  CodesAreExact
CHECK_DEADLOCK FALSE
