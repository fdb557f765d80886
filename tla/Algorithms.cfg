\* Every bound of the pure algorithms: one input of one algorithm per behaviour.
SPECIFICATION Spec
CONSTANTS
  Odd = {"c:d"}
  MaxEntries = 2
  MaxBytes = 3
  MaxLines = 3
  Numeral = {"0", "1", "2", "9"}
  ValueOf <- NumeralValues
  OidLengths = {2}
  HexDigits = {"e", "f"}
  Base <- BaseNames
  Dashed = {"-lc"}
  CommandFlags = {"-lc"}
  Assigned = {"A=1"}
  Quoted <- QuotedWords
  MaxId = 3
  MaxTasks = 2
  MaxAgents = 2
  MaxRepeat = 3
  MaxInvocations = 6
  MaxErrorBytes = 4
INVARIANTS PathsStayInside TotalsAreThoseOfTheDiff  RecordsAgree DefinitionsLoad
CHECK_DEADLOCK FALSE
