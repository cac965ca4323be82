CONSTANTS
  MaxText = 5
  Matchers = 2
SPECIFICATION ParserSpec
INVARIANTS LinesHandledOnce LinesWaitForText
CHECK_DEADLOCK FALSE
