SPECIFICATION UartFairSpec
CONSTANTS
  BufLen = 2
  Answers <- MCAnswers
  Reboot = {"reset"}
  MaxLines = 3
  MaxRadio = 2
INVARIANTS UartTypeOK HeardIsAnswer
PROPERTIES LinesInOrder LineHandled
CHECK_DEADLOCK FALSE
