CONSTANTS
  r1 = r1
  r2 = r2
  p1 = p1
  Requests = {r1, r2, p1}
  Prompts = {p1}
  MaxLines = 2
SPECIFICATION ClientSpec
CHECK_DEADLOCK FALSE
INVARIANTS
  PendingIsTrue
  NothingWaitsOnAGonePi
  ReadyBeforeAnswers
PROPERTIES
  RequestsSettle
