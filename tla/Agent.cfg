SPECIFICATION AgentSpec
CONSTANTS
  Callers = {c1, c2}
  a = a
  b = b
  s = s
  Lines = {a, b, m, s}
  Padded = {b}
  Multiline = {m}
  Pieces <- MCPieces
  InitLine = InitLine
  NoLine = NoLine
  NoCaller = NoCaller
  Registers = {r1, r2}
  InitPcr = r1
  MaxLog = 3
  MaxCrashes = 1
  MaxFails = 1
  Requests = {q1, q2}
  q1 = q1
  q2 = q2
  MaxStops = 2
  Envs <- MCEnvs
CHECK_DEADLOCK FALSE
INVARIANTS AckedRequestsMeasured MeasuredLinesLogged LogReplaysToRegister
  EvidenceLogCoversQuote QuoteAnswersRequest TsmEntriesRemoved InitDataBound
PROPERTY AgentRequestsEnd
