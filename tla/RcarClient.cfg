SPECIFICATION Spec
CONSTANTS
  Clients = {c1}
  Builds <- MCBuilds
  Selections = {"absent", "SHA-256", "md5", "number"}
  Resources = {r, x, d}
  Absent = {x}
  Denied = {d}
  None = None
  Err = Err
  Panic = Panic
  HandshakeAttempts = 5
  AttestAttempts = 3
  GetAttempts = 3
  MaxCalls = 2
CHECK_DEADLOCK FALSE
INVARIANTS GivesUpForAReason EvidenceAnswersChallenge
PROPERTY CallsEnd
