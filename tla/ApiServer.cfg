SPECIFICATION ApiSpec
CONSTANTS
  Jobs = {j1, j2}
  Resources <- MCResources
  Absent <- MCAbsent
  Denied <- MCDenied
  None = None
  Err = Err
  GetAttempts = 2
  MaxCalls = 6
  Clients = {c1, c2}
  c1 = c1
  c2 = c2
  Boot = boot
  Content <- MCContent
  Scenes <- MCScenes
CHECK_DEADLOCK FALSE
INVARIANTS TokenMatchesKey RequestsAnsweredRight MountsBacked KeyFileRemoved ServesWithCredentials
PROPERTY HubRequestsEnd
