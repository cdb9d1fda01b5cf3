SPECIFICATION Spec
CONSTANTS
  Callers = {c1, c2}
  Lines = {a, b}
  Padded = {}
  Multiline = {}
  Pieces <- NoPieces
  InitLine = InitLine
  NoLine = NoLine
  NoCaller = NoCaller
  Registers = {r1}
  InitPcr = r1
  MaxLog = 4
  MaxCrashes = 1
  MaxFails = 0
CHECK_DEADLOCK FALSE
INVARIANT RecoveryFinishesExtend
