\* Taps whose list or prompt has been overtaken.
SPECIFICATION Spec
CONSTANTS
  Pc = {p1, p2}
  SessionId = {s1, s2}
  None = None
  MAX_CLIENTS = 1
  EXPIRY_SECONDS = 1
  MAX_UNIX_SECONDS = 2
  PROOF_TIMEOUT = 1
  APPROVAL_TIMEOUT = 3
  UNKNOWN_COOLDOWN = 2
  REJECTION_FLUSH = 1
PROPERTY StaleTapIsNoStorageFailure
