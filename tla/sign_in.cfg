SPECIFICATION Spec
CONSTANTS
  Handlers = {h1, h2}
  OTP_MAX_ATTEMPTS = 2
  OTP_TTL = 1
  Limit <- Limits
  Window = 2
  MaxCodes = 1
  MaxTokens = 3
SYMMETRY Symmetry
INVARIANTS
  GuessesBounded
  CodeSpentOnce
  HitsBounded
  OneTokenPerLogin
CHECK_DEADLOCK FALSE
