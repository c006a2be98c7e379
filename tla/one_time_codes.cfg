SPECIFICATION Spec
CONSTANTS
  Requests = {q1, q2}
  Verifications = {v1, v2}
  otpMaxPerHour = 1
  otpMaxAttempts = 2
  MaxCodes = 3
  MaxFailures = 1
SYMMETRY CallSymmetry
INVARIANTS TypeOK CodeSignsInOnce LiveCodesOverlapped AttemptsAreLimited CodesPerHourAreLimited
CHECK_DEADLOCK FALSE
