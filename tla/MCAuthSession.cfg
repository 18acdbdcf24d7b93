SPECIFICATION Spec
CONSTANTS
  u1 = u1
  r1 = r1
  r2 = r2
  k1 = k1
  k2 = k2
  Users = {u1}
  Admins = {u1}
  Requests = {r1, r2}
  Codes = {k1, k2}
  MaxFailedAttempts = 2
  NoCode = NoCode
  Nobody = Nobody
INVARIANTS LockoutExact EndedSessionStaysEnded CodesUsedOnce
PROPERTIES GuessingLocks
