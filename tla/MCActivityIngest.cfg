SPECIFICATION Spec
CONSTANTS
  u1 = u1
  e1 = e1
  e2 = e2
  e3 = e3
  r1 = r1
  c1 = c1
  c2 = c2
  a1 = a1
  Users = {u1}
  Events = {e1, e2, e3}
  MaxSent = 2
  OwnerOf <- Owners
  Refused = {e3}
  Requests = {r1}
  Cycles = {c1, c2}
  Admins = {a1}
  Nobody = Nobody
  NoArray = NoArray
INVARIANTS BufferInv StoredOnce StaleForAReason
PROPERTIES ForgottenOnlyByOverlap EventuallyStored OffTakesEffect
