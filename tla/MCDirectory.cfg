SPECIFICATION Spec
CONSTANTS
  u1 = u1
  u2 = u2
  m1 = m1
  m2 = m2
  c1 = c1
  t1 = t1
  g1 = g1
  g2 = g2
  n1 = n1
  n2 = n2
  d1 = d1
  r1 = r1
  r2 = r2
  Users = {u1, u2}
  Emails = {m1, m2}
  Empcodes = {c1}
  Tasks = {t1}
  Teams = {g1, g2}
  TeamNames = {n1, n2}
  Devices = {d1}
  Requests = {r1, r2}
  Areas = {{"profile"}, {"work"}, {"projection"}, {"team"}, {"device"}}
  Nobody = Nobody
  NoCode = NoCode
  Blank = Blank
  None = None
SYMMETRY Symmetry
INVARIANTS NamesExist ChecksSuffice OneRecordPerDay SignInCurrent
