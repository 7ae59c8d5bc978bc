SPECIFICATION Spec
CONSTANTS
  Men = {m1, m2}
  Women = {w1, w2}
  NoOne = NoOne
  MaternityDays = 2
  Grants = {0, 1, 2}
  Admins = {a1}
  Undisturbed = TRUE
INVARIANTS
  WifeIsShort
  LinksAreMutual
