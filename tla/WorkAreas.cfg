SPECIFICATION Spec
CONSTANTS
  e1 = e1
  e2 = e2
  a1 = a1
  Employees <- Colleagues
  Departments = {d1, d2}
  Areas <- OneSite
  Callers = {c1}
  Home = Home
  None = None
  OwnerOf <- SitesOwner
  HomeStays = TRUE
  MayFail = {"home", "sync"}
SYMMETRY AlikeColleagues
INVARIANTS
  FieldAreasAreAllowed
  ModeFollowsAreas
  EveryoneIsHome
