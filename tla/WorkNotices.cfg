SPECIFICATION WorkSpec
CONSTANTS
  m1 = m1
  m2 = m2
  r1 = r1
  r2 = r2
  s1 = s1
  s2 = s2
  Managers <- TwoManagers
  Recruiters <- TwoRecruiters
  Lead = m1
  Reader = m2
  Nobody = Nobody
  Actors <- SomeActors
  Juries <- SomeJuries
  Places <- TwoPlaces
  Tries = 2
  MaxMoves = 1
INVARIANTS DutyIsAnnounced ReadMeansSeen
PROPERTY NoForwardAfterEnd
SYMMETRY Alike
CHECK_DEADLOCK FALSE
