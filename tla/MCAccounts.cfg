CONSTANTS
  Clients = {c1, c2}
  Sites <- MCSites
  Ours = {"Laspi"}
  SeedUsers <- MCSeedUsers
  Missing = Missing
  MaxSeeds = 2
  Profiles <- MCProfiles
  AccessDays = 1
  FeedbackDays = 1
  MaxNow = 1
  MaxRequests = 4
  NoToken = NoToken
  Nobody = Nobody
SPECIFICATION Spec
SYMMETRY MCSymmetry
INVARIANTS
  TypeOK
  SeasonHonest
  OwnPlayer
  LoginHeals
  ServerErrorsAreReal
  OnboardKept
\* The requests and the seeds are used up.
CHECK_DEADLOCK FALSE
