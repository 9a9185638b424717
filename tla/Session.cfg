SPECIFICATION FairSpec
CONSTANTS
  Users = {"admin", "viewer"}
  Admins = {"admin"}
  Servers = {"here", "there"}
  Pages = {"login", "docker", "auto", "users", "settings"}
  MaxSessions = 3
  MaxEvents = 4
INVARIANTS
  Sound
PROPERTIES
  SignedOutStaysOut
  EndsForCause
  LoginEnds
CHECK_DEADLOCK FALSE
