SPECIFICATION Spec
CONSTANTS
  Users = {"admin", "viewer"}
  Admins = {"admin"}
  Servers = {"here", "there"}
  Pages = {"login", "docker", "auto", "users", "settings"}
  MaxSessions = 3
  MaxEvents = 3
INVARIANTS PoliciesOfServer
CHECK_DEADLOCK FALSE
