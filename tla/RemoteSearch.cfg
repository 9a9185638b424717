SPECIFICATION FairSpec
CONSTANTS
  Workers = {"w1", "w2"}
  DefaultWorker = "w1"
  Proxies = {"p1"}
  BrowserIds = {"b1"}
  ServerIds = {"s1", "s2"}
  Hosts = {"hub", "quay"}
  Secrets = {"x"}
  Remembered <- MCRemembered
  Registries <- MCRegistries
  Terms = {"term"}
  Repos = {"nginx"}
  Refs = {"quay/app", "quay/db"}
  HostOf <- MCHostOf
  LastPage = 2
  MaxEvents = 3
INVARIANTS
  Sound
  KeptAsAsked
PROPERTIES
  ComesToRest
CHECK_DEADLOCK FALSE
