\* Two setups, the admin tool and two clients, with rejected calls and restarts.
SPECIFICATION MCSpec
CONSTANTS
  Clients = {"c1", "c2"}
  Setups = {"s1", "s2"}
  Tools = {"t1"}
  Requests = {"create", "add", "update", "delete", "login", "trust"}
  UserNames = {"alice"}
  RootName = "root-identity"
  AdminName = "Admin-1"
  Faults = {"fail", "crash"}
  MaxFaults = 1
  MaxIds = 3
  MaxRequests = 4
INVARIANTS TypeOK OneRoot KeysHaveOwner SetupComplete
PROPERTIES TokenRoleHeld FirstServed
CHECK_DEADLOCK FALSE
