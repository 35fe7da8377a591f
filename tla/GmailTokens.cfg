SPECIFICATION Spec
CONSTANTS
  Parts = {"gmail"}
  Mails = {"m1", "m2"}
  Oversize = {"m2"}
  SeenTtl = 2
  MaxNow = 2
  MaxFailures = 2
  MaxStops = 1
  Pushes = {r1, r2}
  GmailDaemons <- TokenDaemons
  NoToken = NoToken
  Notes <- TokenNotes
  TooBig = {"m1"}
  MaxLetters = 4
  Owner <- MCOwner
  Capacity = 2
  MaxRetries = 1
  MaxMtime = 1
  MaxCrashes = 1
  BoxMails = {"m1", "m2"}
  Listings <- MCListings
  Syncs = {1, 2, 3}
  Visits = {v1, v2}
  MaxAccess = 3
  MaxGrants = 2
  MaxRemovals = 2
INVARIANT RoutesToMatchingDaemon
CHECK_DEADLOCK FALSE
