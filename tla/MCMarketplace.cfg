SPECIFICATION MarketplaceSpec
CONSTANTS
  Starters = {b1, b2}
  IdentityKeys = {"start1", "start2"}
  References = {b1, b2}
  IdentityEvents = {b1, b2}
  MaxAttempts = 2
  Nothing = Nothing
  LimitedCalls = {b1, b2}
  SubjectLists <- OneList
  Limit = 1
  MaxWindows = 2
  Registrants = {a1, a2, a3}
  RegistrationKeys = {"key1", "key2"}
  Emails = {"mail1", "mail2"}
  Callers = {b1, b2}
  MaxTries = 1
  Nobody = Nobody
  Listings = {l1, l2}
  Claimers = {o1}
  Registrations = {g1, g2}
  Vins = {w1}
  Bases = {b1, b2}
  Absent = Absent
  MaxProofs = 2
  MaxProjection = 6
  Orders = {1}
  MaxMedia = 1
  MaxListingVersion = 9
  Transactions = {a1, a2, a3}
  MediaLimit = 1
  Offered = l1
  MaxEdits = 1
  MaxSubmissions = 2
INVARIANTS
  MarketplaceTypeOK
  ProjectionIsNewestAttempt RedeliveryIsDuplicate
  AdmissionsBounded
  OneAccountPerEmail KeysNameTheirAccount
  VersionCountsGrants CachedAccessCurrent
  SelectionIsNewestProof
  PendingIsLastSubmission RequestsBoundToIdentity
  DeadlocksNeedEvidence MediaWithinLimit
PROPERTIES
  ProjectionImplemented GrantsWithinTries
  SupersededNeverVerified VerdictsFollowIdentity VehicleIdentityStable
SYMMETRY Symmetry
CHECK_DEADLOCK FALSE
