SPECIFICATION OfferSpec
CONSTANTS
  Listings = {l1, l2}
  Claimers = {c1}
  Registrations = {g1}
  Vins = {}
  Bases = {b1, b2}
  Absent = Absent
  MaxProofs = 2
  MaxProjection = 3
  Orders = {1}
  MaxMedia = 1
  MaxListingVersion = 6
  Offered = l1
PROPERTY ModerationOnSelectedProof
CHECK_DEADLOCK FALSE
