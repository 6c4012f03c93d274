\* Two uploads, two finalize calls and two variants; four vehicles, a dealer, two guides and
\* a charger with one change among them, pages of one, two and three, and a third page as
\* the last; three requests at a time against limits of two, for two users and addresses;
\* three test drives drawing from two references.  The system may stop.
SPECIFICATION StorefrontSpec
CONSTANTS
  Keys = {k1, k2}
  Calls = {c1, c2}
  Variants = 2
  MaxKeys = 2
  Nothing = Nothing
  v1 = v1
  v2 = v2
  v3 = v3
  v4 = v4
  d1 = d1
  g1 = g1
  g2 = g2
  l1 = l1
  Vehicles = {v1, v2, v3, v4}
  Dealers = {d1}
  Guides = {g1, g2}
  Chargers = {l1}
  Group <- BodyTypes
  Price <- Prices
  Published <- Dates
  DealerOf <- Sellers
  Queries <- SomeQueries
  PageSizes = {0, 1, 5}
  FixedSize <- SomeSizes
  DefaultPerPage = 2
  MaxPerPage = 3
  CountCap = 4
  MaxPage = 3
  SimilarLimit = 1
  FacetLimit = 1
  SavedLimit = 2
  MaxEdits = 1
  None = None
  Users = {u1, u2}
  Searchers = {s1, s2, s3}
  MaxSavedSearches = 2
  Emails = {e1, e2}
  Enquirers = {q1, q2, q3}
  MaxInquiriesPerHour = 2
  Drives = {t1, t2, t3}
  References = {x1, x2}
  Unset = Unset
INVARIANTS
  StorefrontTypeOK
  PublishedImageServes
  BrowseSeesAll
  CatalogueAgrees
  ReferenceFindsItsOwn
PROPERTIES
  PhotoNotLost
  QuarantineEmpties
  LimitsHold
CHECK_DEADLOCK FALSE
