\* A cookie and an origin with two values each, two failures and two crashes.
CONSTANTS
  Cookies = {c1}
  Origins = {o1}
  MaxVersion = 2
  MaxFailures = 2
  MaxCrashes = 2
SPECIFICATION FairSpec
INVARIANT LastKnownIsSaved
PROPERTIES StoreRefined CookiesNeverOlder LostOnlyToBackup CookiesGetSaved
\* A site that has set all its values and deleted them leaves nothing to do.
CHECK_DEADLOCK FALSE
