\* Any number of requests, two at a time; two banners at most, two files, and
\* any number of PATCHes with the lists of ListsPatched.
SPECIFICATION Spec
CONSTANTS
  Requests = {r1, r2}
  MaxBanners = 2
  MaxFiles = 2
  MaxCopies = 2
  Lists <- ListsPatched
SYMMETRY Symmetry
INVARIANTS
  AtMostFive
  ImagesServed
PROPERTIES
  LostOnlyToStaleWrite
