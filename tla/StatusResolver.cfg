SPECIFICATION ResolverSpec
CONSTANTS
  i1 = i1
  i2 = i2
  url1 = url1
  url2 = url2
  c1 = c1
  c2 = c2
  i3 = i3
  NoIssuer = NoIssuer
  Issuers = {i1, i2}
  DefaultIssuer = i1
  Urls = {url1, url2}
  Indexes = {}
  Callers = {c1, c2}
  MaxAge = 2
  CacheTtl = 2
  Skew = 1
  Timeout = 1
  Leads = {0, 2}
  Lifetimes = {1, 2}
  MaxLists = 2
  IssuerIds = {i1, i2, i3}
  Purposes = {"revocation"}
  MaxRedirects = 1
  UrlOf <- OwnUrls
  Horizon = 3
INVARIANTS
    ServedSound
    FetchBounded
PROPERTIES
    ResolutionEnds
CHECK_DEADLOCK FALSE
