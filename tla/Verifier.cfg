SPECIFICATION Spec
CONSTANTS
  i1 = i1
  i2 = i2
  url1 = url1
  url2 = url2
  c1 = c1
  c2 = c2
  alice = alice
  mallory = mallory
  NoIssuer = NoIssuer
  Issuers = {i1}
  IssuerIds = {i1}
  DefaultIssuer = i1
  Urls = {url1}
  UrlOf <- OwnUrls
  Purposes = {"revocation"}
  Indexes = {0}
  Callers = {c1, c2}
  MaxAge = 1
  CacheTtl = 1
  Skew = 0
  Timeout = 1
  MaxRedirects = 0
  Leads = {0}
  Lifetimes = {6}
  MaxLists = 2
  Horizon = 5
  Bindings <- MCBindings
  Credentials <- MCCredentials
  Presentations <- MCPresentations
  Questions <- MCQuestions
  Subjects = {alice, mallory}
  Policy = {"DE"}
  IssuanceSkew = 1
SYMMETRY Symmetric
INVARIANTS
  GuardExact
  AcceptanceHolds
  RevocationRespected
CHECK_DEADLOCK FALSE
