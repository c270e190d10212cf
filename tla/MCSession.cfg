\* Up to three URLs, and two builder calls or a URL and one; MaxU32 is scaled down to four milliseconds.
SPECIFICATION Spec
CONSTANTS
  n1 = n1
  n2 = n2
  p1 = p1
  p2 = p2
  u1 = u1
  ch1 = ch1
  az1 = az1
  pem1 = pem1
  pem2 = pem2
  Url <- MCUrl
  Address = {n1}
  Setting <- MCSetting
  Kinds = {"Exact"}
  Channel = {ch1}
  Password <- MCPassword
  MaxUrls = 3
  MaxInputs = 2
  MaxU32 = 4
INVARIANTS TypeOK UrlsAgree RequestAsAsked SessionAsConfigured PasswordIsShared
