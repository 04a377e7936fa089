CONSTANTS
  r = r
  c1 = c1
  c2 = c2
  e4 = e4
  e6 = e6
  hc = hc
  he = he
  Tasks = {t1}
  Names <- MCNames
  Hosts = {hc, he}
  Servers = {r, c1, c2, e4, e6}
  None = None
  Asked <- MCAsked
  Alias <- MCAlias
  Addresses <- MCAddresses
  Found <- MCFound
  Says <- MCSays
  NsOf <- MCNsOf
  Recursive <- MCRecursive
  Roots = {r}
  Allowed = {r, c1, c2, e4}
  MaxDepth = 4
  MaxChain = 1
  MaxConcurrent = 1
  Enough = 2
  Minimize = TRUE
  Fallback = TRUE
  Bridge = TRUE
  InlineCache = TRUE
  CanBeLate = TRUE
SPECIFICATION FairSpec
INVARIANTS DelegationsTrue FollowersAnswerTheirName ChainsUnbroken
PROPERTY QueriesEnd
