SPECIFICATION HSpec
CONSTANTS
  a = a
  b = b
  d = d
  x = x
  y = y
  NoUrl = NoUrl
  NoBody = NoBody
  Urls <- PairUrls
  InScope <- PairUrls
  LinksOf <- PairLinks
  Sitemap = {}
  Legacy = {}
  MaxDepth = 1
  Seeds = {a}
  Disallowed = {}
  Bodies = {x, y}
  MaxRetries = 2
  MaxCaptures = 2
  MaxCrashes = 1
  May = {"ratelimit", "server_error"}
PROPERTY PausesAreNotFailures
