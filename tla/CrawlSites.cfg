SPECIFICATION FairSpec
CONSTANTS
  a = a
  b = b
  d = d
  x = x
  y = y
  NoUrl = NoUrl
  NoBody = NoBody
  Urls <- TrioUrls
  InScope <- PairUrls
  LinksOf <- TrioLinks
  Sitemap = {d}
  Legacy = {d}
  MaxDepth = 1
  Seeds = {a}
  Disallowed = {}
  Bodies = {x, y}
  MaxRetries = 2
  MaxCaptures = 2
  MaxCrashes = 0
  May = {"ratelimit", "server_error", "rejected", "robots", "low_disk"}
INVARIANTS DoneMeansPublished LinksFollowed
PROPERTY QueuedSettles
