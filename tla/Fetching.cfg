SPECIFICATION FairSpec
CONSTANTS
  ha = ha
  hb = hb
  hx = hx
  a1 = a1
  a2 = a2
  b1 = b1
  x1 = x1
  None = None
  Urls = {a1, a2, b1, x1}
  Hosts = {ha, hb, hx}
  Host <- HostOf
  AllowedHosts = {ha, hb}
  Scope = {a1, a2, b1}
  Patterns <- TwoPatterns
  Covers <- CoverOf
  Length <- LengthOf
  Agents <- ThreeAgents
  Score <- ScoreOf
  Texts <- TextsOf
  CrawlDelay = 1
  Backoff = {1}
  RetryAfter <- Headers
  MaxRetryAfter = 2
  MaxHops = 3
  Longest = 2
INVARIANT HopsAuthorized
PROPERTIES Spaced BlockedIsQuiet FetchEnds
