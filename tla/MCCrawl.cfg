SPECIFICATION FairSpec
CONSTANTS
  home = home
  about = about
  aboutToo = aboutToo
  news = news
  blog = blog
  team = team
  foreign = foreign
  Urls <- MCUrls
  Key <- MCKey
  Seed = home
  Followable = {home, about, aboutToo, news, blog, team}
  PageLimits = {0, 2, 5}
  DepthLimits = {0, 1, 3}
  MaxDepth = 3
  LinkCap = 2
  RuleCap = 1
CHECK_DEADLOCK FALSE
INVARIANTS
  ReportIsSound
  CoversTheSite
PROPERTIES
  KeepsPromise
  CrawlEnds
