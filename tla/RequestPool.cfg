SPECIFICATION PoolLiveSpec
CONSTANTS
  h1 = h1  h2 = h2  probe = probe  scrape = scrape
  Requests = {h1, h2, probe, scrape}
  Path <- MCPath
  Threads = 2
  PoolSize = 1
INVARIANTS StallNeedsCrowd ScrapeLagsByOne
PROPERTIES EveryRequestServed
CHECK_DEADLOCK FALSE
