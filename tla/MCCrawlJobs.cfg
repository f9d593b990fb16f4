SPECIFICATION JobsFairSpec
CONSTANTS
  Crawls = {k1}
  Batches = {b1}
  MaxConcurrent = 1
  MaxUrls = 2
  Ttl = 1
  None = none
INVARIANTS
  TableIsSound
PROPERTIES
  ChannelStands
  BatchEnds
