SPECIFICATION StoresSpec
CONSTANTS
  SID = {s1, s2, s3, s4}
  Limit = 2
  MaxTTL = 2
  Key = {k1, k2, k3}
  Top = 1
  LongestTTL = 2
  Second = 2
  MaxEntries = 2
  RedisKey = {k1, k2}
  RedisTTL = 3
  Bucket = {b1, b2}
  MaxBuckets = 1
  Rate = 2
  Burst = 3
  Cost = {1, 3, 4}
  Window <- Windows
  Lasting = {b1}
  LongWindow = 4
  ShortWindow = 2
  Skew = 1
  User = {u1, u2}
  Closer = {c1, c2}
INVARIANTS TypesOK CounterNotBehind WithinLimit SetBounded MapBounded WithinBudgets RetriesHonest
PROPERTIES RefinesPool RefinesStores CloseEnds
CHECK_DEADLOCK FALSE
