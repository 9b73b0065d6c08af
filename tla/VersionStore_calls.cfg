CONSTANTS
  Keys = {k1, k2}
  Values = {v1}
  Txs = {t1, t2}
  MaxVersion = 3
  None = None
SPECIFICATION FairOverlapSpec
INVARIANTS NoOrphans
PROPERTIES BulkWhole WritersEnd RefinesAtomicStore LoneCounts
