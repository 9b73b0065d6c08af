CONSTANTS
  Keys = {k1}
  Values = {v1, v2}
  Txs = {t1, t2, t3}
  MaxVersion = 3
  None = None
SPECIFICATION OverlapSpec
SYMMETRY Symmetry
INVARIANTS TypeOK CurrentInHistory VersionsGapless AbsentWasDeleted
PROPERTIES HistoryKept LoneCounts
