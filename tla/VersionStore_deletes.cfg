CONSTANTS
  Keys = {k1}
  Values = {v1, v2}
  Txs = {t1, t2}
  MaxVersion = 3
  None = None
SPECIFICATION Spec
PROPERTIES DeleteShowsRemoved
