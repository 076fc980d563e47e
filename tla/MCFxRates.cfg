CONSTANTS
  binance = binance
  okx = okx
  bybit = bybit
  Sources = {binance, okx, bybit}
  Readers = {reader}
  None = None
  Rates = {180, 200, 206}
  Ttl = 1
  MaxUpdates = 3
  MaxBusy = 2
SYMMETRY MCSymmetry
VIEW MCView
SPECIFICATION FxSpec
PROPERTIES AgreementBoundsRate WonLegAge
CHECK_DEADLOCK FALSE
