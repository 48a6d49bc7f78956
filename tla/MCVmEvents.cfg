SPECIFICATION RxSpec
CONSTANTS
  MayRefuse <- MCMayRefuse
  r1 = r1
  Receiver <- Receivers
  Capacity = 2
INVARIANT RxTypeOK
INVARIANT OnlyStopsAreMissed
PROPERTY HistoryHasNoGap
INVARIANT RxInv
