SPECIFICATION Spec
CONSTANT MayRefuse <- MCMayRefuse
INVARIANT TypeOK
INVARIANT LiveIsReported
INVARIANT NoRunningOrphan
INVARIANT OkMeansReached
INVARIANT OneAnswer
INVARIANT IInv
PROPERTY PausedSurvivesDrop
PROPERTY BusNeverLeads
PROPERTY EveryCallReturns
PROPERTY DropCompletes
PROPERTY ImplementsContract
