SPECIFICATION Spec
CONSTANT MayRefuse <- MCMayRefuse
PROPERTY ReportedEndStands
