SPECIFICATION Spec
CONSTANT MayRefuse <- MCMayRefuse
INVARIANT DropForceStops
