SPECIFICATION Spec
CONSTANT MayRefuse <- MCStopObeyed
INVARIANT StoppedBeforeRelease
