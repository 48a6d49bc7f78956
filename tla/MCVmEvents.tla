----------------------------- MODULE MCVmEvents -----------------------------
EXTENDS VmEventsInv
CONSTANT r1
MCMayRefuse == AsyncOp \cup { "hardStop" }
Receivers == { r1 }
=============================================================================
