--------------------------- MODULE MCDurableProcess ---------------------------
\* Instances of DurableProcess for TLC.
EXTENDS DurableProcess

MCKeys == Processes \X {"tool", "sleep"}
MCSleepKeys == Processes \X {"sleep"}
=============================================================================
