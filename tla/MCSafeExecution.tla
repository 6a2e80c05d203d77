-------------------------- MODULE MCSafeExecution --------------------------
(* Results that fit in the pipe and results that do not.                   *)
EXTENDS SafeExecutionProperties
=============================================================================
