------------------------------ MODULE MCBatchInference ------------------------------
(* Model checking of the batch engine: three requests, the second one       *)
(* urgent, the third one for a model that is not registered.                *)
EXTENDS BatchInference

MCRequests == {"r1", "r2", "r3"}
MCUrgent == {"r2"}
MCUnknown == {"r3"}
MCStrategies == {"timeout", "memory_aware"}
================================================================================
