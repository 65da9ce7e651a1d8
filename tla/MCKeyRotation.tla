-------------------------------- MODULE MCKeyRotation --------------------------------
(* Model checking of the key rotation: one line of up to three keys, with   *)
(* one write or load of the keystore that fails and one crash.              *)
EXTENDS KeyRotation
================================================================================
