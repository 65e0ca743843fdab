---------------------------- MODULE MCKonnector ----------------------------
(***************************************************************************)
(* Three bindings over two Secrets: two bindings share a Secret, and both  *)
(* Secrets can hold the same kubeconfig.                                   *)
(***************************************************************************)
EXTENDS Konnector

CONSTANTS b1, b2, b3, s1, s2

MCSecretOf == [b \in {b1, b2, b3} |-> IF b = b3 THEN s2 ELSE s1]
=============================================================================
