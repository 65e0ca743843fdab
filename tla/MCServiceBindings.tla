-------------------------- MODULE MCServiceBindings --------------------------
(***************************************************************************)
(* Schemas of which the second changes the stored version of the first,    *)
(* the third drops a version that may be stored and the fourth, of a CRD   *)
(* whose stored version is not served, has no stored version.              *)
(***************************************************************************)
EXTENDS ServiceBindings

CONSTANTS v1, v2

MCExports == {[rev |-> 1, versions |-> {v1, v2}, storage |-> v2],
              [rev |-> 2, versions |-> {v1, v2}, storage |-> v1],
              [rev |-> 3, versions |-> {v1}, storage |-> v1],
              [rev |-> 4, versions |-> {v1}, storage |-> NoName]}
=============================================================================
