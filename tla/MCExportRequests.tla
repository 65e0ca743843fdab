-------------------------- MODULE MCExportRequests --------------------------
(***************************************************************************)
(* One request for a resource whose CRD the provider changes: the second   *)
(* schema stores a version that is not served.                             *)
(***************************************************************************)
EXTENDS ExportRequests

CONSTANTS v1, v2

MCCRDs == {[rev |-> 1, served |-> {v1}, storage |-> v1, webhook |-> FALSE],
           [rev |-> 2, served |-> {v1}, storage |-> v2, webhook |-> FALSE]}
=============================================================================
