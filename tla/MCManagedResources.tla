------------------------- MODULE MCManagedResources -------------------------
(***************************************************************************)
(* A ServiceBinding by itself, or a Backup with a Restore; two endpoints,  *)
(* so that credentials may lack the second.                                *)
(***************************************************************************)
EXTENDS ManagedResources

MCEndpoints == <<"prometheus", "grafana">>
MCContents == {{"prometheus", "grafana"}, {"prometheus"}, {}}
MCClaims == {{"binding"}, {"backup", "restore"}}
=============================================================================
