------------------------------- MODULE Schemas -------------------------------
(***************************************************************************)
(* The conversions between CustomResourceDefinitions and the schema in an  *)
(* APIServiceExport.  A CRD of the provider cluster is reduced to what the *)
(* conversions look at: the versions that are served, the one that is      *)
(* stored, and the conversion strategy; rev stands for the rest.           *)
(***************************************************************************)
EXTENDS Naturals

CONSTANTS
    Names,    \* of versions
    NoName    \* no version

ASSUME NoName \notin Names

CRDSpec(Revs) ==
    [rev : Revs, served : SUBSET Names \ {{}}, storage : Names, webhook : BOOLEAN]

ExportSpec(Revs) ==
    [rev : Revs, versions : SUBSET Names, storage : Names \cup {NoName}]

\* CRDToServiceExport: the served versions; behind a conversion webhook only the stored
\* one.  The storage flags are copied, so that a stored version that is not served
\* leaves none behind.
CRDToServiceExport(crd) ==
    LET versions == IF crd.webhook THEN crd.served \cap {crd.storage} ELSE crd.served
    IN  [rev |-> crd.rev, versions |-> versions,
         storage |-> IF crd.storage \in versions THEN crd.storage ELSE NoName]

\* APIServiceExportCRDSpecHash: taken to be free of collisions.
APIServiceExportCRDSpecHash(spec) == <<"hash", spec>>

\* ServiceExportToCRD: served and storage come from the export, and conversion is not set.
ServiceExportToCRD(spec) ==
    [rev |-> spec.rev, served |-> spec.versions, storage |-> spec.storage, webhook |-> FALSE]

\* What the API server demands of a CRD, given the versions that were once stored.
IsValid(crd, stored) == crd.storage \in crd.served /\ stored \subseteq crd.served
=============================================================================
