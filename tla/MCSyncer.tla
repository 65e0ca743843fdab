------------------------------ MODULE MCSyncer ------------------------------
(***************************************************************************)
(* Instances of Syncer for TLC.  A history variable says whether operators *)
(* have changed the provider's objects behind the konnector: repairing     *)
(* that takes the resync period.                                           *)
(***************************************************************************)
EXTENDS Syncer

VARIABLE touched

MCInit == Init /\ touched = FALSE

Operate == OperatorDelete \/ \E s \in Specs : OperatorCreate(s) \/ OperatorUpdate(s)

MCNext == Next /\ touched' = (touched \/ Operate)

MCSpec == MCInit /\ [][MCNext]_<<vars, touched>> /\ Fairness

\* A copy that the adopt controller made carries the finalizers of its original, which
\* nobody removes in the consumer cluster.
Adopted == cons # NoObj /\ cons.bound


=============================================================================
