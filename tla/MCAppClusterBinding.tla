------------------------ MODULE MCAppClusterBinding ------------------------
(* AppClusterBinding on small instances.                                   *)
EXTENDS AppClusterBinding

CONSTANT x  \* a part of names

\* What the templates offer, with a konnector, and what they do not, without.
WantAll == {[exports |-> Offered, deploy |-> TRUE], [exports |-> APIs \ Offered, deploy |-> FALSE]}

\* One namespace, and a name for each.
Distinct == [b \in Bindings |-> [namespace |-> <<x>>, name |-> <<b>>]]
=============================================================================
